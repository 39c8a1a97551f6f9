-------------------------- MODULE MembershipProofs --------------------------
(***************************************************************************)
(* Proofs about Membership for any number of nodes, any reach of the       *)
(* multicast pings and any bounds on faults and joins.                     *)
(***************************************************************************)
EXTENDS Membership, FiniteSetTheorems, TLAPS

\* UpdateNode keeps the peer tables typed, and the calls as well if the ones
\* that go on are.
LEMMA UpdateNodeType ==
    ASSUME TypeOK, NEW n \in Node, NEW p \in Node, NEW answered \in BOOLEAN,
           NEW others, others \subseteq Greeting,
           UpdateNode(n, p, answered, others)
    PROVE  /\ known' \in [Node -> SUBSET Node]
           /\ greet' \in [Node -> [Node -> States]]
           /\ calls' \subseteq Greeting
<1>1. known' \in [Node -> SUBSET Node]
  BY DEF TypeOK, UpdateNode
<1>2. greet' \in [Node -> [Node -> States]]
  BY DEF TypeOK, UpdateNode, States
<1>3. NewCall(n, p, "schedule") \in Greeting
  BY DEF NewCall, Greeting, Runner
<1>4. calls' \subseteq Greeting
  BY <1>3 DEF UpdateNode
<1> QED
  BY <1>1, <1>2, <1>4

LEMMA InitType == Init => TypeOK
  BY BoundAssumption DEF Init, TypeOK, States

\* Every step of a listener, of HttpCluster, of GreetNode and of the network
\* keeps the variables typed.
LEMMA StepType == TypeOK /\ [Next]_vars => TypeOK'
<1> SUFFICES ASSUME TypeOK, [Next]_vars PROVE TypeOK'
  OBVIOUS
<1> USE BoundAssumption
<1>1. ASSUME NEW n \in Node, NEW m \in Node, HearPing(n, m) PROVE TypeOK'
  BY <1>1 DEF HearPing, TypeOK, NewCall, Greeting, Runner
<1>2. ASSUME NEW n \in Node, NEW m \in Node, HttpJoin(n, m) PROVE TypeOK'
  BY <1>2 DEF HttpJoin, TypeOK, NewCall, Greeting, Runner
<1>3. ASSUME NEW c \in calls, Meet(c) PROVE TypeOK'
  <2> DEFINE others == (calls \ {c}) \cup {[c EXCEPT !.at = "met"]}
  <2>1. c \in Greeting /\ c.to \in Node /\ c.from \in Node
    BY DEF TypeOK, Greeting
  <2>2. others \subseteq Greeting
    BY <2>1 DEF TypeOK, Greeting
  <2>3. UpdateNode(c.to, c.from, FALSE, others) /\ UNCHANGED <<faults, joins>>
    BY <1>3 DEF Meet
  <2> QED
    BY <2>1, <2>2, <2>3, UpdateNodeType DEF TypeOK
<1>4. ASSUME NEW c \in calls, Answer(c) PROVE TypeOK'
  <2> DEFINE list == ButNot(c.from, known[c.to] \cup {c.to})
  <2>1. c \in Greeting
    BY DEF TypeOK
  <2>2. c.to \in Node /\ known[c.to] \subseteq Node
    BY <2>1 DEF TypeOK, Greeting
  <2>3. list \in SUBSET Node
    BY <2>2 DEF ButNot
  <2>4. [c EXCEPT !.at = "answered", !.peers = list] \in Greeting
    BY <2>1, <2>3 DEF Greeting
  <2>5. calls' = (calls \ {c}) \cup {[c EXCEPT !.at = "answered", !.peers = list]}
    BY <1>4 DEF Answer
  <2> QED
    BY <1>4, <2>4, <2>5 DEF Answer, TypeOK
<1>5. ASSUME NEW c \in calls, NEW p \in c.peers, Learn(c, p) PROVE TypeOK'
  <2> DEFINE others == (calls \ {c}) \cup Continue(c, c.peers \ {p})
  <2>1. c \in Greeting /\ c.from \in Node /\ p \in Node /\ (p = c.to) \in BOOLEAN
    BY DEF TypeOK, Greeting
  <2>2. others \subseteq Greeting
    BY <2>1 DEF TypeOK, Greeting, Continue
  <2>3. UpdateNode(c.from, p, p = c.to, others) /\ UNCHANGED <<faults, joins>>
    BY <1>5 DEF Learn
  <2> QED
    BY <2>1, <2>2, <2>3, UpdateNodeType DEF TypeOK
<1>6. ASSUME NEW c \in calls, RequestLost(c) PROVE TypeOK'
  BY <1>6 DEF RequestLost, TypeOK
<1>7. ASSUME NEW c \in calls, AnswerLost(c) PROVE TypeOK'
  BY <1>7 DEF AnswerLost, TypeOK
<1>8. CASE UNCHANGED vars
  BY <1>8 DEF vars, TypeOK
<1> QED
  BY <1>1, <1>2, <1>3, <1>4, <1>5, <1>6, <1>7, <1>8 DEF Next, CallStep

\* The peer tables and the calls of GreetNode keep their shape.
THEOREM TypeCorrect == Spec => []TypeOK
<1> QED
  BY InitType, StepType, PTL DEF Spec

-----------------------------------------------------------------------------
\* Why no node becomes its own peer: no call is addressed to its own caller, and
\* the list that a caller goes through has lost its own entry.

CallsApart == \A c \in calls : c.from # c.to /\ c.from \notin c.peers

OwnInv == TypeOK /\ (\A n \in Node : n \notin known[n]) /\ CallsApart

\* UpdateNode for another node keeps this.
LEMMA UpdateNodeApart ==
    ASSUME TypeOK, \A k \in Node : k \notin known[k],
           NEW n \in Node, NEW p \in Node, p # n, NEW answered \in BOOLEAN,
           NEW others, \A d \in others : d.from # d.to /\ d.from \notin d.peers,
           UpdateNode(n, p, answered, others)
    PROVE  (\A k \in Node : k \notin known'[k]) /\ CallsApart'
<1>1. \A k \in Node : k \notin known'[k]
  BY DEF TypeOK, UpdateNode
<1>2. /\ NewCall(n, p, "schedule").from # NewCall(n, p, "schedule").to
      /\ NewCall(n, p, "schedule").from \notin NewCall(n, p, "schedule").peers
  BY DEF NewCall
<1>3. CallsApart'
  BY <1>2 DEF UpdateNode, CallsApart
<1> QED
  BY <1>1, <1>3

LEMMA InitOwn == Init => OwnInv
  BY InitType DEF Init, OwnInv, CallsApart

\* Only a ping of, a join with, a call from or an answer about another node
\* ever leads to UpdateNode.
LEMMA StepOwn == OwnInv /\ [Next]_vars => OwnInv'
<1> SUFFICES ASSUME OwnInv, [Next]_vars PROVE OwnInv'
  OBVIOUS
<1>1. TypeOK /\ TypeOK'
  BY StepType DEF OwnInv
<1>2. ASSUME NEW n \in Node, NEW m \in Node, HearPing(n, m) PROVE OwnInv'
  <2>1. n # m
    BY <1>2, HearsAssumption DEF HearPing
  <2> QED
    BY <1>1, <1>2, <2>1 DEF HearPing, OwnInv, CallsApart, NewCall
<1>3. ASSUME NEW n \in Node, NEW m \in Node, HttpJoin(n, m) PROVE OwnInv'
  BY <1>1, <1>3 DEF HttpJoin, OwnInv, CallsApart, NewCall
<1>4. ASSUME NEW c \in calls, Meet(c) PROVE OwnInv'
  <2> DEFINE others == (calls \ {c}) \cup {[c EXCEPT !.at = "met"]}
  <2>1. c \in Greeting /\ c.to \in Node /\ c.from \in Node /\ c.from # c.to
    BY <1>1 DEF TypeOK, Greeting, OwnInv, CallsApart
  <2>2. \A d \in others : d.from # d.to /\ d.from \notin d.peers
    BY <2>1 DEF OwnInv, CallsApart, Greeting
  <2>3. UpdateNode(c.to, c.from, FALSE, others)
    BY <1>4 DEF Meet
  <2> QED
    BY <1>1, <2>1, <2>2, <2>3, UpdateNodeApart DEF OwnInv
<1>5. ASSUME NEW c \in calls, Answer(c) PROVE OwnInv'
  <2> DEFINE list == ButNot(c.from, known[c.to] \cup {c.to})
             after == [c EXCEPT !.at = "answered", !.peers = list]
  <2>1. c \in Greeting /\ c.from # c.to
    BY <1>1 DEF TypeOK, OwnInv, CallsApart
  <2>2. c.from \notin list
    BY DEF ButNot
  <2>3. after.from = c.from /\ after.to = c.to /\ after.peers = list
    BY <2>1 DEF Greeting
  <2>4. calls' = (calls \ {c}) \cup {after} /\ known' = known
    BY <1>5 DEF Answer
  <2> HIDE DEF after
  <2> QED
    BY <1>1, <2>1, <2>2, <2>3, <2>4 DEF OwnInv, CallsApart
<1>6. ASSUME NEW c \in calls, NEW p \in c.peers, Learn(c, p) PROVE OwnInv'
  <2> DEFINE others == (calls \ {c}) \cup Continue(c, c.peers \ {p})
  <2>1. c \in Greeting /\ c.from \in Node /\ p \in Node /\ (p = c.to) \in BOOLEAN
    BY <1>1 DEF TypeOK, Greeting
  <2>2. c.from # p /\ c.from # c.to /\ c.from \notin c.peers
    BY DEF OwnInv, CallsApart
  <2>3. \A d \in others : d.from # d.to /\ d.from \notin d.peers
    BY <2>1, <2>2 DEF OwnInv, CallsApart, Continue, Greeting
  <2>4. UpdateNode(c.from, p, p = c.to, others)
    BY <1>6 DEF Learn
  <2> QED
    BY <1>1, <2>1, <2>2, <2>3, <2>4, UpdateNodeApart DEF OwnInv
<1>7. ASSUME NEW c \in calls, RequestLost(c) PROVE OwnInv'
  BY <1>1, <1>7 DEF RequestLost, OwnInv, CallsApart
<1>8. ASSUME NEW c \in calls, AnswerLost(c) PROVE OwnInv'
  BY <1>1, <1>8 DEF AnswerLost, OwnInv, CallsApart
<1>9. CASE UNCHANGED vars
  BY <1>1, <1>9 DEF vars, OwnInv, CallsApart
<1> QED
  BY <1>2, <1>3, <1>4, <1>5, <1>6, <1>7, <1>8, <1>9 DEF Next, CallStep

\* UpdateNode's first test is enough: whoever greets whom, and whatever the
\* answers list, no node gets into its own peer table or greets itself.
THEOREM NoOwnPeer == Spec => []NeverOwnPeer
<1>1. OwnInv => NeverOwnPeer
  BY DEF OwnInv, CallsApart, NeverOwnPeer
<1> QED
  BY InitOwn, StepOwn, <1>1, PTL DEF Spec

-----------------------------------------------------------------------------
\* Facts about the peer tables that the push bookkeeping relies on.

\* While HttpCluster of the callee is at work, the callee knows the caller.
MetKnown == \A c \in calls : c.at = "met" => c.from \in known[c.to]

\* UpdateNode never removes a peer.
LEMMA KnownGrows ==
    ASSUME TypeOK, [Next]_vars
    PROVE  \A n \in Node : known[n] \subseteq known'[n]
<1>1. ASSUME NEW c \in calls, Meet(c) PROVE \A n \in Node : known[n] \subseteq known'[n]
  BY <1>1 DEF Meet, UpdateNode, TypeOK
<1>2. ASSUME NEW c \in calls, NEW p \in c.peers, Learn(c, p)
      PROVE \A n \in Node : known[n] \subseteq known'[n]
  BY <1>2 DEF Learn, UpdateNode, TypeOK
<1> QED
  BY <1>1, <1>2 DEF Next, CallStep, HearPing, HttpJoin, Answer, RequestLost, AnswerLost, vars

LEMMA InitMet == Init => MetKnown
  BY DEF Init, MetKnown

\* Meet adds the caller to the peers, and they stay.
LEMMA StepMet ==
    ASSUME TypeOK, MetKnown, [Next]_vars
    PROVE  MetKnown'
<1>0. \A n \in Node : known[n] \subseteq known'[n]
  BY KnownGrows
<1>1. ASSUME NEW d \in calls', d \in calls \/ d.at # "met"
      PROVE d.at = "met" => d.from \in known'[d.to]
  BY <1>0, <1>1 DEF MetKnown, TypeOK, Greeting
<1>2. ASSUME NEW n, NEW m, NEW by PROVE NewCall(n, m, by).at # "met"
  BY DEF NewCall
<1>3. ASSUME NEW n \in Node, NEW m \in Node, HearPing(n, m) \/ HttpJoin(n, m)
      PROVE MetKnown'
  BY <1>1, <1>2, <1>3 DEF HearPing, HttpJoin, MetKnown
<1>4. ASSUME NEW c \in calls, Meet(c) PROVE MetKnown'
  <2> DEFINE after == [c EXCEPT !.at = "met"]
  <2>1. c.from \in Node /\ c.to \in Node /\ c \in Greeting
    BY DEF TypeOK, Greeting
  <2>2. after.from = c.from /\ after.to = c.to
    BY <2>1 DEF Greeting
  <2>3. c.from \in known'[c.to]
    BY <1>4, <2>1 DEF Meet, UpdateNode, TypeOK
  <2>4. \A d \in calls' : d \in calls \/ d.at # "met" \/ d = after
    BY <1>2, <1>4 DEF Meet, UpdateNode
  <2> HIDE DEF after
  <2> QED
    BY <1>1, <2>2, <2>3, <2>4 DEF MetKnown
<1>5. ASSUME NEW c \in calls, NEW p \in c.peers, Learn(c, p) PROVE MetKnown'
  <2>1. c \in Greeting /\ c.at = "answered"
    BY <1>5 DEF TypeOK, Learn
  <2>2. \A d \in Continue(c, c.peers \ {p}) : d.at # "met"
    BY <2>1 DEF Continue, Greeting
  <2>3. \A d \in calls' : d \in calls \/ d.at # "met"
    BY <1>2, <1>5, <2>2 DEF Learn, UpdateNode
  <2> QED
    BY <1>1, <2>3 DEF MetKnown
<1>6. ASSUME NEW c \in calls, Answer(c) PROVE MetKnown'
  <2> DEFINE after == [c EXCEPT !.at = "answered",
                                !.peers = ButNot(c.from, known[c.to] \cup {c.to})]
  <2>1. after.at # "met"
    BY DEF TypeOK, Greeting
  <2>2. calls' = (calls \ {c}) \cup {after}
    BY <1>6 DEF Answer
  <2> HIDE DEF after
  <2> QED
    BY <1>1, <2>1, <2>2 DEF MetKnown
<1>7. ASSUME NEW c \in calls, RequestLost(c) \/ AnswerLost(c) PROVE MetKnown'
  BY <1>1, <1>7 DEF RequestLost, AnswerLost, MetKnown
<1>8. CASE UNCHANGED vars
  BY <1>1, <1>8 DEF vars, MetKnown
<1> QED
  BY <1>3, <1>4, <1>5, <1>6, <1>7, <1>8 DEF Next, CallStep

-----------------------------------------------------------------------------
\* What greetings leave behind as long as no request fails.

\* Whoever has a call answered, or has ever had one, is known to the callee.
AnsweredKnown ==
    /\ \A c \in calls : c.at # "sent" => c.from \in known[c.to]
    /\ \A n, m \in Node : greet[n][m] = Done => n \in known[m]

\* Until it has passed on the callee's own entry, a call still has it to do.
CalleeLast ==
    \A c \in calls : c.at = "answered" => c.to \in c.peers \/ greet[c.from][c.to] = Done

GreetInv == OwnInv /\ AnsweredKnown /\ (faults = 0 => CalleeLast /\ PendingGreetRuns)

LEMMA NewCallFields ==
    ASSUME NEW n, NEW m, NEW by
    PROVE  /\ NewCall(n, m, by).from = n /\ NewCall(n, m, by).to = m
           /\ NewCall(n, m, by).by = by /\ NewCall(n, m, by).at = "sent"
           /\ NewCall(n, m, by).peers = {}
BY DEF NewCall

\* A call and what becomes of it at each stage.
LEMMA CallFields ==
    ASSUME NEW c \in Greeting, NEW at, NEW peers
    PROVE  /\ LET d == [c EXCEPT !.at = at]
              IN /\ d.from = c.from /\ d.to = c.to /\ d.by = c.by /\ d.at = at
                 /\ d.peers = c.peers
           /\ LET d == [c EXCEPT !.peers = peers]
              IN /\ d.from = c.from /\ d.to = c.to /\ d.by = c.by /\ d.at = c.at
                 /\ d.peers = peers
           /\ LET d == [c EXCEPT !.at = at, !.peers = peers]
              IN /\ d.from = c.from /\ d.to = c.to /\ d.by = c.by /\ d.at = at
                 /\ d.peers = peers
BY DEF Greeting

\* What the callee's UpdateNode does when a greeting arrives.
LEMMA MeetEffect ==
    ASSUME TypeOK, NEW c \in calls, Meet(c)
    PROVE  \E after :
        /\ after.from = c.from /\ after.to = c.to /\ after.by = c.by /\ after.at = "met"
        /\ \A d \in calls : d # c => d \in calls'
        /\ after \in calls'
        /\ \A d \in calls' : \/ d \in calls /\ d # c
                             \/ d = after
                             \/ d = NewCall(c.to, c.from, "schedule")
        /\ \A k, m \in Node : m \in known'[k] <=> m \in known[k] \/ (k = c.to /\ m = c.from)
        /\ \A k, m \in Node : k # c.to \/ m # c.from => greet'[k][m] = greet[k][m]
        /\ greet[c.to][c.from] # Never => greet'[c.to][c.from] = greet[c.to][c.from]
        /\ greet[c.to][c.from] = Never =>
              /\ greet'[c.to][c.from] = Pending
              /\ NewCall(c.to, c.from, "schedule") \in calls'
<1> DEFINE after == [c EXCEPT !.at = "met"]
           others == (calls \ {c}) \cup {after}
<1>1. c \in Greeting /\ c.from \in Node /\ c.to \in Node
  BY DEF TypeOK, Greeting
<1>2. after.from = c.from /\ after.to = c.to /\ after.by = c.by /\ after.at = "met"
  BY <1>1, CallFields
<1>3. UpdateNode(c.to, c.from, FALSE, others)
  BY DEF Meet
<1>4. \A d : d \in others <=> (d \in calls /\ d # c) \/ d = after
  OBVIOUS
<1> HIDE DEF after, others
<1>5. /\ \A k, m \in Node : m \in known'[k] <=> m \in known[k] \/ (k = c.to /\ m = c.from)
      /\ \A k, m \in Node : k # c.to \/ m # c.from => greet'[k][m] = greet[k][m]
      /\ greet[c.to][c.from] # Never => greet'[c.to][c.from] = greet[c.to][c.from]
      /\ greet[c.to][c.from] = Never => greet'[c.to][c.from] = Pending
  BY <1>1, <1>3, SMTT(30) DEF UpdateNode, TypeOK
<1>6. /\ others \subseteq calls'
      /\ calls' \subseteq others \cup {NewCall(c.to, c.from, "schedule")}
      /\ greet[c.to][c.from] = Never => NewCall(c.to, c.from, "schedule") \in calls'
  BY <1>3 DEF UpdateNode
<1> QED
  BY <1>2, <1>4, <1>5, <1>6

\* What the caller's UpdateNode does with one entry of the answer.
LEMMA LearnEffect ==
    ASSUME TypeOK, NEW c \in calls, NEW p \in c.peers, Learn(c, p)
    PROVE  \E after :
        /\ after.from = c.from /\ after.to = c.to /\ after.by = c.by /\ after.at = "answered"
        /\ after.peers = c.peers \ {p}
        /\ \A d \in calls : d # c => d \in calls'
        /\ after \in calls' \/ c.peers \subseteq {p}
        /\ \A d \in calls' : \/ d \in calls /\ d # c
                             \/ d = after
                             \/ d = NewCall(c.from, p, "schedule")
        /\ \A k, m \in Node : m \in known'[k] <=> m \in known[k] \/ (k = c.from /\ m = p)
        /\ \A k, m \in Node : k # c.from \/ m # p => greet'[k][m] = greet[k][m]
        /\ p = c.to => greet'[c.from][p] = Done
        /\ p # c.to /\ greet[c.from][p] # Never => greet'[c.from][p] = greet[c.from][p]
        /\ p # c.to /\ greet[c.from][p] = Never =>
              /\ greet'[c.from][p] = Pending
              /\ NewCall(c.from, p, "schedule") \in calls'
<1> DEFINE after == [c EXCEPT !.peers = c.peers \ {p}]
           others == (calls \ {c}) \cup Continue(c, c.peers \ {p})
<1>1. /\ c \in Greeting /\ c.from \in Node /\ c.to \in Node /\ p \in Node
      /\ (p = c.to) \in BOOLEAN /\ c.at = "answered"
  BY DEF TypeOK, Greeting, Learn
<1>2. /\ after.from = c.from /\ after.to = c.to /\ after.by = c.by
      /\ after.at = "answered" /\ after.peers = c.peers \ {p}
  BY <1>1, CallFields
<1>3. UpdateNode(c.from, p, p = c.to, others)
  BY DEF Learn
<1>4. /\ \A d \in calls : d # c => d \in others
      /\ \A d \in others : (d \in calls /\ d # c) \/ d = after
      /\ after \in others \/ c.peers \subseteq {p}
  BY DEF Continue
<1> HIDE DEF after, others
<1>5. /\ \A k, m \in Node : m \in known'[k] <=> m \in known[k] \/ (k = c.from /\ m = p)
      /\ \A k, m \in Node : k # c.from \/ m # p => greet'[k][m] = greet[k][m]
      /\ p = c.to => greet'[c.from][p] = Done
      /\ p # c.to /\ greet[c.from][p] # Never => greet'[c.from][p] = greet[c.from][p]
      /\ p # c.to /\ greet[c.from][p] = Never => greet'[c.from][p] = Pending
  BY <1>1, <1>3, SMTT(30) DEF UpdateNode, TypeOK
<1>6. /\ others \subseteq calls'
      /\ calls' \subseteq others \cup {NewCall(c.from, p, "schedule")}
      /\ p # c.to /\ greet[c.from][p] = Never => NewCall(c.from, p, "schedule") \in calls'
  BY <1>1, <1>3 DEF UpdateNode
<1> QED
  BY <1>2, <1>4, <1>5, <1>6

LEMMA InitGreet == Init => GreetInv
<1> SUFFICES ASSUME Init PROVE GreetInv
  OBVIOUS
<1>1. OwnInv
  BY InitOwn
<1>2. AnsweredKnown /\ CalleeLast /\ PendingGreetRuns
  BY DEF Init, AnsweredKnown, CalleeLast, PendingGreetRuns, Never, Pending, Done
<1> QED
  BY <1>1, <1>2 DEF GreetInv

LEMMA StepAnswered ==
    ASSUME OwnInv, AnsweredKnown, [Next]_vars PROVE AnsweredKnown'
<1> USE DEF Never, Pending, Done
<1>0. TypeOK /\ \A n \in Node : known[n] \subseteq known'[n]
  BY KnownGrows DEF OwnInv
<1>1. ASSUME NEW d \in calls', d \in calls \/ d.at = "sent"
      PROVE  d.at # "sent" => d.from \in known'[d.to]
  BY <1>0, <1>1 DEF AnsweredKnown, TypeOK, Greeting
<1>2. ASSUME UNCHANGED greet
      PROVE  \A n, m \in Node : greet'[n][m] = Done => n \in known'[m]
  BY <1>0, <1>2 DEF AnsweredKnown, TypeOK
<1>3. ASSUME NEW n \in Node, NEW m \in Node, HearPing(n, m) \/ HttpJoin(n, m)
      PROVE  AnsweredKnown'
  BY <1>1, <1>2, <1>3, NewCallFields DEF HearPing, HttpJoin, AnsweredKnown
<1>4. ASSUME NEW c \in calls, Meet(c) PROVE AnsweredKnown'
  <2>1. c.from \in Node /\ c.to \in Node
    BY <1>0 DEF TypeOK, Greeting
  <2>2. PICK after :
          /\ after.from = c.from /\ after.to = c.to
          /\ \A d \in calls' : d \in calls \/ d = after \/ d = NewCall(c.to, c.from, "schedule")
          /\ \A k, m \in Node : greet'[k][m] = Done => greet[k][m] = Done
          /\ c.from \in known'[c.to]
    BY <1>0, <1>4, <2>1, MeetEffect
  <2> QED
    BY <1>0, <1>1, <2>1, <2>2, NewCallFields DEF AnsweredKnown, TypeOK
<1>5. ASSUME NEW c \in calls, Answer(c) PROVE AnsweredKnown'
  <2> DEFINE list == ButNot(c.from, known[c.to] \cup {c.to})
             after == [c EXCEPT !.at = "answered", !.peers = list]
  <2>1. c \in Greeting /\ c.to \in Node /\ c.at # "sent"
    BY <1>0, <1>5 DEF TypeOK, Greeting, Answer
  <2>2. after.from = c.from /\ after.to = c.to
    BY <2>1, CallFields
  <2>3. calls' = (calls \ {c}) \cup {after} /\ UNCHANGED <<known, greet>>
    BY <1>5 DEF Answer
  <2> HIDE DEF after, list
  <2> QED
    BY <1>1, <1>2, <2>1, <2>2, <2>3 DEF AnsweredKnown
<1>6. ASSUME NEW c \in calls, NEW p \in c.peers, Learn(c, p) PROVE AnsweredKnown'
  <2>1. c.from \in Node /\ c.to \in Node /\ p \in Node /\ c.at # "sent"
    BY <1>0, <1>6 DEF TypeOK, Greeting, Learn
  <2>2. PICK after :
          /\ after.from = c.from /\ after.to = c.to
          /\ \A d \in calls' : d \in calls \/ d = after \/ d = NewCall(c.from, p, "schedule")
          /\ \A k, m \in Node : greet'[k][m] = Done =>
                greet[k][m] = Done \/ (k = c.from /\ m = c.to)
    BY <1>0, <1>6, <2>1, LearnEffect
  <2>3. c.from \in known'[c.to]
    BY <1>0, <2>1 DEF AnsweredKnown
  <2> QED
    BY <1>0, <1>1, <2>1, <2>2, <2>3, NewCallFields DEF AnsweredKnown, TypeOK
<1>7. ASSUME NEW c \in calls, RequestLost(c) \/ AnswerLost(c) PROVE AnsweredKnown'
  BY <1>1, <1>2, <1>7 DEF RequestLost, AnswerLost, AnsweredKnown
<1>8. CASE UNCHANGED vars
  BY <1>1, <1>2, <1>8 DEF vars, AnsweredKnown
<1> QED
  BY <1>3, <1>4, <1>5, <1>6, <1>7, <1>8 DEF Next, CallStep

\* As long as no request fails, the entry of the callee is passed on before a
\* greeting ends, so that a pending greeting never ends undone.
LEMMA StepGreets ==
    ASSUME GreetInv, [Next]_vars, faults' = 0 PROVE (CalleeLast /\ PendingGreetRuns)'
<1> USE DEF Never, Pending, Done
<1>0. TypeOK /\ NeverOwnPeer /\ \A n \in Node : known[n] \subseteq known'[n]
  BY KnownGrows DEF GreetInv, OwnInv, CallsApart, NeverOwnPeer
<1>1. faults \in Nat /\ \A c \in calls : c.from \in Node /\ c.to \in Node
  BY <1>0, BoundAssumption DEF TypeOK, Greeting
<1>2. faults = 0 /\ CalleeLast /\ PendingGreetRuns
  <2>1. faults' = faults \/ faults' = faults + 1
    BY DEF Next, CallStep, HearPing, HttpJoin, Meet, Answer, Learn, RequestLost, AnswerLost,
           vars
  <2> QED
    BY <1>1, <2>1 DEF GreetInv
<1>3. ASSUME NEW n \in Node, NEW m \in Node, HearPing(n, m) \/ HttpJoin(n, m)
      PROVE  (CalleeLast /\ PendingGreetRuns)'
  BY <1>2, <1>3, NewCallFields DEF HearPing, HttpJoin, CalleeLast, PendingGreetRuns
<1>4. ASSUME NEW c \in calls, Meet(c) PROVE (CalleeLast /\ PendingGreetRuns)'
  <2>1. PICK after :
          /\ after.from = c.from /\ after.to = c.to /\ after.by = c.by /\ after.at = "met"
          /\ \A d \in calls : d # c => d \in calls'
          /\ after \in calls'
          /\ \A d \in calls' : \/ d \in calls
                               \/ d = after
                               \/ d = NewCall(c.to, c.from, "schedule")
          /\ \A n, m \in Node : m \in known'[n] => m \in known[n] \/ (n = c.to /\ m = c.from)
          /\ \A n, m \in Node : n # c.to \/ m # c.from => greet'[n][m] = greet[n][m]
          /\ greet[c.to][c.from] # Never => greet'[c.to][c.from] = greet[c.to][c.from]
          /\ greet[c.to][c.from] = Never =>
                /\ greet'[c.to][c.from] = Pending
                /\ NewCall(c.to, c.from, "schedule") \in calls'
    BY <1>0, <1>4, MeetEffect
  <2>2. \A n, m \in Node : greet[n][m] = Done => greet'[n][m] = Done
    BY <2>1
  <2>3. CalleeLast'
    BY <1>1, <1>2, <2>1, <2>2, NewCallFields DEF CalleeLast
  <2>4. ASSUME NEW n \in Node, NEW m \in Node, greet'[n][m] = Pending
        PROVE  \E d \in calls' : d.from = n /\ d.to = m /\ d.by = "schedule"
    BY <1>2, <2>1, <2>4, NewCallFields DEF PendingGreetRuns
  <2>5. ASSUME NEW n \in Node, NEW m \in Node, m \in known'[n] PROVE greet'[n][m] # Never
    BY <1>2, <2>1, <2>5 DEF PendingGreetRuns
  <2> QED
    BY <2>3, <2>4, <2>5 DEF PendingGreetRuns
<1>5. ASSUME NEW c \in calls, Answer(c) PROVE (CalleeLast /\ PendingGreetRuns)'
  <2> DEFINE list == ButNot(c.from, known[c.to] \cup {c.to})
             after == [c EXCEPT !.at = "answered", !.peers = list]
  <2>1. /\ after.from = c.from /\ after.to = c.to /\ after.by = c.by
        /\ after.at = "answered" /\ after.peers = list
    BY <1>0, CallFields DEF TypeOK
  <2>2. c.to \in list
    BY <1>0 DEF NeverOwnPeer, ButNot
  <2>3. calls' = (calls \ {c}) \cup {after} /\ UNCHANGED <<known, greet>>
    BY <1>5 DEF Answer
  <2> HIDE DEF after, list
  <2>4. CalleeLast'
    BY <1>2, <2>1, <2>2, <2>3 DEF CalleeLast
  <2>5. PendingGreetRuns'
    BY <1>2, <2>1, <2>3 DEF PendingGreetRuns
  <2> QED
    BY <2>4, <2>5
<1>6. ASSUME NEW c \in calls, NEW p \in c.peers, Learn(c, p)
      PROVE  (CalleeLast /\ PendingGreetRuns)'
  <2>1. c.from \in Node /\ c.to \in Node /\ p \in Node /\ c.at = "answered"
    BY <1>0, <1>6 DEF TypeOK, Greeting, Learn
  <2>2. PICK after :
          /\ after.from = c.from /\ after.to = c.to /\ after.by = c.by
          /\ after.peers = c.peers \ {p}
          /\ \A d \in calls : d # c => d \in calls'
          /\ after \in calls' \/ c.peers \subseteq {p}
          /\ \A d \in calls' : \/ d \in calls
                               \/ d = after
                               \/ d = NewCall(c.from, p, "schedule")
          /\ \A n, m \in Node : m \in known'[n] => m \in known[n] \/ (n = c.from /\ m = p)
          /\ \A n, m \in Node : n # c.from \/ m # p => greet'[n][m] = greet[n][m]
          /\ p = c.to => greet'[c.from][p] = Done
          /\ p # c.to /\ greet[c.from][p] # Never => greet'[c.from][p] = greet[c.from][p]
          /\ p # c.to /\ greet[c.from][p] = Never =>
                /\ greet'[c.from][p] = Pending
                /\ NewCall(c.from, p, "schedule") \in calls'
    BY <1>0, <1>6, LearnEffect
  <2>3. \A n, m \in Node : greet[n][m] = Done => greet'[n][m] = Done
    BY <2>1, <2>2
  <2>4. CalleeLast'
    BY <1>1, <1>2, <2>1, <2>2, <2>3, NewCallFields DEF CalleeLast
  <2>5. ASSUME NEW n \in Node, NEW m \in Node, greet'[n][m] = Pending
        PROVE  \E d \in calls' : d.from = n /\ d.to = m /\ d.by = "schedule"
    <3>1. after \notin calls' => greet'[c.from][c.to] = Done
      BY <1>2, <2>1, <2>2, <2>3 DEF CalleeLast
    <3>2. CASE greet[n][m] = Pending
      BY <1>2, <2>2, <2>5, <3>1, <3>2 DEF PendingGreetRuns
    <3>3. CASE greet[n][m] # Pending
      BY <2>1, <2>2, <2>5, <3>3, NewCallFields
    <3> QED
      BY <3>2, <3>3
  <2>6. ASSUME NEW n \in Node, NEW m \in Node, m \in known'[n] PROVE greet'[n][m] # Never
    BY <1>2, <2>1, <2>2, <2>6 DEF PendingGreetRuns
  <2> QED
    BY <2>4, <2>5, <2>6 DEF PendingGreetRuns
<1>7. ASSUME NEW c \in calls, RequestLost(c) \/ AnswerLost(c)
      PROVE  (CalleeLast /\ PendingGreetRuns)'
  BY <1>1, <1>2, <1>7 DEF RequestLost, AnswerLost
<1>8. CASE UNCHANGED vars
  BY <1>2, <1>8 DEF vars, CalleeLast, PendingGreetRuns
<1> QED
  BY <1>3, <1>4, <1>5, <1>6, <1>7, <1>8 DEF Next, CallStep

LEMMA StepGreetInv == GreetInv /\ [Next]_vars => GreetInv'
<1> SUFFICES ASSUME GreetInv, [Next]_vars PROVE GreetInv'
  OBVIOUS
<1>1. OwnInv'
  BY StepOwn DEF GreetInv
<1>2. AnsweredKnown'
  BY StepAnswered DEF GreetInv
<1> QED
  BY <1>1, <1>2, StepGreets DEF GreetInv

\* PendingGreetRuns: StatePending is a promise kept as long as no request fails,
\* although nothing in the code ties the state to the goroutine.
THEOREM GreetingsRun == Spec => []PendingGreetRuns
<1>1. GreetInv => PendingGreetRuns
  BY DEF GreetInv, PendingGreetRuns
<1> QED
  BY <1>1, InitGreet, StepGreetInv, PTL DEF Spec

-----------------------------------------------------------------------------
\* Greetings that have been done.

\* GreetState is recorded in an entry of Peers.
GreetedKnown == \A n, m \in Node : greet[n][m] # Never => m \in known[n]

LEMMA StepGreeted ==
    ASSUME OwnInv, GreetedKnown, [Next]_vars PROVE GreetedKnown'
<1>0. TypeOK /\ \A n \in Node : known[n] \subseteq known'[n]
  BY KnownGrows DEF OwnInv
<1>1. ASSUME UNCHANGED greet PROVE GreetedKnown'
  BY <1>0, <1>1 DEF GreetedKnown
<1>2. ASSUME NEW c \in calls, Meet(c) PROVE GreetedKnown'
  <2>1. c.from \in Node /\ c.to \in Node
    BY <1>0 DEF TypeOK, Greeting
  <2>2. /\ \A k, m \in Node : k # c.to \/ m # c.from => greet'[k][m] = greet[k][m]
        /\ c.from \in known'[c.to]
    BY <1>0, <1>2, <2>1, MeetEffect
  <2> QED
    BY <1>0, <2>1, <2>2 DEF GreetedKnown
<1>3. ASSUME NEW c \in calls, NEW p \in c.peers, Learn(c, p) PROVE GreetedKnown'
  <2>1. c.from \in Node /\ p \in Node
    BY <1>0 DEF TypeOK, Greeting
  <2>2. /\ \A k, m \in Node : k # c.from \/ m # p => greet'[k][m] = greet[k][m]
        /\ p \in known'[c.from]
    BY <1>0, <1>3, <2>1, LearnEffect
  <2> QED
    BY <1>0, <2>1, <2>2 DEF GreetedKnown
<1> QED
  BY <1>1, <1>2, <1>3
     DEF Next, CallStep, HearPing, HttpJoin, Answer, RequestLost, AnswerLost, vars

\* DoneIsMutual: however many requests and answers are lost, GreetNode records
\* StateDone only once UpdateNode has run on both sides.
THEOREM DoneMutual == Spec => []DoneIsMutual
<1>1. Init => GreetInv /\ GreetedKnown
  <2>1. Init => GreetedKnown
    BY DEF Init, GreetedKnown
  <2> QED
    BY <2>1, InitGreet
<1>2. GreetInv /\ GreetedKnown /\ [Next]_vars => GreetInv' /\ GreetedKnown'
  BY StepGreetInv, StepGreeted DEF GreetInv
<1>3. GreetInv /\ GreetedKnown => DoneIsMutual
  BY DEF GreetInv, AnsweredKnown, GreetedKnown, DoneIsMutual, Never, Done
<1> QED
  BY <1>1, <1>2, <1>3, PTL DEF Spec

-----------------------------------------------------------------------------
\* Gossip closes.

\* z knows x, or will learn of x from m: it has not got m's answer yet, or has
\* still to pass that entry of it to UpdateNode.
Told(z, x, m) ==
    \/ x \in known[z]
    \/ /\ \A c \in calls : c.from = z /\ c.to = m /\ c.at = "answered" => x \in c.peers
       /\ greet[z][m] = Done => \E c \in calls : c.from = z /\ c.to = m

\* Of two peers of one node, the one that came later hears of the other.
PeersTold ==
    \A m \in Node : \A n, p \in known[m] : n # p => Told(n, p, m) \/ Told(p, n, m)

\* What z was to hear from m about a peer of m, it is still to hear or knows.
LEMMA ToldStays ==
    ASSUME GreetInv, [Next]_vars, faults' = 0,
           NEW z \in Node, NEW m \in Node, NEW x \in Node, x # z, x \in known[m],
           z # m, Told(z, x, m)
    PROVE  Told(z, x, m)'
<1> USE DEF Never, Pending, Done
<1>0. TypeOK /\ known[z] \subseteq known'[z]
  BY KnownGrows DEF GreetInv, OwnInv
<1>1. faults \in Nat /\ \A c \in calls : c.from \in Node /\ c.to \in Node
  BY <1>0, BoundAssumption DEF TypeOK, Greeting
<1>2. CASE x \in known[z]
  BY <1>0, <1>2 DEF Told
<1>3. CASE x \notin known[z]
  <2>0. /\ \A c \in calls : c.from = z /\ c.to = m /\ c.at = "answered" => x \in c.peers
        /\ greet[z][m] = Done => \E c \in calls : c.from = z /\ c.to = m
    BY <1>3 DEF Told
  <2>1. ASSUME NEW k \in Node, NEW j \in Node, HearPing(k, j) \/ HttpJoin(k, j)
        PROVE  Told(z, x, m)'
    BY <2>0, <2>1, NewCallFields DEF HearPing, HttpJoin, Told
  <2>2. ASSUME NEW c \in calls, Meet(c) PROVE Told(z, x, m)'
    <3>1. PICK after :
            /\ after.from = c.from /\ after.to = c.to /\ after.at = "met"
            /\ \A d \in calls : d # c => d \in calls'
            /\ after \in calls'
            /\ \A d \in calls' : \/ d \in calls
                                 \/ d = after
                                 \/ d = NewCall(c.to, c.from, "schedule")
            /\ \A k, j \in Node : greet'[k][j] = Done => greet[k][j] = Done
      <4>1. c.from \in Node /\ c.to \in Node
        BY <1>1
      <4> QED
        BY <1>0, <2>2, <4>1, MeetEffect
    <3> QED
      BY <2>0, <3>1, NewCallFields DEF Told
  <2>3. ASSUME NEW c \in calls, Answer(c) PROVE Told(z, x, m)'
    <3> DEFINE list == ButNot(c.from, known[c.to] \cup {c.to})
               after == [c EXCEPT !.at = "answered", !.peers = list]
    <3>1. /\ after.from = c.from /\ after.to = c.to
          /\ after.at = "answered" /\ after.peers = list
      BY <1>0, CallFields DEF TypeOK
    <3>2. c.from = z /\ c.to = m => x \in list
      BY DEF ButNot
    <3>3. calls' = (calls \ {c}) \cup {after} /\ UNCHANGED <<known, greet>>
      BY <2>3 DEF Answer
    <3> HIDE DEF after, list
    <3> QED
      BY <2>0, <3>1, <3>2, <3>3 DEF Told
  <2>4. ASSUME NEW c \in calls, NEW p \in c.peers, Learn(c, p) PROVE Told(z, x, m)'
    <3>1. c.from \in Node /\ c.to \in Node /\ p \in Node /\ c.at = "answered"
      BY <1>0, <2>4 DEF TypeOK, Greeting, Learn
    <3>2. PICK after :
            /\ after.from = c.from /\ after.to = c.to
            /\ after.peers = c.peers \ {p}
            /\ \A d \in calls : d # c => d \in calls'
            /\ after \in calls' \/ c.peers \subseteq {p}
            /\ \A d \in calls' : \/ d \in calls
                                 \/ d = after
                                 \/ d = NewCall(c.from, p, "schedule")
            /\ p \in known'[c.from]
            /\ \A k, j \in Node : greet'[k][j] = Done =>
                  greet[k][j] = Done \/ (k = c.from /\ j = c.to)
      BY <1>0, <2>4, <3>1, LearnEffect
    <3>3. CASE c.from = z /\ c.to = m /\ p = x
      BY <3>2, <3>3 DEF Told
    <3>4. CASE c.from = z /\ c.to = m /\ p # x
      BY <2>0, <3>1, <3>2, <3>4, NewCallFields DEF Told
    <3>5. CASE c.from # z \/ c.to # m
      BY <2>0, <3>1, <3>2, <3>5, NewCallFields DEF Told
    <3> QED
      BY <3>3, <3>4, <3>5
  <2>5. ASSUME NEW c \in calls, RequestLost(c) \/ AnswerLost(c) PROVE Told(z, x, m)'
    BY <1>1, <2>5 DEF RequestLost, AnswerLost
  <2>6. CASE UNCHANGED vars
    BY <2>0, <2>6 DEF vars, Told
  <2> QED
    BY <2>1, <2>2, <2>3, <2>4, <2>5, <2>6 DEF Next, CallStep
<1> QED
  BY <1>2, <1>3

\* A new peer p of m has not got an answer of m yet.
LEMMA ToldFirst ==
    ASSUME GreetInv, [Next]_vars, NEW m \in Node, NEW p \in Node, p # m,
           p \in known'[m], p \notin known[m], NEW n
    PROVE  Told(p, n, m)'
<1> USE DEF Never, Pending, Done
<1>0. TypeOK /\ \A c \in calls : c.from \in Node /\ c.to \in Node
  BY DEF GreetInv, OwnInv, TypeOK, Greeting
<1>1. (\A c \in calls : c.from = p /\ c.to = m => c.at = "sent") /\ greet[p][m] # Done
  BY DEF GreetInv, AnsweredKnown
<1>2. ASSUME NEW c \in calls, Meet(c) PROVE Told(p, n, m)'
  <2>1. c.from \in Node /\ c.to \in Node
    BY <1>0
  <2>2. PICK after :
          /\ after.at = "met"
          /\ \A d \in calls' : \/ d \in calls
                               \/ d = after
                               \/ d = NewCall(c.to, c.from, "schedule")
          /\ \A k, j \in Node : greet'[k][j] = Done => greet[k][j] = Done
    BY <1>0, <1>2, <2>1, MeetEffect
  <2> QED
    BY <1>1, <2>2, NewCallFields DEF Told
<1>3. ASSUME NEW c \in calls, NEW q \in c.peers, Learn(c, q) PROVE Told(p, n, m)'
  <2>1. c.from \in Node /\ c.to \in Node /\ q \in Node
    BY <1>0, <1>3 DEF TypeOK, Greeting
  <2>2. PICK after :
          /\ after.from = c.from
          /\ \A d \in calls' : \/ d \in calls
                               \/ d = after
                               \/ d = NewCall(c.from, q, "schedule")
          /\ \A k, j \in Node : j \in known'[k] => j \in known[k] \/ (k = c.from /\ j = q)
          /\ \A k, j \in Node : k # c.from \/ j # q => greet'[k][j] = greet[k][j]
    BY <1>0, <1>3, <2>1, LearnEffect
  <2>3. c.from = m
    BY <2>2
  <2> QED
    BY <1>1, <2>2, <2>3, NewCallFields DEF Told
<1> QED
  BY <1>2, <1>3 DEF Next, CallStep, HearPing, HttpJoin, Answer, RequestLost, AnswerLost, vars

GossipInv == GreetInv /\ (faults = 0 => PeersTold)

LEMMA StepGossip == GossipInv /\ [Next]_vars => GossipInv'
<1> SUFFICES ASSUME GossipInv, [Next]_vars, faults' = 0 PROVE PeersTold'
  BY StepGreetInv DEF GossipInv
<1>1. GreetInv /\ GreetInv' /\ PeersTold
  <2>1. faults' = faults \/ faults' = faults + 1
    BY DEF Next, CallStep, HearPing, HttpJoin, Meet, Answer, Learn, RequestLost, AnswerLost,
           vars
  <2>2. faults \in Nat
    BY BoundAssumption DEF GossipInv, GreetInv, OwnInv, TypeOK
  <2> QED
    BY <2>1, <2>2, StepGreetInv DEF GossipInv
<1> SUFFICES ASSUME NEW m \in Node, NEW n \in known'[m], NEW p \in known'[m], n # p
             PROVE  Told(n, p, m)' \/ Told(p, n, m)'
  BY DEF PeersTold
<1>2. n \in Node /\ p \in Node /\ n # m /\ p # m
  BY <1>1 DEF GreetInv, OwnInv, TypeOK
<1>3. CASE n \in known[m] /\ p \in known[m]
  <2>1. Told(n, p, m) \/ Told(p, n, m)
    BY <1>1, <1>3 DEF PeersTold
  <2> QED
    BY <1>1, <1>2, <1>3, <2>1, ToldStays
<1>4. CASE n \notin known[m]
  BY <1>1, <1>2, <1>4, ToldFirst
<1>5. CASE p \notin known[m]
  BY <1>1, <1>2, <1>5, ToldFirst
<1> QED
  BY <1>3, <1>4, <1>5

\* GossipCloses: if no request has failed, the greetings that UpdateNode starts
\* leave no pair of peers of a node unacquainted once they are over, in whatever
\* order the requests, the answers and the entries of the answers are handled.
THEOREM GossipComplete == Spec => []GossipCloses
<1> USE DEF Never, Pending, Done
<1>1. Init => GossipInv
  <2>1. Init => PeersTold
    BY DEF Init, PeersTold
  <2> QED
    BY <2>1, InitGreet DEF GossipInv
<1>2. GossipInv => GossipCloses
  <2> SUFFICES ASSUME GossipInv, calls = {}, faults = 0, NEW n \in Node, NEW m \in known[n]
               PROVE  n \in known[m] /\ known[m] \ {n} \subseteq known[n]
    BY DEF GossipCloses
  <2>1. ASSUME NEW k \in Node, NEW j \in known[k]
        PROVE  j \in Node /\ greet[k][j] = Done /\ k \in known[j]
    <3>1. j \in Node /\ greet[k][j] \in States
      BY DEF GossipInv, GreetInv, OwnInv, TypeOK
    <3>2. greet[k][j] = Done
      BY <3>1 DEF GossipInv, GreetInv, PendingGreetRuns, States
    <3> QED
      BY <3>1, <3>2 DEF GossipInv, GreetInv, AnsweredKnown
  <2>2. ASSUME NEW p \in known[m], p # n PROVE p \in known[n]
    <3>1. m \in Node /\ p \in Node /\ n \in known[m] /\ greet[n][m] = Done /\ greet[p][m] = Done
      BY <2>1, <2>2
    <3>2. Told(n, p, m) \/ Told(p, n, m)
      BY <2>2, <3>1 DEF GossipInv, PeersTold
    <3>3. p \in known[n] \/ n \in known[p]
      BY <3>1, <3>2 DEF Told
    <3> QED
      BY <2>1, <3>1, <3>3
  <2> QED
    BY <2>1, <2>2
<1> QED
  BY <1>1, <1>2, StepGossip, PTL DEF Spec
-----------------------------------------------------------------------------
\* Why ScheduleGreet never runs two greetings of one peer: it starts one only
\* for a peer whose GreetState is StateNever, and that state does not return.

Scheduled(n, m, cs) == {c \in cs : c.from = n /\ c.to = m /\ c.by = "schedule"}

ScheduledOnce ==
    \A c, d \in calls : /\ c.by = "schedule" /\ d.by = "schedule"
                        /\ c.from = d.from /\ c.to = d.to
                        => c = d

ScheduledMarked == \A c \in calls : c.by = "schedule" => greet[c.from][c.to] # Never

\* No greeting is scheduled for a peer whose GreetState has left StateNever.
NoneAnew ==
    \A d \in calls' : d.by = "schedule" /\ greet[d.from][d.to] # Never =>
        \E c \in calls : c.by = "schedule" /\ c.from = d.from /\ c.to = d.to

\* A step in which call c ends or goes on as "after", and ScheduleGreet starts
\* one for a peer that had none.
LEMMA ScheduleStep ==
    ASSUME ScheduledOnce, ScheduledMarked, NEW c \in calls, NEW after, NEW fresh,
           after.from = c.from /\ after.to = c.to /\ after.by = c.by,
           \A d \in calls' : \/ d \in calls /\ d # c
                             \/ d = after
                             \/ /\ d = fresh /\ greet[fresh.from][fresh.to] = Never
                                /\ greet'[fresh.from][fresh.to] # Never,
           \A d \in calls : greet[d.from][d.to] # Never => greet'[d.from][d.to] # Never
    PROVE  ScheduledOnce' /\ ScheduledMarked' /\ NoneAnew
<1>1. \A d \in calls' : d.by = "schedule" =>
          \/ greet[d.from][d.to] = Never /\ greet'[d.from][d.to] # Never /\ d = fresh
          \/ /\ \E e \in calls : e.by = "schedule" /\ e.from = d.from /\ e.to = d.to
             /\ greet[d.from][d.to] # Never /\ greet'[d.from][d.to] # Never
             /\ (d \in calls /\ d # c) \/ d = after
  BY DEF ScheduledMarked
<1>2. ScheduledMarked' /\ NoneAnew
  BY <1>1 DEF ScheduledMarked, NoneAnew
<1>3. ASSUME NEW d \in calls', NEW e \in calls', d.by = "schedule", e.by = "schedule",
             d.from = e.from, d.to = e.to
      PROVE  d = e
  BY <1>1, <1>3 DEF ScheduledOnce
<1> QED
  BY <1>2, <1>3 DEF ScheduledOnce

\* What UpdateNode starts besides the calls that go on.
LEMMA UpdateSchedules ==
    ASSUME TypeOK, NEW n \in Node, NEW p \in Node, NEW answered \in BOOLEAN, NEW others,
           UpdateNode(n, p, answered, others)
    PROVE  /\ \A d \in calls' : \/ d \in others
                                \/ /\ d = NewCall(n, p, "schedule")
                                   /\ greet[n][p] = Never /\ greet'[n][p] # Never
           /\ \A k, m \in Node : greet[k][m] # Never => greet'[k][m] # Never
<1>1. /\ greet' = [greet EXCEPT ![n][p] =
              IF answered THEN Done ELSE IF @ = Never THEN Pending ELSE @]
      /\ calls' = others \cup IF ~answered /\ greet[n][p] = Never
                              THEN {NewCall(n, p, "schedule")} ELSE {}
      /\ greet \in [Node -> [Node -> States]]
      /\ Done # Never /\ Pending # Never
  BY DEF UpdateNode, TypeOK, Done, Never, Pending
<1>2. \A k, m \in Node : greet[k][m] # Never => greet'[k][m] # Never
  BY <1>1
<1>3. ~answered /\ greet[n][p] = Never => greet'[n][p] # Never
  BY <1>1
<1> QED
  BY <1>1, <1>2, <1>3

LEMMA StepScheduled ==
    ASSUME TypeOK, ScheduledOnce, ScheduledMarked, [Next]_vars
    PROVE  ScheduledOnce' /\ ScheduledMarked' /\ NoneAnew
<1>0. calls \subseteq Greeting /\ \A d \in calls : d.from \in Node /\ d.to \in Node
  BY DEF TypeOK, Greeting
<1>1. ASSUME \A d \in calls' : d \in calls \/ d.by # "schedule", greet' = greet
      PROVE  ScheduledOnce' /\ ScheduledMarked' /\ NoneAnew
  BY <1>1 DEF ScheduledOnce, ScheduledMarked, NoneAnew
<1>2. ASSUME NEW n \in Node, NEW m \in Node, HearPing(n, m) \/ HttpJoin(n, m)
      PROVE  ScheduledOnce' /\ ScheduledMarked' /\ NoneAnew
  <2>1. \A d \in calls' : d \in calls \/ d.by # "schedule"
    BY <1>2, NewCallFields DEF HearPing, HttpJoin
  <2>2. greet' = greet
    BY <1>2 DEF HearPing, HttpJoin
  <2> QED
    BY <1>1, <2>1, <2>2
<1>3. ASSUME NEW c \in calls, Meet(c)
      PROVE  ScheduledOnce' /\ ScheduledMarked' /\ NoneAnew
  <2> DEFINE after == [c EXCEPT !.at = "met"]
             fresh == NewCall(c.to, c.from, "schedule")
             others == (calls \ {c}) \cup {after}
  <2>1. after.from = c.from /\ after.to = c.to /\ after.by = c.by
    BY <1>0, CallFields
  <2>2. fresh.from = c.to /\ fresh.to = c.from
    BY NewCallFields
  <2>3. UpdateNode(c.to, c.from, FALSE, others)
    BY <1>3 DEF Meet
  <2>4. \A d \in others : (d \in calls /\ d # c) \/ d = after
    OBVIOUS
  <2> HIDE DEF after, others
  <2>5. /\ \A d \in calls' : \/ d \in others
                             \/ /\ d = fresh
                                /\ greet[c.to][c.from] = Never /\ greet'[c.to][c.from] # Never
        /\ \A k, m \in Node : greet[k][m] # Never => greet'[k][m] # Never
    BY <1>0, <2>3, UpdateSchedules
  <2> HIDE DEF fresh
  <2> QED
    BY <1>0, <2>1, <2>2, <2>4, <2>5, ScheduleStep
<1>4. ASSUME NEW c \in calls, Answer(c)
      PROVE  ScheduledOnce' /\ ScheduledMarked' /\ NoneAnew
  <2> DEFINE after == [c EXCEPT !.at = "answered",
                                !.peers = ButNot(c.from, known[c.to] \cup {c.to})]
  <2>1. after.from = c.from /\ after.to = c.to /\ after.by = c.by
    BY <1>0, CallFields
  <2>2. \A d \in calls' : (d \in calls /\ d # c) \/ d = after
    BY <1>4 DEF Answer
  <2>3. greet' = greet
    BY <1>4 DEF Answer
  <2> HIDE DEF after
  <2> QED
    BY <2>1, <2>2, <2>3, ScheduleStep
<1>5. ASSUME NEW c \in calls, NEW p \in c.peers, Learn(c, p)
      PROVE  ScheduledOnce' /\ ScheduledMarked' /\ NoneAnew
  <2> DEFINE after == [c EXCEPT !.peers = c.peers \ {p}]
             fresh == NewCall(c.from, p, "schedule")
             others == (calls \ {c}) \cup Continue(c, c.peers \ {p})
  <2>1. after.from = c.from /\ after.to = c.to /\ after.by = c.by
    BY <1>0, CallFields
  <2>2. fresh.from = c.from /\ fresh.to = p
    BY NewCallFields
  <2>3. UpdateNode(c.from, p, p = c.to, others)
    BY <1>5 DEF Learn
  <2>4. \A d \in others : (d \in calls /\ d # c) \/ d = after
    BY DEF Continue
  <2>5. p \in Node /\ (p = c.to) \in BOOLEAN
    BY <1>0 DEF Greeting
  <2> HIDE DEF after, others
  <2>6. /\ \A d \in calls' : \/ d \in others
                             \/ /\ d = fresh
                                /\ greet[c.from][p] = Never /\ greet'[c.from][p] # Never
        /\ \A k, m \in Node : greet[k][m] # Never => greet'[k][m] # Never
    BY <1>0, <2>3, <2>5, UpdateSchedules
  <2> HIDE DEF fresh
  <2> QED
    BY <1>0, <2>1, <2>2, <2>4, <2>6, ScheduleStep
<1>6. ASSUME NEW c \in calls, RequestLost(c) \/ AnswerLost(c)
      PROVE  ScheduledOnce' /\ ScheduledMarked' /\ NoneAnew
  <2>1. (\A d \in calls' : d \in calls \/ d.by # "schedule") /\ greet' = greet
    BY <1>6 DEF RequestLost, AnswerLost
  <2> QED
    BY <1>1, <2>1
<1>7. CASE UNCHANGED vars
  BY <1>1, <1>7 DEF vars
<1> QED
  BY <1>2, <1>3, <1>4, <1>5, <1>6, <1>7 DEF Next, CallStep

LEMMA OneAtMost ==
    ASSUME NEW cs, NEW n, NEW m,
           \A c, d \in cs : /\ c.by = "schedule" /\ d.by = "schedule"
                            /\ c.from = d.from /\ c.to = d.to
                            => c = d
    PROVE  \/ Scheduled(n, m, cs) = {} /\ Cardinality(Scheduled(n, m, cs)) = 0
           \/ Scheduled(n, m, cs) # {} /\ Cardinality(Scheduled(n, m, cs)) = 1
<1>1. CASE Scheduled(n, m, cs) = {}
  BY <1>1, FS_EmptySet
<1>2. CASE Scheduled(n, m, cs) # {}
  <2>1. PICK c : c \in Scheduled(n, m, cs)
    BY <1>2
  <2>2. Scheduled(n, m, cs) = {c}
    BY <2>1 DEF Scheduled
  <2> QED
    BY <1>2, <2>2, FS_Singleton
<1> QED
  BY <1>1, <1>2

\* GreetState keeps ScheduleGreet from greeting a peer twice, for any number of
\* nodes, answers that mention it and failures.
THEOREM ScheduledAtMostOnce == Spec => OneScheduledGreeting
<1> DEFINE J == TypeOK /\ ScheduledOnce /\ ScheduledMarked
           Once == \A n, m \in Node :
               LET scheduled == {c \in calls : c.from = n /\ c.to = m /\ c.by = "schedule"}
               IN /\ Cardinality(scheduled) =< 1
                  /\ greet[n][m] # Never => Cardinality(scheduled') =< Cardinality(scheduled)
<1>1. Init => J
  BY InitType DEF Init, ScheduledOnce, ScheduledMarked
<1>2. J /\ [Next]_vars => J'
  BY StepType, StepScheduled
<1>3. J /\ J' /\ [Next]_vars => [Once]_vars
  <2> SUFFICES ASSUME J, J', [Next]_vars, NEW n \in Node, NEW m \in Node
               PROVE  /\ Cardinality(Scheduled(n, m, calls)) =< 1
                      /\ greet[n][m] # Never =>
                            Cardinality(Scheduled(n, m, calls'))
                                =< Cardinality(Scheduled(n, m, calls))
    BY DEF Scheduled
  <2>1. NoneAnew
    BY StepScheduled
  <2>2. /\ \/ Scheduled(n, m, calls) = {} /\ Cardinality(Scheduled(n, m, calls)) = 0
           \/ Scheduled(n, m, calls) # {} /\ Cardinality(Scheduled(n, m, calls)) = 1
        /\ \/ Scheduled(n, m, calls') = {} /\ Cardinality(Scheduled(n, m, calls')) = 0
           \/ Scheduled(n, m, calls') # {} /\ Cardinality(Scheduled(n, m, calls')) = 1
    BY OneAtMost DEF ScheduledOnce
  <2>3. greet[n][m] # Never /\ Scheduled(n, m, calls') # {} => Scheduled(n, m, calls) # {}
    BY <2>1 DEF NoneAnew, Scheduled
  <2> QED
    BY <2>2, <2>3
<1> QED
  BY <1>1, <1>2, <1>3, PTL DEF Spec, OneScheduledGreeting
=============================================================================
