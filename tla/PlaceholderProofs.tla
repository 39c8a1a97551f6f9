------------------------- MODULE PlaceholderProofs --------------------------
(***************************************************************************)
(* Why update() leaves no half-made TreeNode behind in FatTree, for any    *)
(* tree of paths, any lists and any number of concurrent calls, although   *)
(* recalculateOwner may put the placeholder's missing owner back into a    *)
(* directory whose children are placeholders themselves.                   *)
(***************************************************************************)
EXTENDS LastWriterProofs

ChildOf(q, n) == q \in Path /\ Len(q) = Len(n) + 1 /\ SubSeq(q, 1, Len(n)) = n

LEMMA OneParent ==
    ASSUME NEW q, NEW n \in Place, NEW m \in Place, ChildOf(q, n), ChildOf(q, m)
    PROVE  n = m
<1>1. Len(n) \in Nat /\ Len(m) \in Nat
  BY PlaceIsSeq
<1> QED
  BY <1>1 DEF ChildOf

LEMMA RootNoPath == Root \notin Path
BY PathAssumption, EmptySeq DEF Root

-----------------------------------------------------------------------------
\* The frames of one call: each update() was entered from the entry of the one
\* below it, down to the one on the root.

EnteredFrom(f, g) == g.entry = f.node /\ ~g.missed /\ ChildOf(f.node, g.node)

Chained(s) ==
    \A i \in 1..Len(s) : IF i = Len(s) THEN s[i].node = Root ELSE EnteredFrom(s[i], s[i + 1])

NodesOf(s) == {s[i].node : i \in 1..Len(s)}

\* What links a frame to the frames below it.
Linked(f, s) == IF s = <<>> THEN f.node = Root ELSE EnteredFrom(f, Head(s))

LEMMA Cons ==
    ASSUME NEW f \in Frame, NEW s \in Seq(Frame)
    PROVE  /\ <<f>> \o s \in Seq(Frame) /\ Len(<<f>> \o s) = Len(s) + 1 /\ Len(s) \in Nat
           /\ \A i \in 1..Len(s) + 1 : (<<f>> \o s)[i] = IF i = 1 THEN f ELSE s[i - 1]
           /\ <<f>> \o s # <<>> /\ Head(<<f>> \o s) = f /\ Tail(<<f>> \o s) = s
<1>1. /\ <<f>> \in Seq(Frame) /\ Len(<<f>>) = 1 /\ <<f>>[1] = f /\ Len(s) \in Nat
  BY LenProperties
<1>2. /\ <<f>> \o s \in Seq(Frame) /\ Len(<<f>> \o s) = 1 + Len(s)
      /\ \A i \in 1..1 + Len(s) : (<<f>> \o s)[i] = IF i =< 1 THEN <<f>>[i] ELSE s[i - 1]
  BY <1>1, ConcatProperties
<1>3. <<f>> \o s # <<>> /\ Head(<<f>> \o s) = f /\ Tail(<<f>> \o s) = s
  BY <1>1
<1> QED
  BY <1>1, <1>2, <1>3

LEMMA ConsTwice ==
    ASSUME NEW e \in Frame, NEW g \in Frame, NEW s \in Seq(Frame)
    PROVE  <<e, g>> \o s = <<e>> \o (<<g>> \o s)
<1>1. <<e>> \in Seq(Frame) /\ <<g>> \in Seq(Frame)
  OBVIOUS
<1>2. <<e>> \o <<g>> = <<e, g>>
  <2> DEFINE t == <<e>> \o <<g>>
             u == <<e, g>>
  <2>1. Len(<<e>>) = 1 /\ Len(<<g>>) = 1 /\ <<e>>[1] = e /\ <<g>>[1] = g
    OBVIOUS
  <2>2. t \in Seq(Frame) /\ Len(t) = 2 /\ t[1] = e /\ t[2] = g
    BY <1>1, <2>1, ConcatProperties
  <2>3. u \in Seq(Frame) /\ Len(u) = 2 /\ u[1] = e /\ u[2] = g
    OBVIOUS
  <2> HIDE DEF t, u
  <2>4. \A i \in 1..Len(t) : t[i] = u[i]
    BY <2>2, <2>3
  <2>5. t = u
    BY <2>2, <2>3, <2>4, SeqEqual
  <2> QED
    BY <2>5 DEF t, u
<1>3. (<<e>> \o <<g>>) \o s = <<e>> \o (<<g>> \o s)
  BY <1>1, ConcatAssociative
<1> QED
  BY <1>2, <1>3

LEMMA NodesOfCons ==
    ASSUME NEW f \in Frame, NEW s \in Seq(Frame)
    PROVE  NodesOf(<<f>> \o s) = {f.node} \cup NodesOf(s)
<1> DEFINE t == <<f>> \o s
<1>1. /\ Len(t) = Len(s) + 1 /\ Len(s) \in Nat
      /\ \A i \in 1..Len(s) + 1 : t[i] = IF i = 1 THEN f ELSE s[i - 1]
  BY Cons
<1> HIDE DEF t
<1>3. ASSUME NEW i \in 1..Len(t) PROVE t[i].node \in {f.node} \cup NodesOf(s)
  <2>1. CASE i = 1
    BY <1>1, <2>1
  <2>2. CASE i # 1
    <3>1. i - 1 \in 1..Len(s) /\ t[i] = s[i - 1]
      BY <1>1, <2>2
    <3> QED
      BY <3>1 DEF NodesOf
  <2> QED
    BY <2>1, <2>2
<1>4. f.node \in NodesOf(t)
  <2>1. 1 \in 1..Len(t) /\ t[1] = f
    BY <1>1
  <2> QED
    BY <2>1 DEF NodesOf
<1>5. ASSUME NEW i \in 1..Len(s) PROVE s[i].node \in NodesOf(t)
  <2>1. i + 1 \in 1..Len(t) /\ t[i + 1] = s[i]
    BY <1>1
  <2> QED
    BY <2>1 DEF NodesOf
<1> QED
  BY <1>3, <1>4, <1>5 DEF NodesOf, t

LEMMA NodesOfTop ==
    ASSUME NEW s \in Seq(Frame), s # <<>>
    PROVE  NodesOf(s) = {Head(s).node} \cup NodesOf(Tail(s))
<1>1. Head(s) \in Frame /\ Tail(s) \in Seq(Frame) /\ <<Head(s)>> \o Tail(s) = s
  BY HeadTailProperties
<1> QED
  BY <1>1, NodesOfCons

LEMMA NodesOfNone == NodesOf(<<>>) = {}
BY EmptySeq DEF NodesOf

LEMMA ConsChained ==
    ASSUME NEW f \in Frame, NEW s \in Seq(Frame), Chained(s), Linked(f, s)
    PROVE  Chained(<<f>> \o s)
<1> DEFINE t == <<f>> \o s
<1>1. /\ Len(t) = Len(s) + 1 /\ Len(s) \in Nat
      /\ \A i \in 1..Len(s) + 1 : t[i] = IF i = 1 THEN f ELSE s[i - 1]
  BY Cons
<1>2. s = <<>> <=> Len(s) = 0
  BY EmptySeq
<1>3. s # <<>> => Head(s) = s[1]
  OBVIOUS
<1> HIDE DEF t
<1>4. ASSUME NEW i \in 1..Len(t)
      PROVE  IF i = Len(t) THEN t[i].node = Root ELSE EnteredFrom(t[i], t[i + 1])
  <2>1. CASE i = 1 /\ s = <<>>
    BY <1>1, <1>2, <2>1 DEF Linked
  <2>2. CASE i = 1 /\ s # <<>>
    <3>1. i # Len(t) /\ t[i] = f /\ t[i + 1] = s[1]
      BY <1>1, <1>2, <2>2
    <3> QED
      BY <1>3, <2>2, <3>1 DEF Linked
  <2>3. CASE i # 1
    <3>1. i - 1 \in 1..Len(s) /\ t[i] = s[i - 1] /\ (i = Len(t) <=> i - 1 = Len(s))
      BY <1>1, <2>3
    <3>2. i # Len(t) => t[i + 1] = s[(i - 1) + 1]
      BY <1>1, <2>3
    <3> QED
      BY <3>1, <3>2 DEF Chained
  <2> QED
    BY <2>1, <2>2, <2>3
<1> QED
  BY <1>4 DEF Chained, t

LEMMA TailChained ==
    ASSUME NEW s \in Seq(Frame), s # <<>>, Chained(s)
    PROVE  Chained(Tail(s)) /\ Linked(Head(s), Tail(s))
<1> DEFINE t == Tail(s)
<1>1. /\ Head(s) = s[1] /\ 1 \in 1..Len(s) /\ Len(s) \in Nat
      /\ t \in Seq(Frame) /\ Len(t) = Len(s) - 1
      /\ \A i \in 1..Len(t) : t[i] = s[i + 1]
  BY HeadTailProperties, EmptySeq
<1> HIDE DEF t
<1>2. (t = <<>> <=> Len(t) = 0) /\ (t # <<>> => Head(t) = t[1])
  BY <1>1, EmptySeq
<1>3. Linked(Head(s), t)
  <2>1. CASE t = <<>>
    BY <1>1, <1>2, <2>1 DEF Chained, Linked
  <2>2. CASE t # <<>>
    <3>1. 1 # Len(s) /\ 1 \in 1..Len(t) /\ t[1] = s[1 + 1]
      BY <1>1, <1>2, <2>2
    <3> QED
      BY <1>1, <1>2, <2>2, <3>1 DEF Chained, Linked
  <2> QED
    BY <2>1, <2>2
<1>4. ASSUME NEW i \in 1..Len(t)
      PROVE  IF i = Len(t) THEN t[i].node = Root ELSE EnteredFrom(t[i], t[i + 1])
  <2>1. i + 1 \in 1..Len(s) /\ t[i] = s[i + 1] /\ (i = Len(t) <=> i + 1 = Len(s))
    BY <1>1
  <2>2. i # Len(t) => t[i + 1] = s[(i + 1) + 1]
    BY <1>1
  <2> QED
    BY <2>1, <2>2 DEF Chained
<1> QED
  BY <1>3, <1>4 DEF Chained, t

\* Below a frame on p there is one that has p in hand.
LEMMA EntryBelow ==
    ASSUME NEW s \in Seq(Frame), Chained(s), NEW p \in NodesOf(s), p # Root
    PROVE  \E i \in 1..Len(s) : i > 1 /\ s[i].entry = p /\ ChildOf(p, s[i].node)
<1>1. PICK k \in 1..Len(s) : s[k].node = p
  BY DEF NodesOf
<1>2. k # Len(s) /\ k + 1 \in 1..Len(s) /\ k + 1 > 1
  BY <1>1, LenProperties DEF Chained
<1>3. s[k + 1].entry = p /\ ChildOf(p, s[k + 1].node)
  BY <1>1, <1>2 DEF Chained, EnteredFrom
<1> QED
  BY <1>2, <1>3

-----------------------------------------------------------------------------
\* Why a placeholder is always in somebody's hands.

\* Call c runs update() on p, or on something below it.
Inside(c, p) == p \in NodesOf(stack[c])

ChainsOK == \A c \in Call : Chained(stack[c])

\* The caller of recalculateOwner is the frame that has the directory in hand.
RecalcsBelong ==
    \A c \in Call : recalc[c].dir # Root =>
        stack[c] # <<>> /\ Top(c).entry = recalc[c].dir /\ ChildOf(recalc[c].dir, Top(c).node)

\* A frame below the root has or had something to do, and then its entry is in
\* the tree or about to be.
Opened(N, f) ==
    /\ f.missed => f.group # <<>>
    /\ \/ f.node = Root \/ f.todo # <<>>
       \/ ChildOf(f.entry, f.node) /\ (f.missed \/ f.entry \in N)

TopsOpen == \A c \in Call : stack[c] # <<>> => Opened(nodes, Top(c))

\* recalculateOwner has children to read; if those it has read had no owner, a
\* call is still busy below the directory, and cannot leave before the unlock.
RecalcsOpen ==
    \A c \in Call : LET q == recalc[c].dir IN q # Root =>
        /\ ChildrenOf(q) # {}
        /\ recalc[c].owner = NoOwner /\ recalc[c].unread # ChildrenOf(q) =>
              \E d \in Call : Inside(d, q)
        /\ recalc[c].unread \subseteq ChildrenOf(q)

\* An entry without an owner is a directory once update() has gone into it.
DirsInside ==
    \A c \in Call : \A p \in nodes :
        Inside(c, p) /\ stat[p].owner = NoOwner => stat[p].dir

\* The frame f will go into p, or give it an owner.
Tends(f, p, S) ==
    f.entry = p /\ (f.nested # <<>> \/ (f.group # <<>> /\ S[p].stamp = 0))

Tended(p) ==
    \E c \in Call : \/ Inside(c, p)
                    \/ recalc[c].dir = p
                    \/ stack[c] # <<>> /\ Tends(Top(c), p, stat)

AllTended == \A p \in nodes : stat[p].owner = NoOwner => Tended(p)

\* A call that has been given nothing is nowhere.
Idle == \A c \in Call : files[c] = <<>> =>
            recalc[c] = NotRecalculating /\ stack[c] \in {<<>>, <<NewFrame(Root, <<>>)>>}

HoldInv == /\ FedInv
           /\ ChainsOK /\ RecalcsBelong /\ TopsOpen /\ RecalcsOpen
           /\ DirsInside /\ AllTended /\ Idle

-----------------------------------------------------------------------------
\* What each step does to the frames.

\* The innermost frame of c goes on as g, with what it had to do still to do.
GoesOn(c, g) ==
    /\ stack'[c] = <<g>> \o Tail(stack[c]) /\ g.node = Top(c).node
    /\ Opened(nodes, Top(c)) =>
          Opened(nodes', g) /\ \A p \in nodes' \ nodes : Tends(g, p, stat')
    /\ \A p \in Path :
          Tends(Top(c), p, stat) /\ stat'[p].owner = NoOwner => Tends(g, p, stat')

LEMMA FrameOf ==
    ASSUME FedInv, NEW c \in Call, stack[c] # <<>>
    PROVE  /\ Top(c) \in Frame /\ FrameOK(Top(c)) /\ Present(nodes, Top(c))
           /\ Top(c).todo \in Seq(Announcement) /\ Top(c).group \in Seq(Announcement)
           /\ Top(c).nested \in Seq(Announcement) /\ Top(c).node \in Place
           /\ stack[c] \in Seq(Frame) /\ Tail(stack[c]) \in Seq(Frame)
           /\ stack[c] = <<Top(c)>> \o Tail(stack[c])
<1>1. stack[c] \in Seq(Frame) /\ LockInv /\ Inv
  BY DEF FedInv, LockInv, Inv, TypeOK
<1>2. Top(c) \in Frame /\ FrameOK(Top(c)) /\ Present(nodes, Top(c))
  BY <1>1, TopFrame, TopPresent
<1>3. /\ Top(c).todo \in Seq(Announcement) /\ Top(c).group \in Seq(Announcement)
      /\ Top(c).nested \in Seq(Announcement) /\ Top(c).node \in Place
  BY <1>2 DEF Frame, Place
<1>4. Tail(stack[c]) \in Seq(Frame) /\ stack[c] = <<Top(c)>> \o Tail(stack[c])
  BY <1>1, HeadTailProperties DEF Top
<1> QED
  BY <1>1, <1>2, <1>3, <1>4

LEMMA GroupsEntry ==
    ASSUME NEW f \in Frame, FrameOK(f), f.missed \/ f.group # <<>> \/ f.nested # <<>>
    PROVE  ChildOf(f.entry, f.node)
  BY DEF FrameOK, ChildOf

LEMMA StepTop ==
    ASSUME FedInv, NEW c \in Call, Lookup(c) \/ Create(c) \/ Descend(c) \/ Apply(c)
    PROVE  stack[c] # <<>> /\ recalc' = recalc /\ \E g \in Frame : GoesOn(c, g)
<1> DEFINE f == Top(c)
<1>0. /\ stat \in [Path -> Stat] /\ stack \in [Call -> Seq(Frame)] /\ nodes \subseteq Path
  BY DEF FedInv, LockInv, Inv, TypeOK
<1>1. stack[c] # <<>> /\ recalc' = recalc
  BY DEF Lookup, Create, Descend, Apply, Active
<1>2. /\ f \in Frame /\ FrameOK(f) /\ Present(nodes, f) /\ f.node \in Place
      /\ f.todo \in Seq(Announcement) /\ f.group \in Seq(Announcement)
      /\ f.nested \in Seq(Announcement)
  BY <1>1, FrameOf
<1>3. ASSUME NEW g, ReplaceTop(c, g) PROVE stack'[c] = <<g>> \o Tail(stack[c])
  BY <1>0, <1>3 DEF ReplaceTop
<1>4. CASE Lookup(c)
  <2>1. f.group = <<>> /\ f.nested = <<>> /\ f.todo # <<>> /\ nodes' = nodes /\ stat' = stat
    BY <1>4 DEF Lookup, GroupDone
  <2> DEFINE e == Child(f.node, f.todo[1].path)
  <2>2. PICK k \in 1..Len(f.todo) :
          ReplaceTop(c, [f EXCEPT !.entry = e,
                                  !.group = SubSeq(f.todo, 1, k),
                                  !.todo = SubSeq(f.todo, k + 1, Len(f.todo)),
                                  !.missed = e \notin nodes])
    BY <1>4 DEF Lookup
  <2>3. /\ 1 \in 1..Len(f.todo)
        /\ SubSeq(f.todo, 1, k) \in Seq(Announcement) /\ Len(SubSeq(f.todo, 1, k)) = k
        /\ SubSeq(f.todo, k + 1, Len(f.todo)) \in Seq(Announcement)
    BY <1>2, <2>1, SplitSeq, LenProperties
  <2>4. ChildOf(e, f.node)
    <3>1. f.todo[1] \in Announcement /\ Below(f.node, f.todo[1].path)
      BY <1>2, <2>1, <2>3, ElementOfSeq DEF FrameOK
    <3>2. f.todo[1].path \in Path
      BY <3>1 DEF Announcement
    <3> QED
      BY <1>2, <3>1, <3>2, ChildOnPath DEF ChildOf
  <2>5. ASSUME NEW g, g = [f EXCEPT !.entry = e,
                                    !.group = SubSeq(f.todo, 1, k),
                                    !.todo = SubSeq(f.todo, k + 1, Len(f.todo)),
                                    !.missed = e \notin nodes]
        PROVE  /\ g \in Frame /\ g.node = f.node /\ g.entry = e
               /\ g.group = SubSeq(f.todo, 1, k) /\ g.missed = (e \notin nodes)
    BY <1>2, <2>3, <2>4, <2>5 DEF Frame, ChildOf
  <2>6. SubSeq(f.todo, 1, k) # <<>>
    BY <2>2, <2>3
  <2>7. ASSUME NEW g \in Frame, g.node = f.node, g.entry = e,
               g.group # <<>>, g.missed = (e \notin nodes), ReplaceTop(c, g)
        PROVE  GoesOn(c, g)
    <3>1. Opened(nodes', g)
      BY <2>1, <2>4, <2>7 DEF Opened
    <3>2. \A p \in Path : ~Tends(f, p, stat)
      BY <2>1 DEF Tends
    <3> QED
      BY <1>3, <2>1, <2>7, <3>1, <3>2 DEF GoesOn
  <2> QED
    BY <1>1, <2>2, <2>5, <2>6, <2>7
<1>5. CASE Create(c)
  <2>1. f.missed /\ ReplaceTop(c, [f EXCEPT !.missed = FALSE])
    BY <1>5 DEF Create
  <2>2. ASSUME NEW g, g = [f EXCEPT !.missed = FALSE]
        PROVE  /\ g \in Frame /\ g.node = f.node /\ g.entry = f.entry /\ ~g.missed
               /\ g.group = f.group /\ g.nested = f.nested
    BY <1>2, <2>2 DEF Frame
  <2>3. ChildOf(f.entry, f.node)
    BY <1>2, <2>1, GroupsEntry
  <2>4. /\ f.entry \in nodes' /\ nodes' \subseteq nodes \cup {f.entry}
        /\ f.entry \notin nodes => stat'[f.entry] = FreshStat
        /\ \A p \in Path : stat'[p].stamp = stat[p].stamp \/ stat'[p].stamp = 0
    <3>1. f.entry \in Path
      BY <2>3 DEF ChildOf
    <3> QED
      BY <1>0, <1>5, <3>1 DEF Create, FreshStat
  <2>5. ASSUME NEW g \in Frame, g.node = f.node, g.entry = f.entry, ~g.missed,
               g.group = f.group, g.nested = f.nested, ReplaceTop(c, g)
        PROVE  GoesOn(c, g)
    <3>1. Opened(nodes', g)
      BY <2>3, <2>4, <2>5 DEF Opened
    <3>2. ASSUME Opened(nodes, f), NEW p \in nodes' \ nodes PROVE Tends(g, p, stat')
      <4>1. p = f.entry /\ stat'[p] = FreshStat
        BY <2>4, <3>2
      <4>2. f.group # <<>>
        BY <2>1, <3>2 DEF Opened
      <4> QED
        BY <2>5, <4>1, <4>2 DEF Tends, FreshStat
    <3>3. \A p \in Path : Tends(f, p, stat) => Tends(g, p, stat')
      BY <2>4, <2>5 DEF Tends
    <3> QED
      BY <1>3, <2>5, <3>1, <3>2, <3>3 DEF GoesOn
  <2> QED
    BY <1>1, <2>1, <2>2, <2>5
<1>6. CASE Descend(c)
  <2> DEFINE a == Head(f.group)
  <2>1. /\ ~f.missed /\ f.group # <<>> /\ nodes' = nodes /\ stat' = stat
        /\ ReplaceTop(c, [f EXCEPT !.group = Tail(@), !.nested = Append(@, a)])
    BY <1>6 DEF Descend
  <2>2. /\ a \in Announcement /\ Tail(f.group) \in Seq(Announcement)
        /\ Append(f.nested, a) \in Seq(Announcement) /\ Append(f.nested, a) # <<>>
    <3>1. a \in Announcement /\ Tail(f.group) \in Seq(Announcement)
      BY <1>2, <2>1, HeadTailProperties
    <3>2. /\ Append(f.nested, a) \in Seq(Announcement)
          /\ Len(Append(f.nested, a)) = Len(f.nested) + 1 /\ Len(f.nested) \in Nat
      BY <1>2, <3>1, AppendProperties, LenProperties
    <3>3. Append(f.nested, a) # <<>>
      BY <3>2, EmptySeq
    <3> QED
      BY <3>1, <3>2, <3>3
  <2> HIDE DEF a
  <2>3. ASSUME NEW g, g = [f EXCEPT !.group = Tail(@), !.nested = Append(@, a)]
        PROVE  /\ g \in Frame /\ g.node = f.node /\ g.entry = f.entry /\ g.todo = f.todo
               /\ g.missed = f.missed /\ g.nested # <<>>
    BY <1>2, <2>2, <2>3 DEF Frame
  <2>4. ASSUME NEW g \in Frame, g.node = f.node, g.entry = f.entry, g.todo = f.todo,
               g.missed = f.missed, g.nested # <<>>, ReplaceTop(c, g)
        PROVE  GoesOn(c, g)
    <3>1. Opened(nodes, f) => Opened(nodes', g)
      BY <2>1, <2>4 DEF Opened
    <3>2. \A p \in Path : Tends(f, p, stat) => Tends(g, p, stat')
      BY <2>4 DEF Tends
    <3> QED
      BY <1>3, <2>1, <2>4, <3>1, <3>2 DEF GoesOn
  <2> QED
    BY <1>1, <2>1, <2>3, <2>4
<1>7. CASE Apply(c)
  <2> DEFINE a == Head(f.group)
  <2>1. /\ ~f.missed /\ f.group # <<>> /\ nodes' = nodes
        /\ stat' = [stat EXCEPT ![f.entry] = Merge(@, a)]
        /\ ReplaceTop(c, [f EXCEPT !.group = Tail(@)])
    BY <1>7 DEF Apply
  <2>2. a \in Announcement /\ Tail(f.group) \in Seq(Announcement)
    BY <1>2, <2>1, HeadTailProperties
  <2> HIDE DEF a
  <2>3. ASSUME NEW g, g = [f EXCEPT !.group = Tail(@)]
        PROVE  /\ g \in Frame /\ g.node = f.node /\ g.entry = f.entry /\ g.todo = f.todo
               /\ g.missed = f.missed /\ g.nested = f.nested
    BY <1>2, <2>2, <2>3 DEF Frame
  <2>4. ASSUME NEW g \in Frame, g.node = f.node, g.entry = f.entry, g.todo = f.todo,
               g.missed = f.missed, g.nested = f.nested, ReplaceTop(c, g)
        PROVE  GoesOn(c, g)
    <3>1. Opened(nodes, f) => Opened(nodes', g)
      BY <2>1, <2>4 DEF Opened
    <3>2. ASSUME NEW p \in Path, Tends(f, p, stat), stat'[p].owner = NoOwner
          PROVE  Tends(g, p, stat')
      <4>1. CASE f.nested # <<>>
        BY <2>4, <3>2, <4>1 DEF Tends
      <4>2. CASE f.nested = <<>>
        <5>1. p = f.entry /\ stat[p].stamp = 0 /\ stat'[p] = Merge(stat[p], a)
          BY <1>0, <2>1, <3>2, <4>2 DEF Tends
        <5>2. a.stamp > 0 /\ a.owner # NoOwner
          BY <2>2, OwnerAssumption DEF Announcement
        <5>3. stat'[p].owner # NoOwner
          BY <5>1, <5>2, OwnerAssumption DEF Merge, Overwrite
        <5> QED
          BY <3>2, <5>3
      <4> QED
        BY <4>1, <4>2
    <3> QED
      BY <1>3, <2>1, <2>4, <3>1, <3>2 DEF GoesOn
  <2> QED
    BY <1>1, <2>1, <2>3, <2>4
<1> QED
  BY <1>4, <1>5, <1>6, <1>7

\* An entry without an owner is new, was without one before, or gets none from
\* a recalculation; its time is the same.
LEMMA StepOwner ==
    ASSUME FedInv, NEW c \in Call, Step(c), NEW p \in nodes', stat'[p].owner = NoOwner
    PROVE  /\ p \in Path /\ stat'[p].stamp = stat[p].stamp
           /\ stat[p].dir => stat'[p].dir
           /\ \/ p \notin nodes /\ Create(c)
              \/ p \in nodes /\ stat[p].owner = NoOwner
              \/ /\ p \in nodes /\ SetOwner(c) /\ p = recalc[c].dir
                 /\ recalc[c].owner = NoOwner
<1>0. /\ LockInv /\ stat \in [Path -> Stat] /\ nodes \subseteq Path
  BY DEF FedInv, LockInv, Inv, TypeOK
<1>1. CASE UNCHANGED <<nodes, stat>>
  BY <1>0, <1>1
<1>2. CASE /\ Create(c) /\ Top(c).entry \in Path /\ Top(c).entry \notin nodes
           /\ nodes' = nodes \cup {Top(c).entry}
           /\ stat' = [stat EXCEPT ![Top(c).entry] = FreshStat]
  <2>1. CASE p = Top(c).entry
    BY <1>0, <1>2, <2>1 DEF FedInv, Untouched
  <2>2. CASE p # Top(c).entry
    BY <1>0, <1>2, <2>2
  <2> QED
    BY <2>1, <2>2
<1>3. CASE /\ Apply(c) /\ stack[c] # <<>> /\ Top(c).group # <<>> /\ Top(c).entry \in nodes
           /\ nodes' = nodes
           /\ stat' = [stat EXCEPT ![Top(c).entry] = Merge(@, Head(Top(c).group))]
  <2> DEFINE a == Head(Top(c).group)
  <2>1. a \in Announcement
    BY <1>3, FrameOf, HeadTailProperties
  <2>2. a.owner # NoOwner
    BY <2>1, OwnerAssumption DEF Announcement
  <2> HIDE DEF a
  <2>3. CASE p = Top(c).entry
    <3>1. stat'[p] = Merge(stat[p], a)
      BY <1>0, <1>3, <2>3 DEF a
    <3>2. stat'[p] = stat[p]
      BY <2>2, <3>1, OwnerAssumption DEF Merge, Overwrite
    <3> QED
      BY <1>0, <1>3, <3>2
  <2>4. CASE p # Top(c).entry
    BY <1>0, <1>3, <2>4
  <2> QED
    BY <2>3, <2>4
<1>4. CASE /\ EnterDir(c) /\ Top(c).entry \in nodes /\ nodes' = nodes
           /\ stat' = [stat EXCEPT ![Top(c).entry] = AsDir(@)]
  <2>1. CASE p = Top(c).entry
    BY <1>0, <1>4, <2>1 DEF AsDir, Stat
  <2>2. CASE p # Top(c).entry
    BY <1>0, <1>4, <2>2
  <2> QED
    BY <2>1, <2>2
<1>5. CASE /\ SetOwner(c) /\ recalc[c].dir \in nodes /\ nodes' = nodes
           /\ stat' = [stat EXCEPT ![recalc[c].dir].owner = recalc[c].owner]
  <2>1. CASE p = recalc[c].dir
    BY <1>0, <1>5, <2>1 DEF Stat
  <2>2. CASE p # recalc[c].dir
    BY <1>0, <1>5, <2>2
  <2> QED
    BY <2>1, <2>2
<1> QED
  BY <1>0, <1>1, <1>2, <1>3, <1>4, <1>5, StepStat

\* Entering a directory.
LEMMA StepEnter ==
    ASSUME FedInv, NEW c \in Call, EnterDir(c)
    PROVE  /\ stack[c] # <<>> /\ recalc' = recalc /\ nodes' = nodes
           /\ \E e, g \in Frame :
                /\ stack'[c] = <<e>> \o (<<g>> \o Tail(stack[c]))
                /\ g.node = Top(c).node /\ EnteredFrom(e, g) /\ Opened(nodes, e)
                /\ e.node = Top(c).entry /\ e.node \in nodes /\ stat'[e.node].dir
                /\ \A p \in Path : Tends(Top(c), p, stat) => p = e.node
<1> DEFINE f == Top(c)
           e == NewFrame(f.entry, f.nested)
           g == [f EXCEPT !.nested = <<>>]
<1>1. /\ stack[c] # <<>> /\ recalc' = recalc /\ nodes' = nodes
      /\ ~f.missed /\ f.group = <<>> /\ f.nested # <<>>
      /\ stack' = [stack EXCEPT ![c] = <<e, g>> \o Tail(stack[c])]
      /\ stat' = [stat EXCEPT ![f.entry] = AsDir(@)]
  BY DEF EnterDir, Active
<1>2. /\ f \in Frame /\ FrameOK(f) /\ Present(nodes, f) /\ f.nested \in Seq(Announcement)
      /\ Tail(stack[c]) \in Seq(Frame)
  BY <1>1, FrameOf
<1>3. ChildOf(f.entry, f.node) /\ f.entry \in nodes
  BY <1>1, <1>2, GroupsEntry DEF Present
<1>4. /\ e \in Frame /\ e.node = f.entry /\ e.todo = f.nested /\ ~e.missed
  BY <1>2, <1>3 DEF Frame, NewFrame, ChildOf
<1>5. /\ g \in Frame /\ g.node = f.node /\ g.entry = f.entry /\ g.missed = f.missed
  BY <1>2, EmptySeq DEF Frame
<1>6. stack'[c] = <<e>> \o (<<g>> \o Tail(stack[c]))
  <2>1. stack'[c] = <<e, g>> \o Tail(stack[c])
    BY <1>1 DEF FedInv, LockInv, Inv, TypeOK
  <2> QED
    BY <1>2, <1>4, <1>5, <2>1, ConsTwice
<1>7. stat'[f.entry].dir
  BY <1>1, <1>3 DEF AsDir, FedInv, LockInv, Inv, TypeOK, Stat, ChildOf
<1> HIDE DEF e, g
<1>8. Opened(nodes, e)
  BY <1>1, <1>4 DEF Opened
<1>9. EnteredFrom(e, g)
  BY <1>1, <1>3, <1>4, <1>5 DEF EnteredFrom
<1>10. \A p \in Path : Tends(f, p, stat) => p = e.node
  BY <1>4 DEF Tends
<1> QED
  BY <1>1, <1>3, <1>4, <1>5, <1>6, <1>7, <1>8, <1>9, <1>10

\* The frames of a call after a step of it.
LEMMA StepNodes ==
    ASSUME FedInv, NEW c \in Call, Step(c)
    PROVE  \/ NodesOf(stack'[c]) = NodesOf(stack[c])
           \/ /\ EnterDir(c) /\ stack[c] # <<>>
              /\ NodesOf(stack'[c]) = {Top(c).entry} \cup NodesOf(stack[c])
           \/ /\ Return(c) /\ stack[c] # <<>>
              /\ NodesOf(stack[c]) = {Top(c).node} \cup NodesOf(stack'[c])
<1>0. ASSUME stack[c] # <<>>
      PROVE  /\ Tail(stack[c]) \in Seq(Frame)
             /\ NodesOf(stack[c]) = {Top(c).node} \cup NodesOf(Tail(stack[c]))
  BY <1>0, FrameOf, NodesOfCons
<1>1. CASE Lookup(c) \/ Create(c) \/ Descend(c) \/ Apply(c)
  <2>1. stack[c] # <<>> /\ \E g \in Frame : GoesOn(c, g)
    BY <1>1, StepTop
  <2>2. PICK g \in Frame : stack'[c] = <<g>> \o Tail(stack[c]) /\ g.node = Top(c).node
    BY <2>1 DEF GoesOn
  <2> QED
    BY <1>0, <2>1, <2>2, NodesOfCons
<1>2. CASE EnterDir(c)
  <2>1. stack[c] # <<>>
    BY <1>2, StepEnter
  <2>2. PICK e \in Frame, g \in Frame :
          /\ stack'[c] = <<e>> \o (<<g>> \o Tail(stack[c]))
          /\ g.node = Top(c).node /\ e.node = Top(c).entry
    BY <1>2, StepEnter
  <2>3. /\ <<g>> \o Tail(stack[c]) \in Seq(Frame)
        /\ NodesOf(<<g>> \o Tail(stack[c])) = {g.node} \cup NodesOf(Tail(stack[c]))
    BY <1>0, <2>1, NodesOfCons, Cons
  <2>4. NodesOf(stack'[c]) = {e.node} \cup NodesOf(<<g>> \o Tail(stack[c]))
    BY <2>2, <2>3, NodesOfCons
  <2> QED
    BY <1>0, <1>2, <2>1, <2>2, <2>3, <2>4
<1>3. CASE Return(c)
  <2>1. stack[c] # <<>> /\ stack'[c] = Tail(stack[c])
    BY <1>3 DEF Return, Active, FedInv, LockInv, Inv, TypeOK
  <2> QED
    BY <1>0, <1>3, <2>1
<1>4. CASE ReadChild(c) \/ SetOwner(c)
  BY <1>4 DEF ReadChild, SetOwner
<1> QED
  BY <1>1, <1>2, <1>3, <1>4 DEF Step

LEMMA InsideStays ==
    ASSUME FedInv, NEW c \in Call, Step(c), NEW d \in Call, NEW p, Inside(d, p)
    PROVE  \/ Inside(d, p)'
           \/ d = c /\ Return(c) /\ stack[c] # <<>> /\ p = Top(c).node
<1>1. d # c => stack'[d] = stack[d]
  BY StepLocal DEF FedInv, LockInv
<1> QED
  BY <1>1, StepNodes DEF Inside

\* A step that keeps c out of recalculateOwner.
LEMMA StepApart ==
    ASSUME FedInv, NEW c \in Call, Step(c)
    PROVE  \/ ReadChild(c) /\ stack' = stack /\ recalc'[c].dir = recalc[c].dir
           \/ SetOwner(c) /\ stack' = stack /\ recalc'[c].dir = Root
           \/ recalc[c].dir = Root /\ (Return(c) \/ recalc' = recalc)
<1>0. recalc \in [Call -> Recalc]
  BY DEF FedInv, LockInv, Inv, TypeOK
<1>1. CASE ReadChild(c)
  <2>1. PICK q \in recalc[c].unread :
          recalc' = [recalc EXCEPT ![c].unread = @ \ {q},
                                   ![c].owner = CombineOwner(@, stat[q].owner)]
    BY <1>1 DEF ReadChild
  <2>2. recalc'[c].dir = recalc[c].dir
    BY <1>0, <2>1 DEF Recalc
  <2> QED
    BY <1>1, <2>2 DEF ReadChild
<1>2. CASE SetOwner(c)
  BY <1>0, <1>2 DEF SetOwner, NotRecalculating
<1>3. CASE Lookup(c) \/ Create(c) \/ Descend(c) \/ Apply(c) \/ EnterDir(c) \/ Return(c)
  BY <1>3 DEF Lookup, Create, Descend, Apply, EnterDir, Return, Active
<1> QED
  BY <1>1, <1>2, <1>3 DEF Step

LEMMA StepChains ==
    ASSUME HoldInv, NEW c \in Call, Step(c)
    PROVE  ChainsOK'
<1>0. FedInv /\ \A d \in Call : Chained(stack[d])
  BY DEF HoldInv, ChainsOK
<1>1. ASSUME stack[c] # <<>>
      PROVE  /\ stack[c] \in Seq(Frame) /\ Tail(stack[c]) \in Seq(Frame)
             /\ Chained(Tail(stack[c])) /\ Linked(Top(c), Tail(stack[c]))
  BY <1>0, <1>1, FrameOf, TailChained DEF Top
<1>2. Chained(stack'[c])
  <2>1. CASE Lookup(c) \/ Create(c) \/ Descend(c) \/ Apply(c)
    <3>1. stack[c] # <<>> /\ \E g \in Frame : GoesOn(c, g)
      BY <1>0, <2>1, StepTop
    <3>2. PICK g \in Frame : stack'[c] = <<g>> \o Tail(stack[c]) /\ g.node = Top(c).node
      BY <3>1 DEF GoesOn
    <3>3. Linked(g, Tail(stack[c]))
      BY <1>1, <3>1, <3>2 DEF Linked, EnteredFrom
    <3> QED
      BY <1>1, <3>1, <3>2, <3>3, ConsChained
  <2>2. CASE EnterDir(c)
    <3>1. stack[c] # <<>>
      BY <1>0, <2>2, StepEnter
    <3>2. PICK e \in Frame, g \in Frame :
            /\ stack'[c] = <<e>> \o (<<g>> \o Tail(stack[c]))
            /\ g.node = Top(c).node /\ EnteredFrom(e, g)
      BY <1>0, <2>2, StepEnter
    <3>3. Linked(g, Tail(stack[c]))
      BY <1>1, <3>1, <3>2 DEF Linked, EnteredFrom
    <3>4. Chained(<<g>> \o Tail(stack[c]))
      BY <1>1, <3>1, <3>3, ConsChained
    <3>5. /\ <<g>> \o Tail(stack[c]) \in Seq(Frame) /\ <<g>> \o Tail(stack[c]) # <<>>
          /\ Head(<<g>> \o Tail(stack[c])) = g
      BY <1>1, <3>1, Cons
    <3>6. Linked(e, <<g>> \o Tail(stack[c]))
      BY <3>2, <3>5 DEF Linked
    <3> QED
      BY <3>2, <3>4, <3>5, <3>6, ConsChained
  <2>3. CASE Return(c)
    <3>1. stack[c] # <<>> /\ stack'[c] = Tail(stack[c])
      BY <2>3 DEF Return, Active, HoldInv, FedInv, LockInv, Inv, TypeOK
    <3> QED
      BY <1>1, <3>1
  <2>4. CASE ReadChild(c) \/ SetOwner(c)
    BY <1>0, <2>4 DEF ReadChild, SetOwner
  <2> QED
    BY <2>1, <2>2, <2>3, <2>4 DEF Step
<1>3. \A d \in Call : d # c => stack'[d] = stack[d]
  BY <1>0, StepLocal DEF FedInv, LockInv
<1> QED
  BY <1>0, <1>2, <1>3 DEF ChainsOK

LEMMA StepBelong ==
    ASSUME HoldInv, NEW c \in Call, Step(c)
    PROVE  RecalcsBelong'
<1>0. FedInv /\ RecalcsBelong
  BY DEF HoldInv
<1>1. ASSUME NEW d \in Call, recalc'[d].dir # Root
      PROVE  /\ stack'[d] # <<>> /\ Head(stack'[d]).entry = recalc'[d].dir
             /\ ChildOf(recalc'[d].dir, Head(stack'[d]).node)
  <2>1. CASE stack'[d] = stack[d] /\ recalc'[d].dir = recalc[d].dir
    BY <1>0, <1>1, <2>1 DEF RecalcsBelong, Top
  <2>2. CASE d = c /\ Return(c)
    <3>1. /\ stack[c] # <<>> /\ stack'[c] = Tail(stack[c]) /\ recalc'[c].dir = Top(c).node
          /\ Top(c).node # Root
      BY <1>1, <2>2 DEF Return, Active, NotRecalculating, HoldInv, FedInv, LockInv, Inv, TypeOK
    <3>2. Linked(Top(c), Tail(stack[c]))
      BY <1>0, <3>1, FrameOf, TailChained DEF HoldInv, ChainsOK, Top
    <3> QED
      BY <2>2, <3>1, <3>2 DEF Linked, EnteredFrom
  <2>3. CASE d = c /\ ~Return(c)
    BY <1>0, <1>1, <2>1, <2>3, StepApart
  <2>4. CASE d # c
    BY <1>0, <2>1, <2>4, StepLocal DEF FedInv, LockInv
  <2> QED
    BY <2>2, <2>3, <2>4
<1> QED
  BY <1>1 DEF RecalcsBelong, Top

LEMMA StepOpen ==
    ASSUME HoldInv, NEW c \in Call, Step(c)
    PROVE  TopsOpen'
<1>0. FedInv /\ TopsOpen /\ nodes \subseteq nodes'
  BY StepNotOlder DEF HoldInv, FedInv, LockInv
<1>1. ASSUME stack'[c] # <<>> PROVE Opened(nodes', Head(stack'[c]))
  <2>1. CASE Lookup(c) \/ Create(c) \/ Descend(c) \/ Apply(c)
    <3>1. stack[c] # <<>> /\ \E g \in Frame : GoesOn(c, g)
      BY <1>0, <2>1, StepTop
    <3>2. PICK g \in Frame : GoesOn(c, g)
      BY <3>1
    <3>3. Opened(nodes', g) /\ stack'[c] = <<g>> \o Tail(stack[c])
      BY <1>0, <3>1, <3>2 DEF GoesOn, TopsOpen
    <3> QED
      BY <1>0, <3>1, <3>3, FrameOf, Cons
  <2>2. CASE EnterDir(c)
    <3>1. stack[c] # <<>> /\ nodes' = nodes
      BY <1>0, <2>2, StepEnter
    <3>2. PICK e \in Frame, g \in Frame :
            stack'[c] = <<e>> \o (<<g>> \o Tail(stack[c])) /\ Opened(nodes, e)
      BY <1>0, <2>2, StepEnter
    <3>3. Head(stack'[c]) = e
      BY <1>0, <3>1, <3>2, FrameOf, Cons
    <3> QED
      BY <3>1, <3>2, <3>3
  <2>3. CASE Return(c)
    <3>1. stack[c] # <<>> /\ stack'[c] = Tail(stack[c])
      BY <2>3 DEF Return, Active, HoldInv, FedInv, LockInv, Inv, TypeOK
    <3>2. Linked(Top(c), Tail(stack[c])) /\ Present(nodes, Top(c))
      BY <1>0, <3>1, FrameOf, TailChained DEF HoldInv, ChainsOK, Top
    <3>3. EnteredFrom(Top(c), Head(stack'[c]))
      BY <1>1, <3>1, <3>2 DEF Linked
    <3>4. Top(c).node \in nodes
      BY <3>2, <3>3, RootNoPath DEF EnteredFrom, ChildOf, Present
    <3> QED
      BY <1>0, <3>3, <3>4 DEF EnteredFrom, Opened
  <2>4. CASE stack' = stack
    BY <1>0, <1>1, <2>4 DEF TopsOpen, Top, Opened
  <2> QED
    BY <2>1, <2>2, <2>3, <2>4 DEF Step, ReadChild, SetOwner
<1>2. ASSUME NEW d \in Call, d # c, stack'[d] # <<>> PROVE Opened(nodes', Head(stack'[d]))
  <2>1. stack'[d] = stack[d]
    BY <1>0, <1>2, StepLocal DEF FedInv, LockInv
  <2> QED
    BY <1>0, <1>2, <2>1 DEF TopsOpen, Top, Opened
<1> QED
  BY <1>1, <1>2 DEF TopsOpen, Top

\* A child that had no owner when it was read: somebody is below its directory.
LEMMA TendedBelow ==
    ASSUME HoldInv, NEW q \in Place, NEW p, ChildOf(p, q), Tended(p)
    PROVE  \E d \in Call : Inside(d, q)
<1>0. FedInv /\ p \in Path /\ p # Root
  BY RootNoPath DEF HoldInv, ChildOf
<1>1. PICK d \in Call : \/ Inside(d, p)
                         \/ recalc[d].dir = p
                         \/ (stack[d] # <<>> /\ Tends(Top(d), p, stat))
  BY DEF Tended
<1>2. stack[d] \in Seq(Frame)
  BY <1>0 DEF FedInv, LockInv, Inv, TypeOK
<1>3. CASE Inside(d, p)
  <2>1. PICK i \in 1..Len(stack[d]) : ChildOf(p, stack[d][i].node)
    BY <1>0, <1>2, <1>3, EntryBelow DEF Inside, HoldInv, ChainsOK
  <2>2. stack[d][i].node \in Place
    <3>1. stack[d][i] \in Frame
      BY <1>2, ElementOfSeq
    <3> QED
      BY <3>1 DEF Frame, Place
  <2>3. stack[d][i].node = q
    BY <2>1, <2>2, OneParent
  <2> QED
    BY <2>3 DEF Inside, NodesOf
<1>4. CASE stack[d] # <<>> /\ ChildOf(p, Top(d).node)
  <2>1. Top(d).node \in Place
    BY <1>0, <1>4, FrameOf
  <2>2. Top(d).node = q
    BY <1>4, <2>1, OneParent
  <2> QED
    BY <1>2, <1>4, <2>2, NodesOfTop DEF Inside, Top
<1>5. recalc[d].dir = p => stack[d] # <<>> /\ ChildOf(p, Top(d).node)
  BY <1>0 DEF HoldInv, RecalcsBelong
<1>6. stack[d] # <<>> /\ Tends(Top(d), p, stat) => ChildOf(p, Top(d).node)
  BY <1>0, FrameOf, GroupsEntry DEF Tends
<1> QED
  BY <1>1, <1>3, <1>4, <1>5, <1>6

LEMMA StepRecalcs ==
    ASSUME HoldInv, NEW c \in Call, Step(c)
    PROVE  RecalcsOpen'
<1>0. FedInv /\ RecalcsOpen /\ recalc \in [Call -> Recalc] /\ stat \in [Path -> Stat]
  BY DEF HoldInv, FedInv, LockInv, Inv, TypeOK
<1>1. ASSUME NEW d \in Call, NEW q, q = recalc'[d].dir, q # Root
      PROVE  /\ ChildrenOf(q)' # {}
             /\ recalc'[d].owner = NoOwner /\ recalc'[d].unread # ChildrenOf(q)' =>
                    \E e \in Call : Inside(e, q)'
             /\ recalc'[d].unread \subseteq ChildrenOf(q)'
  <2>1. CASE recalc'[d].dir = recalc[d].dir
    <3>1. /\ ChildrenOf(q)' = ChildrenOf(q) /\ ChildrenOf(q) # {}
          /\ recalc[d].owner = NoOwner /\ recalc[d].unread # ChildrenOf(q) =>
                \E e \in Call : Inside(e, q)
          /\ recalc[d].unread \subseteq ChildrenOf(q)
      BY <1>0, <1>1, <2>1, StepStable DEF FedInv, RecalcsOpen
    <3>2. ASSUME NEW e \in Call, Inside(e, q) PROVE Inside(e, q)'
      <4>1. ~(Return(c) /\ q = Top(c).node)
        BY <1>1, <2>1 DEF Return, Locked
      <4> QED
        BY <1>0, <3>2, <4>1, InsideStays
    <3>3. CASE recalc'[d] = recalc[d]
      BY <3>1, <3>2, <3>3
    <3>4. CASE recalc'[d] # recalc[d]
      <4>1. d = c
        BY <1>0, <3>4, StepLocal DEF FedInv, LockInv
      <4>2. ReadChild(c)
        BY <1>0, <1>1, <2>1, <3>4, <4>1, StepApart DEF Return, SetOwner, NotRecalculating
      <4>3. PICK k \in recalc[c].unread :
              recalc' = [recalc EXCEPT ![c].unread = @ \ {k},
                                       ![c].owner = CombineOwner(@, stat[k].owner)]
        BY <4>2 DEF ReadChild
      <4>4. /\ recalc'[c].unread = recalc[c].unread \ {k}
            /\ recalc'[c].owner = CombineOwner(recalc[c].owner, stat[k].owner)
        BY <1>0, <4>3 DEF Recalc
      <4>5. k \in nodes /\ k \in Path /\ ChildOf(k, q) /\ q \in Place
        BY <1>0, <1>1, <2>1, <3>1, <4>1, <4>3
           DEF ChildrenOf, ChildOf, Recalc, Place, FedInv, LockInv, Inv, TypeOK
      <4>6. ASSUME recalc'[c].owner = NoOwner PROVE stat[k].owner = NoOwner
        BY <4>4, <4>6, OwnerAssumption DEF CombineOwner
      <4>7. ASSUME recalc'[c].owner = NoOwner PROVE \E e \in Call : Inside(e, q)
        BY <4>5, <4>6, <4>7, TendedBelow DEF HoldInv, AllTended
      <4> QED
        BY <3>1, <3>2, <4>1, <4>4, <4>7
    <3> QED
      BY <3>3, <3>4
  <2>2. CASE recalc'[d].dir # recalc[d].dir
    <3>1. d = c
      BY <1>0, <2>2, StepLocal DEF FedInv, LockInv
    <3>2. Return(c)
      BY <1>0, <1>1, <2>2, <3>1, StepApart
    <3>3. /\ stack[c] # <<>> /\ GroupDone(Top(c)) /\ Top(c).todo = <<>> /\ nodes' = nodes
          /\ q = Top(c).node /\ recalc'[c].unread = ChildrenOf(q)
      BY <1>0, <1>1, <3>1, <3>2 DEF Return, Active, NotRecalculating
    <3>4. ChildOf(Top(c).entry, q) /\ Top(c).entry \in nodes
      BY <1>1, <3>3 DEF HoldInv, TopsOpen, Opened, GroupDone
    <3>5. Top(c).entry \in ChildrenOf(q) /\ ChildrenOf(q)' = ChildrenOf(q)
      BY <3>3, <3>4 DEF ChildrenOf, ChildOf
    <3> QED
      BY <3>1, <3>3, <3>5
  <2> QED
    BY <2>1, <2>2
<1> QED
  BY <1>1 DEF RecalcsOpen

LEMMA StepDirs ==
    ASSUME HoldInv, NEW c \in Call, Step(c)
    PROVE  DirsInside'
<1>0. FedInv /\ DirsInside /\ stack \in [Call -> Seq(Frame)]
  BY DEF HoldInv, FedInv, LockInv, Inv, TypeOK
<1> SUFFICES ASSUME NEW d \in Call, NEW p \in nodes', p \in NodesOf(stack'[d]),
                    stat'[p].owner = NoOwner
             PROVE  stat'[p].dir
  BY DEF DirsInside, Inside
<1>1. CASE p \in NodesOf(stack[d])
  <2>1. p \in nodes
    <3>1. PICK i \in 1..Len(stack[d]) : stack[d][i].node = p
      BY <1>1 DEF NodesOf
    <3>2. p \in nodes \cup {Root}
      BY <1>0, <3>1 DEF FedInv, LockInv, StacksPresent, AllPresent, Present
    <3> QED
      BY <1>0, <3>2, StepOwner, RootNoPath
  <2>2. CASE stat[p].owner = NoOwner
    BY <1>0, <1>1, <2>1, <2>2, StepOwner DEF DirsInside, Inside
  <2>3. CASE SetOwner(c) /\ p = recalc[c].dir
    <3>1. stat[p].dir
      BY <1>0, <2>3 DEF SetOwner, FedInv, RecalcsDirs
    <3> QED
      BY <1>0, <3>1, StepOwner
  <2> QED
    BY <1>0, <2>1, <2>2, <2>3, StepOwner
<1>2. CASE p \notin NodesOf(stack[d])
  <2>1. d = c
    BY <1>0, <1>2, StepLocal DEF FedInv, LockInv
  <2>2. EnterDir(c) /\ p = Top(c).entry
    BY <1>0, <1>2, <2>1, StepNodes
  <2> QED
    BY <1>0, <2>2, StepEnter
<1> QED
  BY <1>1, <1>2

LEMMA StepTended ==
    ASSUME HoldInv, NEW c \in Call, Step(c)
    PROVE  AllTended'
<1>0. FedInv /\ AllTended
  BY DEF HoldInv
<1> SUFFICES ASSUME NEW p \in nodes', stat'[p].owner = NoOwner PROVE Tended(p)'
  BY DEF AllTended
<1>1. p \in Path /\ p # Root /\ stat'[p].stamp = stat[p].stamp
  BY <1>0, StepOwner, RootNoPath
<1>2. CASE p \notin nodes
  <2>1. Create(c)
    BY <1>0, <1>2, StepOwner
  <2>2. stack[c] # <<>> /\ \E g \in Frame : GoesOn(c, g)
    BY <1>0, <2>1, StepTop
  <2>3. PICK g \in Frame : GoesOn(c, g)
    BY <2>2
  <2>4. stack'[c] = <<g>> \o Tail(stack[c]) /\ Tends(g, p, stat')
    BY <1>2, <2>2, <2>3 DEF GoesOn, HoldInv, TopsOpen
  <2>5. stack'[c] # <<>> /\ Head(stack'[c]) = g
    BY <1>0, <2>2, <2>4, FrameOf, Cons
  <2> QED
    BY <2>4, <2>5 DEF Tended, Top
<1>3. CASE SetOwner(c) /\ p = recalc[c].dir /\ recalc[c].owner = NoOwner
  <2>1. recalc[c].unread = {} /\ ChildrenOf(p) # {} /\ stack' = stack
    BY <1>1, <1>3 DEF SetOwner, HoldInv, RecalcsOpen
  <2>2. PICK d \in Call : Inside(d, p)
    BY <1>1, <1>3, <2>1 DEF HoldInv, RecalcsOpen
  <2>3. Inside(d, p)'
    BY <2>1, <2>2 DEF Inside
  <2> QED
    BY <2>3 DEF Tended
<1>4. CASE p \in nodes /\ stat[p].owner = NoOwner
  <2>1. PICK d \in Call : \/ Inside(d, p)
                           \/ recalc[d].dir = p
                           \/ (stack[d] # <<>> /\ Tends(Top(d), p, stat))
    BY <1>0, <1>4 DEF AllTended, Tended
  <2>2. CASE Inside(d, p)
    <3>1. CASE Inside(d, p)'
      BY <3>1 DEF Tended
    <3>2. CASE d = c /\ Return(c) /\ p = Top(c).node
      <4>1. stat[p].dir
        BY <1>4, <2>2 DEF HoldInv, DirsInside
      <4>2. recalc'[c].dir = p
        BY <1>1, <3>2, <4>1 DEF Return, FedInv, HoldInv, LockInv, Inv, TypeOK
      <4> QED
        BY <4>2 DEF Tended
    <3> QED
      BY <1>0, <2>2, <3>1, <3>2, InsideStays
  <2>3. CASE recalc[d].dir = p
    <3>1. CASE recalc'[d].dir = p
      BY <3>1 DEF Tended
    <3>2. CASE recalc'[d].dir # p
      <4>1. d = c
        BY <1>0, <2>3, <3>2, StepLocal DEF FedInv, LockInv
      <4>2. SetOwner(c)
        BY <1>0, <1>1, <2>3, <3>2, <4>1, StepApart
      <4>3. stat'[p].owner = recalc[c].owner
        BY <1>0, <1>1, <2>3, <4>1, <4>2 DEF SetOwner, FedInv, LockInv, Inv, TypeOK, Stat
      <4> QED
        BY <1>3, <2>3, <4>1, <4>2, <4>3
    <3> QED
      BY <3>1, <3>2
  <2>4. CASE stack[d] # <<>> /\ Tends(Top(d), p, stat)
    <3>1. CASE stack'[d] = stack[d]
      BY <1>1, <2>4, <3>1 DEF Tended, Tends, Top
    <3>2. CASE d = c /\ (Lookup(c) \/ Create(c) \/ Descend(c) \/ Apply(c))
      <4>1. PICK g \in Frame : GoesOn(c, g)
        BY <1>0, <3>2, StepTop
      <4>2. stack'[c] = <<g>> \o Tail(stack[c]) /\ Tends(g, p, stat')
        BY <1>1, <2>4, <3>2, <4>1 DEF GoesOn
      <4>3. stack'[c] # <<>> /\ Head(stack'[c]) = g
        BY <1>0, <2>4, <3>2, <4>2, FrameOf, Cons
      <4> QED
        BY <4>2, <4>3 DEF Tended, Top
    <3>3. CASE d = c /\ EnterDir(c)
      <4>1. PICK e \in Frame, g \in Frame :
              /\ stack'[c] = <<e>> \o (<<g>> \o Tail(stack[c]))
              /\ \A r \in Path : Tends(Top(c), r, stat) => r = e.node
        BY <1>0, <3>3, StepEnter
      <4>2. p = e.node
        BY <1>1, <2>4, <3>3, <4>1
      <4>3. p \in NodesOf(stack'[c])
        <5>1. <<g>> \o Tail(stack[c]) \in Seq(Frame)
          BY <1>0, <2>4, <3>3, FrameOf, Cons
        <5>2. NodesOf(stack'[c]) = {e.node} \cup NodesOf(<<g>> \o Tail(stack[c]))
          BY <4>1, <5>1, NodesOfCons
        <5> QED
          BY <4>2, <5>2
      <4> QED
        BY <4>3 DEF Tended, Inside
    <3>4. ~(d = c /\ Return(c))
      BY <2>4 DEF Return, GroupDone, Tends
    <3>5. stack'[d] = stack[d] \/ (d = c /\ ~ReadChild(c) /\ ~SetOwner(c))
      BY <1>0, StepLocal DEF ReadChild, SetOwner, FedInv, LockInv
    <3> QED
      BY <3>1, <3>2, <3>3, <3>4, <3>5 DEF Step
  <2> QED
    BY <2>1, <2>2, <2>3, <2>4
<1> QED
  BY <1>0, <1>2, <1>3, <1>4, StepOwner

LEMMA StepIdle ==
    ASSUME HoldInv, NEW c \in Call, Step(c)
    PROVE  Idle'
<1>0. FedInv /\ Idle /\ files' = files /\ recalc \in [Call -> Recalc]
      /\ stack \in [Call -> Seq(Frame)]
  BY StepLocal DEF HoldInv, FedInv, LockInv, Inv, TypeOK
<1> DEFINE e == NewFrame(Root, <<>>)
<1>1. ASSUME files[c] = <<>>
      PROVE  recalc'[c] = NotRecalculating /\ stack'[c] \in {<<>>, <<e>>}
  <2>1. recalc[c] = NotRecalculating /\ stack[c] \in {<<>>, <<e>>}
    BY <1>0, <1>1 DEF Idle
  <2>2. ~ReadChild(c) /\ ~SetOwner(c)
    BY <2>1 DEF NotRecalculating, ReadChild, SetOwner
  <2>3. stack[c] = <<e>> /\ Head(<<e>>) = e /\ Tail(<<e>>) = <<>>
    <3>1. stack[c] # <<>>
      BY <2>2 DEF Step, Lookup, Create, Descend, Apply, EnterDir, Return, Active
    <3> HIDE DEF e
    <3>2. Head(<<e>>) = e /\ Tail(<<e>>) = <<>>
      OBVIOUS
    <3> QED
      BY <2>1, <3>1, <3>2
  <2>4. /\ e.node = Root /\ e.todo = <<>> /\ e.group = <<>> /\ e.nested = <<>> /\ ~e.missed
    BY DEF NewFrame
  <2> HIDE DEF e
  <2>5. Return(c)
    BY <2>2, <2>3, <2>4 DEF Step, Lookup, Create, Descend, Apply, EnterDir, Top
  <2> QED
    BY <1>0, <2>3, <2>4, <2>5 DEF Return, Top
<1>2. ASSUME NEW d \in Call, d # c, files[d] = <<>>
      PROVE  recalc'[d] = NotRecalculating /\ stack'[d] \in {<<>>, <<e>>}
  BY <1>0, <1>2, StepLocal DEF FedInv, LockInv, Idle
<1> QED
  BY <1>0, <1>1, <1>2 DEF Idle

\* The stack of a call that begins.
LEMMA FirstFrame ==
    ASSUME NEW fs \in Seq(Announcement)
    PROVE  LET e == NewFrame(Root, fs)
           IN /\ <<e>> \in Seq(Frame) /\ <<e>> # <<>> /\ Head(<<e>>) = e
              /\ NodesOf(<<e>>) = {Root} /\ Chained(<<e>>) /\ e.entry = Root
              /\ \A N : Opened(N, e)
<1> DEFINE e == NewFrame(Root, fs)
<1>1. /\ e \in Frame /\ e.node = Root /\ e.entry = Root /\ ~e.missed
  BY EmptySeq DEF NewFrame, Frame
<1> HIDE DEF e
<1>2. /\ <<e>> \in Seq(Frame) /\ <<e>> # <<>> /\ Head(<<e>>) = e
      /\ Len(<<e>>) = 1 /\ <<e>>[1] = e
  BY <1>1
<1>3. NodesOf(<<e>>) = {Root} /\ Chained(<<e>>)
  <2>1. \A i \in 1..Len(<<e>>) : i = 1 /\ i = Len(<<e>>)
    BY <1>2
  <2> QED
    BY <1>1, <1>2, <2>1 DEF NodesOf, Chained
<1>4. \A N : Opened(N, e)
  BY <1>1 DEF Opened
<1> QED
  BY <1>1, <1>2, <1>3, <1>4 DEF e

\* It runs on the root, as the one of a call that has been given nothing did.
LEMMA UpdateInside ==
    ASSUME HoldInv, NEW c \in Call, NEW fs \in Lists, Update(c, fs)
    PROVE  \A d \in Call, p \in Path : Inside(d, p) <=> Inside(d, p)'
<1>0. stack \in [Call -> Seq(Frame)] /\ fs \in Seq(Announcement) /\ files[c] = <<>>
  BY ListAssumption DEF HoldInv, FedInv, LockInv, Inv, TypeOK, Update
<1>1. NodesOf(stack'[c]) = {Root}
  <2>1. stack'[c] = <<NewFrame(Root, fs)>>
    BY <1>0 DEF Update
  <2> QED
    BY <1>0, <2>1, FirstFrame
<1>2. NodesOf(stack[c]) \subseteq {Root}
  <2>1. stack[c] \in {<<>>, <<NewFrame(Root, <<>>)>>}
    BY <1>0 DEF HoldInv, Idle
  <2> QED
    BY <2>1, FirstFrame, NodesOfNone, EmptySeq
<1>3. \A d \in Call : d # c => stack'[d] = stack[d]
  BY <1>0 DEF Update
<1> QED
  BY <1>1, <1>2, <1>3, RootNoPath DEF Inside

LEMMA UpdateHold ==
    ASSUME HoldInv, NEW c \in Call, NEW fs \in Lists, Update(c, fs)
    PROVE  /\ ChainsOK' /\ RecalcsBelong' /\ TopsOpen' /\ RecalcsOpen'
           /\ DirsInside' /\ AllTended' /\ Idle'
<1>0. /\ FedInv /\ nodes \subseteq Path /\ fs \in Seq(Announcement) /\ fs \in Lists
      /\ UNCHANGED <<nodes, stat, recalc>> /\ files[c] = <<>>
  BY ListAssumption DEF HoldInv, FedInv, LockInv, Inv, TypeOK, Update
<1>1. /\ stack'[c] = <<NewFrame(Root, fs)>> /\ files'[c] = fs
      /\ \A d \in Call : d # c => stack'[d] = stack[d] /\ files'[d] = files[d]
  BY DEF Update, HoldInv, FedInv, LockInv, Inv, TypeOK
<1>2. /\ stack'[c] # <<>> /\ Chained(stack'[c])
      /\ Opened(nodes', Head(stack'[c]))
  BY <1>0, <1>1, FirstFrame
<1>3. /\ recalc[c] = NotRecalculating /\ recalc[c].dir = Root
      /\ stack[c] \in {<<>>, <<NewFrame(Root, <<>>)>>}
  <2>1. recalc[c] = NotRecalculating /\ stack[c] \in {<<>>, <<NewFrame(Root, <<>>)>>}
    BY <1>0 DEF HoldInv, Idle
  <2>2. NotRecalculating.dir = Root
    BY DEF NotRecalculating
  <2> QED
    BY <2>1, <2>2
<1>5. \A p \in Path : stack[c] # <<>> => ~Tends(Top(c), p, stat)
  <2>1. stack[c] # <<>> => Top(c) = NewFrame(Root, <<>>)
    BY <1>3 DEF Top
  <2>2. \A p \in Path : ~Tends(NewFrame(Root, <<>>), p, stat)
    BY DEF Tends, NewFrame
  <2> QED
    BY <2>1, <2>2
<1>6. \A d \in Call, p \in Path : Inside(d, p) <=> Inside(d, p)'
  BY UpdateInside
<1>7. ChainsOK' /\ TopsOpen'
  BY <1>0, <1>1, <1>2 DEF HoldInv, ChainsOK, TopsOpen, Top
<1>8. RecalcsBelong'
  BY <1>0, <1>1, <1>3 DEF HoldInv, RecalcsBelong, Top
<1>9. RecalcsOpen'
  <2>1. \A d \in Call : recalc[d].dir # Root => recalc[d].dir \in Path
    BY <1>0 DEF FedInv, LockInv, LocksOK
  <2>2. \A q : ChildrenOf(q)' = ChildrenOf(q)
    BY <1>0 DEF ChildrenOf
  <2> QED
    BY <1>0, <1>6, <2>1, <2>2 DEF HoldInv, RecalcsOpen
<1>10. DirsInside'
  BY <1>0, <1>6 DEF HoldInv, DirsInside
<1>11. ASSUME NEW p \in nodes, stat[p].owner = NoOwner PROVE Tended(p)'
  <2>1. PICK d \in Call : \/ Inside(d, p)
                           \/ recalc[d].dir = p
                           \/ (stack[d] # <<>> /\ Tends(Top(d), p, stat))
    BY <1>11 DEF HoldInv, AllTended, Tended
  <2>2. CASE Inside(d, p) \/ recalc[d].dir = p
    BY <1>0, <1>6, <2>2 DEF Tended
  <2>3. CASE stack[d] # <<>> /\ Tends(Top(d), p, stat)
    <3>1. stack'[d] = stack[d]
      BY <1>0, <1>1, <1>5, <2>3
    <3> QED
      BY <1>0, <2>3, <3>1 DEF Tended, Top, Tends
  <2> QED
    BY <2>1, <2>2, <2>3
<1>12. AllTended'
  BY <1>0, <1>11 DEF AllTended
<1>13. Idle'
  BY <1>0, <1>1, <1>3 DEF HoldInv, Idle
<1> QED
  BY <1>7, <1>8, <1>9, <1>10, <1>12, <1>13

LEMMA InitHold == Init => HoldInv
<1> SUFFICES ASSUME Init PROVE HoldInv
  OBVIOUS
<1>1. /\ nodes = {} /\ \A c \in Call : /\ stack[c] = <<>> /\ recalc[c] = NotRecalculating
                                     /\ recalc[c].dir = Root
  BY DEF Init, NotRecalculating
<1>2. ChainsOK
  BY <1>1, EmptySeq DEF ChainsOK, Chained
<1>3. RecalcsBelong /\ TopsOpen /\ RecalcsOpen /\ DirsInside /\ AllTended /\ Idle
  BY <1>1 DEF RecalcsBelong, TopsOpen, RecalcsOpen, DirsInside, AllTended, Idle
<1> QED
  BY <1>2, <1>3, InitFed DEF HoldInv

LEMMA StepHold == HoldInv /\ [Next]_vars => HoldInv'
<1> SUFFICES ASSUME HoldInv, [Next]_vars PROVE HoldInv'
  OBVIOUS
<1>0. FedInv'
  BY StepFed DEF HoldInv
<1>1. ASSUME NEW c \in Call, Step(c) PROVE HoldInv'
  BY <1>0, <1>1, StepChains, StepBelong, StepOpen, StepRecalcs, StepDirs, StepTended,
     StepIdle DEF HoldInv
<1>2. ASSUME NEW c \in Call, NEW fs \in Lists, Update(c, fs) PROVE HoldInv'
  BY <1>0, <1>2, UpdateHold DEF HoldInv
<1>3. CASE UNCHANGED vars
  <2>1. /\ ChainsOK' /\ RecalcsBelong' /\ TopsOpen' /\ RecalcsOpen'
        /\ DirsInside' /\ AllTended' /\ Idle'
    BY <1>3 DEF vars, HoldInv, ChainsOK, RecalcsBelong, TopsOpen, RecalcsOpen, DirsInside,
       AllTended, Idle, Tended, Tends, Inside, ChildrenOf, Top
  <2> QED
    BY <1>0, <2>1 DEF HoldInv
<1> QED
  BY <1>1, <1>2, <1>3 DEF Next

LEMMA HeldPlaceholders == HoldInv => NoAbandonedPlaceholder
<1> SUFFICES ASSUME HoldInv, NEW p \in nodes, stat[p].owner = NoOwner
             PROVE  \E c \in Call : WorkingOn(c, p)
  BY DEF NoAbandonedPlaceholder
<1>0. FedInv /\ p # Root /\ stack \in [Call -> Seq(Frame)]
  BY RootNoPath DEF HoldInv, FedInv, LockInv, Inv, TypeOK
<1>1. PICK d \in Call : \/ Inside(d, p)
                         \/ recalc[d].dir = p
                         \/ (stack[d] # <<>> /\ Tends(Top(d), p, stat))
  BY DEF HoldInv, AllTended, Tended
<1>2. stack[d] # <<>> => Top(d) = stack[d][1] /\ 1 \in 1..Len(stack[d])
  BY <1>0, HeadTailProperties, EmptySeq DEF Top
<1>3. CASE Inside(d, p)
  BY <1>0, <1>3, EntryBelow DEF Inside, HoldInv, ChainsOK, WorkingOn
<1>4. CASE recalc[d].dir = p
  BY <1>0, <1>2, <1>4 DEF HoldInv, RecalcsBelong, WorkingOn
<1>5. CASE stack[d] # <<>> /\ Tends(Top(d), p, stat)
  BY <1>2, <1>5 DEF Tends, GroupDone, WorkingOn
<1> QED
  BY <1>1, <1>3, <1>4, <1>5

\* update() links an empty TreeNode into the tree before it fills it in, and
\* recalculateOwner may read it there: however the calls interleave, an entry
\* without an owner is one that some call is going to give one.
THEOREM PlaceholdersHeld == Spec => []NoAbandonedPlaceholder
<1>1. Spec => []HoldInv
  BY InitHold, StepHold, PTL DEF Spec
<1> QED
  BY <1>1, HeldPlaceholders, PTL
=============================================================================
