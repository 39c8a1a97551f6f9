-------------------------- MODULE LastWriterProofs --------------------------
(***************************************************************************)
(* Proofs about what FatTree does with announcements, for any tree of      *)
(* paths, any lists and any number of concurrent calls: it implements      *)
(* LastWriter, the newest announcement of every path wins, and only files  *)
(* announced as removed are marked so, the last two if no announcement of  *)
(* a removal goes deeper than the root's children.                         *)
(***************************************************************************)
EXTENDS FatTreeProofs

-----------------------------------------------------------------------------
\* The announcements a list, a frame and a stack of frames contain.

Items(s) == {s[i] : i \in 1..Len(s)}

Held(f) == Items(f.todo) \cup Items(f.group) \cup Items(f.nested)

InHand(s) == UNION {Held(s[i]) : i \in 1..Len(s)}

LEMMA ItemsEmpty == Items(<<>>) = {}
BY EmptySeq DEF Items

LEMMA ItemsOfTail ==
    ASSUME NEW S, NEW s \in Seq(S), s # <<>>
    PROVE  Items(s) = {Head(s)} \cup Items(Tail(s))
<1>1. /\ Len(s) \in Nat /\ Len(s) > 0 /\ Head(s) = s[1]
      /\ Len(Tail(s)) = Len(s) - 1
      /\ \A i \in 1..Len(Tail(s)) : Tail(s)[i] = s[i + 1]
  BY HeadTailProperties, EmptySeq
<1>2. ASSUME NEW i \in 1..Len(s) PROVE s[i] \in {Head(s)} \cup Items(Tail(s))
  <2>1. CASE i = 1
    BY <1>1, <2>1
  <2>2. CASE i # 1
    <3>1. i - 1 \in 1..Len(Tail(s)) /\ Tail(s)[i - 1] = s[i]
      BY <1>1, <2>2
    <3> QED
      BY <3>1 DEF Items
  <2> QED
    BY <2>1, <2>2
<1>3. ASSUME NEW i \in 1..Len(Tail(s)) PROVE Tail(s)[i] \in Items(s)
  BY <1>1 DEF Items
<1>4. Head(s) \in Items(s)
  BY <1>1 DEF Items
<1> QED
  BY <1>2, <1>3, <1>4 DEF Items

LEMMA ItemsOfAppend ==
    ASSUME NEW S, NEW s \in Seq(S), NEW e \in S
    PROVE  Items(Append(s, e)) = Items(s) \cup {e}
<1>1. /\ Len(Append(s, e)) = Len(s) + 1 /\ Len(s) \in Nat
      /\ \A i \in 1..Len(s) : Append(s, e)[i] = s[i]
      /\ Append(s, e)[Len(s) + 1] = e
  BY AppendProperties, LenProperties
<1>2. ASSUME NEW i \in 1..Len(s) + 1 PROVE Append(s, e)[i] \in Items(s) \cup {e}
  BY <1>1 DEF Items
<1>3. \A i \in 1..Len(s) : i \in 1..Len(s) + 1
  BY <1>1
<1>4. Items(s) \subseteq Items(Append(s, e))
  BY <1>1, <1>3 DEF Items
<1>5. e \in Items(Append(s, e))
  BY <1>1 DEF Items
<1>6. Items(Append(s, e)) \subseteq Items(s) \cup {e}
  BY <1>1, <1>2 DEF Items
<1> QED
  BY <1>4, <1>5, <1>6

LEMMA ItemsOfParts ==
    ASSUME NEW S, NEW s \in Seq(S), NEW k \in 1..Len(s)
    PROVE  Items(SubSeq(s, 1, k)) \cup Items(SubSeq(s, k + 1, Len(s))) = Items(s)
<1> DEFINE l == SubSeq(s, 1, k)
           r == SubSeq(s, k + 1, Len(s))
<1>1. /\ Len(s) \in Nat /\ k \in Nat /\ k =< Len(s) /\ k >= 1
      /\ Len(l) = k /\ \A i \in 1..k : l[i] = s[i]
      /\ Len(r) = Len(s) - k /\ \A i \in 1..Len(s) - k : r[i] = s[i + k]
  BY SplitSeq, LenProperties
<1> HIDE DEF l, r
<1>2. ASSUME NEW i \in 1..Len(s) PROVE s[i] \in Items(l) \cup Items(r)
  <2>1. CASE i =< k
    BY <1>1, <2>1 DEF Items
  <2>2. CASE i > k
    <3>1. i - k \in 1..Len(r) /\ r[i - k] = s[i]
      BY <1>1, <2>2
    <3> QED
      BY <3>1 DEF Items
  <2> QED
    BY <1>1, <2>1, <2>2
<1>3. Items(l) \subseteq Items(s)
  BY <1>1 DEF Items
<1>4. ASSUME NEW i \in 1..Len(r) PROVE r[i] \in Items(s)
  <2>1. i + k \in 1..Len(s) /\ r[i] = s[i + k]
    BY <1>1
  <2> QED
    BY <2>1 DEF Items
<1> QED
  BY <1>2, <1>3, <1>4 DEF Items, l, r

LEMMA InHandOfCons ==
    ASSUME NEW f \in Frame, NEW s \in Seq(Frame)
    PROVE  InHand(<<f>> \o s) = Held(f) \cup InHand(s)
<1> DEFINE t == <<f>> \o s
<1>1. /\ <<f>> \in Seq(Frame) /\ Len(<<f>>) = 1 /\ <<f>>[1] = f /\ Len(s) \in Nat
  BY LenProperties
<1>2. /\ Len(t) = 1 + Len(s)
      /\ \A i \in 1..1 + Len(s) : t[i] = IF i =< 1 THEN <<f>>[i] ELSE s[i - 1]
  BY <1>1, ConcatProperties
<1> HIDE DEF t
<1>3. ASSUME NEW i \in 1..Len(t) PROVE Held(t[i]) \subseteq Held(f) \cup InHand(s)
  <2>1. CASE i = 1
    BY <1>1, <1>2, <2>1
  <2>2. CASE i # 1
    <3>1. i - 1 \in 1..Len(s) /\ t[i] = s[i - 1]
      BY <1>1, <1>2, <2>2
    <3> QED
      BY <3>1 DEF InHand
  <2> QED
    BY <2>1, <2>2
<1>4. Held(f) \subseteq InHand(t)
  <2>1. 1 \in 1..Len(t) /\ t[1] = f
    BY <1>1, <1>2
  <2> QED
    BY <2>1 DEF InHand
<1>5. ASSUME NEW i \in 1..Len(s) PROVE Held(s[i]) \subseteq InHand(t)
  <2>1. i + 1 \in 1..Len(t) /\ t[i + 1] = s[i]
    BY <1>1, <1>2
  <2> QED
    BY <2>1 DEF InHand
<1> QED
  BY <1>3, <1>4, <1>5 DEF InHand, t

LEMMA InHandOfTop ==
    ASSUME NEW s \in Seq(Frame), s # <<>>
    PROVE  InHand(s) = Held(Head(s)) \cup InHand(Tail(s))
<1>1. Head(s) \in Frame /\ Tail(s) \in Seq(Frame) /\ <<Head(s)>> \o Tail(s) = s
  BY HeadTailProperties
<1> QED
  BY <1>1, InHandOfCons

LEMMA InHandEmpty == InHand(<<>>) = {}
BY EmptySeq DEF InHand

-----------------------------------------------------------------------------
\* No step but Apply takes an announcement out of a call's hands.

LEMMA NewTopHands ==
    ASSUME Inv, NEW c \in Call, stack[c] # <<>>, NEW f \in Frame, ReplaceTop(c, f)
    PROVE  /\ InHand(stack'[c]) = Held(f) \cup InHand(Tail(stack[c]))
           /\ InHand(stack[c]) = Held(Top(c)) \cup InHand(Tail(stack[c]))
<1>1. stack[c] \in Seq(Frame) /\ Tail(stack[c]) \in Seq(Frame)
  BY HeadTailProperties DEF Inv, TypeOK
<1>2. stack'[c] = <<f>> \o Tail(stack[c])
  BY DEF ReplaceTop, Inv, TypeOK
<1> QED
  BY <1>1, <1>2, InHandOfCons, InHandOfTop DEF Top

LEMMA StepHands ==
    ASSUME Inv, NEW c \in Call, Step(c)
    PROVE  IF Apply(c)
           THEN InHand(stack[c]) = InHand(stack'[c]) \cup {Head(Top(c).group)}
           ELSE InHand(stack'[c]) = InHand(stack[c])
<1> DEFINE f == Top(c)
<1>0. ASSUME stack[c] # <<>>
      PROVE  /\ f \in Frame /\ FrameOK(f) /\ FramesOK(Tail(stack[c]))
             /\ f.todo \in Seq(Announcement) /\ f.group \in Seq(Announcement)
             /\ f.nested \in Seq(Announcement)
  BY <1>0, TopFrame DEF Frame
<1>1. CASE Lookup(c)
  <2>1. stack[c] # <<>> /\ f.group = <<>> /\ f.nested = <<>> /\ f.todo # <<>>
    BY <1>1 DEF Lookup, Active, GroupDone
  <2>2. PICK k \in 1..Len(f.todo) :
          ReplaceTop(c, [f EXCEPT !.entry = Child(f.node, f.todo[1].path),
                                  !.group = SubSeq(f.todo, 1, k),
                                  !.todo = SubSeq(f.todo, k + 1, Len(f.todo)),
                                  !.missed = Child(f.node, f.todo[1].path) \notin nodes])
    BY <1>1 DEF Lookup
  <2> DEFINE g == [f EXCEPT !.entry = Child(f.node, f.todo[1].path),
                            !.group = SubSeq(f.todo, 1, k),
                            !.todo = SubSeq(f.todo, k + 1, Len(f.todo)),
                            !.missed = Child(f.node, f.todo[1].path) \notin nodes]
  <2>3. /\ 1 \in 1..Len(f.todo)
        /\ SubSeq(f.todo, 1, k) \in Seq(Announcement)
        /\ SubSeq(f.todo, k + 1, Len(f.todo)) \in Seq(Announcement)
    BY <1>0, <2>1, SplitSeq, LenProperties
  <2>4. Child(f.node, f.todo[1].path) \in Path
    <3>1. f.todo[1] \in Announcement /\ Below(f.node, f.todo[1].path)
      BY <1>0, <2>1, <2>3, ElementOfSeq DEF FrameOK
    <3>2. f.todo[1].path \in Path /\ f.node \in Place
      BY <1>0, <2>1, <3>1 DEF Announcement, Frame, Place
    <3> QED
      BY <3>1, <3>2, ChildOnPath
  <2>5. /\ g \in Frame /\ g.nested = <<>>
        /\ g.group = SubSeq(f.todo, 1, k)
        /\ g.todo = SubSeq(f.todo, k + 1, Len(f.todo))
    BY <1>0, <2>1, <2>3, <2>4 DEF Frame
  <2>6. ASSUME NEW h, h = g PROVE Held(h) = Held(f)
    <3>1. /\ h.nested = <<>> /\ h.group = SubSeq(f.todo, 1, k)
          /\ h.todo = SubSeq(f.todo, k + 1, Len(f.todo))
      BY <2>5, <2>6
    <3>2. Items(h.group) \cup Items(h.todo) = Items(f.todo)
      BY <1>0, <2>1, <3>1, ItemsOfParts
    <3> QED
      BY <2>1, <3>1, <3>2, ItemsEmpty DEF Held
  <2>7. ~Apply(c) /\ ReplaceTop(c, g)
    BY <2>1, <2>2 DEF Apply
  <2>8. g \in Frame /\ Held(g) = Held(f)
    BY <2>5, <2>6
  <2> HIDE DEF g
  <2> QED
    BY <2>1, <2>7, <2>8, NewTopHands
<1>2. CASE Create(c)
  <2>1. stack[c] # <<>> /\ f.missed /\ ReplaceTop(c, [f EXCEPT !.missed = FALSE])
    BY <1>2 DEF Create, Active
  <2>2. ASSUME NEW h, h = [f EXCEPT !.missed = FALSE] PROVE h \in Frame /\ Held(h) = Held(f)
    BY <1>0, <2>1, <2>2 DEF Frame, Held
  <2>3. ~Apply(c)
    BY <2>1 DEF Apply
  <2> QED
    BY <2>1, <2>2, <2>3, NewTopHands
<1>3. CASE Descend(c)
  <2> DEFINE a == Head(f.group)
             g == [f EXCEPT !.group = Tail(@), !.nested = Append(@, a)]
  <2>1. stack[c] # <<>> /\ f.group # <<>> /\ ReplaceTop(c, g) /\ ~Apply(c)
    BY <1>3 DEF Descend, Active, Apply
  <2>2. a \in Announcement /\ Tail(f.group) \in Seq(Announcement)
    BY <1>0, <2>1, HeadTailProperties
  <2>3. /\ g \in Frame /\ g.todo = f.todo /\ g.group = Tail(f.group)
        /\ g.nested = Append(f.nested, a)
    <3>1. Append(f.nested, a) \in Seq(Announcement)
      BY <1>0, <2>1, <2>2, AppendProperties
    <3> HIDE DEF a
    <3> QED
      BY <1>0, <2>1, <2>2, <3>1 DEF Frame
  <2>4. Items(f.group) = {a} \cup Items(Tail(f.group))
    BY <1>0, <2>1, ItemsOfTail
  <2>5. Items(Append(f.nested, a)) = Items(f.nested) \cup {a}
    BY <1>0, <2>1, <2>2, ItemsOfAppend
  <2>6. ASSUME NEW h, h = g PROVE Held(h) = Held(f)
    BY <2>3, <2>4, <2>5, <2>6 DEF Held
  <2>7. g \in Frame /\ Held(g) = Held(f)
    BY <2>3, <2>6
  <2> HIDE DEF a, g
  <2> QED
    BY <2>1, <2>7, NewTopHands
<1>4. CASE Apply(c)
  <2> DEFINE g == [f EXCEPT !.group = Tail(@)]
  <2>1. stack[c] # <<>> /\ f.group # <<>> /\ ReplaceTop(c, g)
    BY <1>4 DEF Apply, Active
  <2>2. Tail(f.group) \in Seq(Announcement)
    BY <1>0, <2>1, HeadTailProperties
  <2>3. g \in Frame /\ g.todo = f.todo /\ g.group = Tail(f.group) /\ g.nested = f.nested
    BY <1>0, <2>1, <2>2 DEF Frame
  <2>4. Items(f.group) = {Head(f.group)} \cup Items(Tail(f.group))
    BY <1>0, <2>1, ItemsOfTail
  <2>5. ASSUME NEW h, h = g PROVE Held(f) = Held(h) \cup {Head(f.group)}
    BY <2>3, <2>4, <2>5 DEF Held
  <2> QED
    BY <1>4, <2>1, <2>3, <2>5, NewTopHands
<1>5. CASE EnterDir(c)
  <2> DEFINE g == [f EXCEPT !.nested = <<>>]
             e == NewFrame(f.entry, f.nested)
  <2>1. /\ stack[c] # <<>> /\ f.group = <<>> /\ f.nested # <<>> /\ ~Apply(c)
        /\ stack' = [stack EXCEPT ![c] = <<e, g>> \o Tail(stack[c])]
    BY <1>5 DEF EnterDir, Active, Apply
  <2>2. g \in Frame /\ g.todo = f.todo /\ g.group = <<>> /\ g.nested = <<>>
    BY <1>0, <2>1 DEF Frame
  <2>3. e \in Frame /\ e.todo = f.nested /\ e.group = <<>> /\ e.nested = <<>>
    BY <1>0, <2>1 DEF Frame, NewFrame
  <2>4. Tail(stack[c]) \in Seq(Frame) /\ stack[c] \in Seq(Frame)
    BY <1>0, <2>1 DEF FramesOK, Inv, TypeOK
  <2>5. Held(f) = Items(f.todo) \cup Items(f.nested)
    BY <2>1, ItemsEmpty DEF Held
  <2>6. ASSUME NEW h, h = g PROVE Held(h) = Items(f.todo)
    BY <2>2, <2>6, ItemsEmpty DEF Held
  <2>7. Held(e) = Items(f.nested)
    BY <2>3, ItemsEmpty DEF Held
  <2>8. stack'[c] = <<e>> \o (<<g>> \o Tail(stack[c]))
    <3>1. stack'[c] = <<e, g>> \o Tail(stack[c])
      BY <2>1 DEF Inv, TypeOK
    <3> QED
      BY <3>1, <2>2, <2>3, <2>4
  <2>9. <<g>> \o Tail(stack[c]) \in Seq(Frame)
    BY <2>2, <2>4
  <2>10. InHand(stack'[c]) = Held(e) \cup (Held(g) \cup InHand(Tail(stack[c])))
    BY <2>2, <2>3, <2>4, <2>8, <2>9, InHandOfCons
  <2>11. InHand(stack[c]) = Held(f) \cup InHand(Tail(stack[c]))
    BY <2>1, <2>4, InHandOfTop DEF Top
  <2> QED
    BY <2>1, <2>5, <2>6, <2>7, <2>10, <2>11
<1>6. CASE Return(c)
  <2>1. /\ stack[c] # <<>> /\ f.group = <<>> /\ f.nested = <<>> /\ f.todo = <<>>
        /\ stack'[c] = Tail(stack[c]) /\ stack[c] \in Seq(Frame)
    BY <1>6 DEF Return, Active, GroupDone, Inv, TypeOK
  <2>2. Held(f) = {}
    BY <2>1, ItemsEmpty DEF Held
  <2>3. ~Apply(c)
    BY <2>1 DEF Apply
  <2> QED
    BY <2>1, <2>2, <2>3, InHandOfTop DEF Top
<1>7. CASE (ReadChild(c) \/ SetOwner(c)) /\ ~Apply(c)
  BY <1>7 DEF ReadChild, SetOwner
<1> QED
  BY <1>1, <1>2, <1>3, <1>4, <1>5, <1>6, <1>7 DEF Step

-----------------------------------------------------------------------------
\* Where announcements come from, and what has become of each entry.

\* A call has nothing in its hands but what it was given.
Fed == \A c \in Call : InHand(stack[c]) \subseteq Items(files[c])

\* recalculateOwner works on a directory, and it stays one.
RecalcsDirs == \A c \in Call : recalc[c].dir # Root => stat[recalc[c].dir].dir

\* Paths without a TreeNode have had no information yet.
Untouched == \A p \in Path \ nodes : stat[p] = FreshStat

FedInv == LockInv /\ Fed /\ RecalcsDirs /\ Untouched

\* A step of a call leaves the other calls and all arguments alone.
LEMMA StepLocal ==
    ASSUME Inv, NEW c \in Call, Step(c)
    PROVE  /\ files' = files
           /\ \A d \in Call : d # c => stack'[d] = stack[d] /\ recalc'[d] = recalc[d]
BY DEF Step, Lookup, Create, Descend, Apply, EnterDir, Return, ReadChild, SetOwner,
       ReplaceTop, Inv, TypeOK

\* The TreeNodes a step changes: the entry the frame has in hand, in the tree
\* after the step, or the directory that is being recalculated.
LEMMA StepStat ==
    ASSUME LockInv, NEW c \in Call, Step(c)
    PROVE  \/ UNCHANGED <<nodes, stat>>
           \/ /\ Create(c) /\ stack[c] # <<>> /\ Top(c).missed /\ Top(c).entry \in Path
              /\ Top(c).entry \notin nodes /\ nodes' = nodes \cup {Top(c).entry}
              /\ stat' = [stat EXCEPT ![Top(c).entry] = FreshStat]
           \/ /\ Apply(c) /\ stack[c] # <<>> /\ Top(c).group # <<>> /\ Top(c).entry \in nodes
              /\ nodes' = nodes
              /\ stat' = [stat EXCEPT ![Top(c).entry] = Merge(@, Head(Top(c).group))]
           \/ /\ EnterDir(c) /\ stack[c] # <<>> /\ Top(c).nested # <<>> /\ Top(c).entry \in nodes
              /\ nodes' = nodes
              /\ stat' = [stat EXCEPT ![Top(c).entry] = AsDir(@)]
           \/ /\ SetOwner(c) /\ recalc[c].dir # Root /\ recalc[c].dir \in nodes
              /\ nodes' = nodes
              /\ stat' = [stat EXCEPT ![recalc[c].dir].owner = recalc[c].owner]
<1>1. CASE Create(c)
  <2>1. stack[c] # <<>> /\ Top(c).missed
    BY <1>1 DEF Create, Active
  <2>2. Top(c).entry \in Path
    BY <2>1, TopFrame DEF LockInv, FrameOK
  <2> QED
    BY <1>1, <2>1, <2>2 DEF Create
<1>2. CASE Apply(c)
  <2>1. stack[c] # <<>> /\ Top(c).group # <<>> /\ ~Top(c).missed
    BY <1>2 DEF Apply, Active
  <2>2. Top(c).entry \in nodes
    BY <2>1, TopPresent DEF Present
  <2> QED
    BY <1>2, <2>1, <2>2 DEF Apply
<1>3. CASE EnterDir(c)
  <2>1. stack[c] # <<>> /\ Top(c).nested # <<>> /\ ~Top(c).missed
    BY <1>3 DEF EnterDir, Active
  <2>2. Top(c).entry \in nodes
    BY <2>1, TopPresent DEF Present
  <2> QED
    BY <1>3, <2>1, <2>2 DEF EnterDir
<1>4. CASE SetOwner(c)
  BY <1>4 DEF SetOwner, LockInv, LocksOK
<1>5. CASE Lookup(c) \/ Descend(c) \/ Return(c) \/ ReadChild(c)
  BY <1>5 DEF Lookup, Descend, Return, ReadChild
<1> QED
  BY <1>1, <1>2, <1>3, <1>4, <1>5 DEF Step

LEMMA InitFed == Init => FedInv
<1> SUFFICES ASSUME Init PROVE FedInv
  OBVIOUS
<1>1. Fed /\ RecalcsDirs /\ Untouched
  BY InHandEmpty DEF Init, Fed, RecalcsDirs, Untouched, NotRecalculating
<1> QED
  BY <1>1, InitLock DEF FedInv

LEMMA UpdateHands ==
    ASSUME Inv, NEW c \in Call, NEW fs \in Lists, Update(c, fs)
    PROVE  /\ files[c] = <<>> /\ files'[c] = fs /\ InHand(stack'[c]) = Items(fs)
           /\ \A d \in Call : d # c => stack'[d] = stack[d] /\ files'[d] = files[d]
<1>1. fs \in Seq(Announcement)
  BY ListAssumption
<1> DEFINE f == NewFrame(Root, fs)
<1>2. f \in Frame /\ f.todo = fs /\ f.group = <<>> /\ f.nested = <<>>
  BY <1>1 DEF NewFrame, Frame
<1>3. Held(f) = Items(fs)
  BY <1>2, ItemsEmpty DEF Held
<1>4. <<f>> \o <<>> = <<f>> /\ <<>> \in Seq(Frame)
  BY <1>2
<1>5. InHand(<<f>>) = Held(f)
  BY <1>2, <1>4, InHandOfCons, InHandEmpty
<1>6. stack'[c] = <<f>>
  BY DEF Update, Inv, TypeOK
<1> QED
  BY <1>3, <1>5, <1>6 DEF Update, Inv, TypeOK

LEMMA StepFed == FedInv /\ [Next]_vars => FedInv'
<1> SUFFICES ASSUME FedInv, [Next]_vars PROVE Fed' /\ RecalcsDirs' /\ Untouched'
  BY LockStep DEF FedInv
<1>0. /\ Inv /\ LockInv /\ nodes \subseteq Path /\ stat \in [Path -> Stat]
      /\ recalc \in [Call -> Recalc]
  BY DEF FedInv, LockInv, Inv, TypeOK
<1>1. ASSUME NEW c \in Call, Step(c) PROVE Fed' /\ RecalcsDirs' /\ Untouched'
  <2>1. Fed'
    BY <1>0, <1>1, StepHands, StepLocal DEF FedInv, Fed
  <2>2. Untouched'
    <3>1. \A p \in Path \ nodes' : p \notin nodes /\ stat'[p] = stat[p]
      BY <1>0, <1>1, StepStat
    <3> QED
      BY <3>1 DEF FedInv, Untouched
  <2>3. ASSUME NEW d \in Call, recalc'[d].dir # Root PROVE stat'[recalc'[d].dir].dir
    <3>1. CASE recalc'[d].dir = recalc[d].dir
      BY <1>0, <1>1, <2>3, <3>1, StepStable DEF FedInv, RecalcsDirs
    <3>2. CASE recalc'[d].dir # recalc[d].dir
      <4>1. d = c
        BY <1>0, <1>1, <3>2, StepLocal
      <4>2. Return(c)
        <5>1. CASE SetOwner(c)
          BY <1>0, <2>3, <4>1, <5>1 DEF SetOwner, NotRecalculating
        <5>2. CASE ReadChild(c)
          <6>1. PICK q \in recalc[c].unread :
                  recalc' = [recalc EXCEPT ![c].unread = @ \ {q},
                                           ![c].owner = CombineOwner(@, stat[q].owner)]
            BY <5>2 DEF ReadChild
          <6>2. recalc'[c].dir = recalc[c].dir
            BY <1>0, <6>1 DEF Recalc
          <6> QED
            BY <3>2, <4>1, <6>2
        <5> QED
          BY <1>1, <3>2, <5>1, <5>2 DEF Step, Lookup, Create, Descend, Apply, EnterDir
      <4>3. stat' = stat /\ recalc'[d].dir = Top(c).node /\ stat[Top(c).node].dir
        BY <1>0, <2>3, <4>1, <4>2 DEF Return, NotRecalculating
      <4> QED
        BY <4>3
    <3> QED
      BY <3>1, <3>2
  <2> QED
    BY <2>1, <2>2, <2>3 DEF RecalcsDirs
<1>2. ASSUME NEW c \in Call, NEW fs \in Lists, Update(c, fs)
      PROVE  Fed' /\ RecalcsDirs' /\ Untouched'
  <2>1. Fed'
    BY <1>0, <1>2, UpdateHands DEF FedInv, Fed
  <2> QED
    BY <1>2, <2>1 DEF Update, FedInv, RecalcsDirs, Untouched
<1>3. CASE UNCHANGED vars
  BY <1>3 DEF vars, FedInv, Fed, RecalcsDirs, Untouched
<1> QED
  BY <1>1, <1>2, <1>3 DEF Next

-----------------------------------------------------------------------------
\* The newest announcement wins, and removals remove files.

\* A removal that is announced is one of a child of the root.  (For others the
\* announcement is applied to a directory above the file.)
TopRemovals == \A fs \in Lists : \A i \in 1..Len(fs) : fs[i].del => Len(fs[i].path) = 1

LEMMA DeliveredItems == Delivered = UNION {Items(files[c]) : c \in Call}
BY DEF Delivered, Items

\* What a call has been given comes from a list.
LEMMA ItemOfList ==
    ASSUME Inv, NEW c \in Call, NEW a \in Items(files[c])
    PROVE  /\ a \in Announcement /\ a \in Delivered /\ files[c] \in Lists
           /\ \E i \in 1..Len(files[c]) : a = files[c][i]
           /\ TopRemovals /\ a.del => Len(a.path) = 1
<1>1. files[c] \in Lists
  BY ItemsEmpty DEF Inv, TypeOK
<1>2. PICK i \in 1..Len(files[c]) : a = files[c][i]
  BY DEF Items
<1>3. a \in Announcement
  BY <1>1, <1>2, ListAssumption, ElementOfSeq
<1>4. a \in Delivered
  BY DeliveredItems
<1> QED
  BY <1>1, <1>2, <1>3, <1>4 DEF TopRemovals

\* The announcement that Apply adopts, and the entry it adopts it for.
LEMMA AppliedItem ==
    ASSUME FedInv, NEW c \in Call, stack[c] # <<>>, Top(c).group # <<>>
    PROVE  LET f == Top(c)
               a == Head(f.group)
           IN  /\ a \in Items(files[c]) /\ a \in Announcement
               /\ Below(f.node, a.path) /\ f.entry = Child(f.node, a.path)
               /\ f.node \in Place
               /\ IsLeaf(f.node, a) => a.path = f.entry
               /\ TopRemovals /\ a.del => a.path = f.entry
<1> DEFINE f == Top(c)
           a == Head(f.group)
<1>1. Inv /\ f \in Frame /\ FrameOK(f) /\ stack[c] \in Seq(Frame)
  BY TopFrame DEF FedInv, LockInv, Inv, TypeOK
<1>2. /\ a \in Announcement /\ a.path \in Path
      /\ Below(f.node, a.path) /\ f.entry = Child(f.node, a.path)
  BY <1>1, HeadOfGroup
<1>3. a \in Items(files[c])
  <2>1. f.group \in Seq(Announcement)
    BY <1>1 DEF Frame
  <2>2. a \in Items(f.group)
    BY <2>1, ItemsOfTail
  <2>3. Held(f) \subseteq InHand(stack[c])
    BY <1>1, InHandOfTop DEF Top
  <2> QED
    BY <2>2, <2>3 DEF FedInv, Fed, Held
<1>4. /\ f.node \in Place /\ Len(f.node) \in Nat /\ a.path \in Seq(Component)
      /\ Len(a.path) \in Nat /\ Len(a.path) > Len(f.node)
  BY <1>1, <1>2, PlaceIsSeq DEF Frame, Place, Below
<1>5. ASSUME IsLeaf(f.node, a) PROVE a.path = f.entry
  <2>1. f.entry = SubSeq(a.path, 1, Len(a.path))
    BY <1>2, <1>5 DEF IsLeaf, Child
  <2> QED
    BY <2>1, <1>4
<1>6. ASSUME TopRemovals, a.del PROVE a.path = f.entry
  <2>1. Len(a.path) = 1
    BY <1>1, <1>3, <1>6, ItemOfList
  <2>2. IsLeaf(f.node, a)
    BY <2>1, <1>4 DEF IsLeaf
  <2> QED
    BY <2>2, <1>5
<1> QED
  BY <1>2, <1>3, <1>4, <1>5, <1>6

Taken(a) == a.path \in nodes /\ stat[a.path].stamp >= a.stamp

\* Nothing is lost between the argument of a call and the tree.
NothingLost ==
    \A c \in Call : \A a \in Items(files[c]) : a \in InHand(stack[c]) \/ Taken(a)

\* A file has the time and the owner of one announcement of it.
FromOffers ==
    \A p \in nodes : stat[p].stamp > 0 /\ ~stat[p].dir =>
        \E a \in Delivered :
            a.path = p /\ a.stamp = stat[p].stamp /\ a.owner = stat[p].owner /\ ~a.dir

TakenInv == FedInv /\ NothingLost /\ FromOffers /\ OnlyRemovedFilesAreGone

LEMMA StepTaken ==
    ASSUME TopRemovals, TakenInv, [Next]_vars
    PROVE  NothingLost' /\ FromOffers' /\ OnlyRemovedFilesAreGone'
<1>0. /\ Inv /\ LockInv /\ FedInv /\ nodes \subseteq Path /\ stat \in [Path -> Stat]
  BY DEF TakenInv, FedInv, LockInv, Inv, TypeOK
<1>1. ASSUME NEW c \in Call, Step(c)
      PROVE  NothingLost' /\ FromOffers' /\ OnlyRemovedFilesAreGone'
  <2>1. files' = files /\ Delivered' = Delivered
    BY <1>0, <1>1, StepLocal DEF Delivered
  <2>2. /\ nodes \subseteq nodes'
        /\ \A p \in nodes : stat'[p].stamp >= stat[p].stamp
        /\ \A p \in nodes : stat[p].stamp \in Nat
    BY <1>0, <1>1, StepNotOlder DEF Stat
  <2>3. \A p \in nodes' : stat'[p].stamp \in Nat
    <3>1. Inv'
      BY <1>0, <1>1, NextInv DEF Next
    <3> QED
      BY <3>1 DEF Inv, TypeOK, Stat
  <2>4. ASSUME NEW a \in Announcement, Taken(a) PROVE Taken(a)'
    <3>1. a.stamp \in Nat
      BY DEF Announcement
    <3> QED
      BY <2>2, <2>3, <2>4, <3>1 DEF Taken
  <2>5. CASE ~Apply(c)
    <3>1. \A d \in Call : InHand(stack'[d]) = InHand(stack[d])
      BY <1>0, <1>1, <2>5, StepHands, StepLocal
    <3>2. NothingLost'
      <4>1. ASSUME NEW d \in Call, NEW a \in Items(files[d])
            PROVE  a \in InHand(stack'[d]) \/ Taken(a)'
        BY <1>0, <2>4, <3>1, <4>1, ItemOfList DEF TakenInv, NothingLost
      <4> QED
        BY <2>1, <4>1 DEF NothingLost
    <3>3. \A p \in nodes' :
            \/ p \in nodes /\ stat'[p] = stat[p]
            \/ stat'[p] = FreshStat
            \/ p \in nodes /\ stat'[p].dir /\ (stat'[p].gone => stat[p].gone)
      <4>1. CASE UNCHANGED <<nodes, stat>>
        BY <4>1
      <4>2. CASE /\ Top(c).entry \in Path /\ nodes' = nodes \cup {Top(c).entry}
                 /\ stat' = [stat EXCEPT ![Top(c).entry] = FreshStat]
        BY <1>0, <4>2
      <4>3. CASE /\ nodes' = nodes
                 /\ stat' = [stat EXCEPT ![Top(c).entry] = AsDir(@)]
        BY <1>0, <4>3 DEF AsDir, Stat
      <4>4. CASE /\ recalc[c].dir # Root /\ nodes' = nodes
                 /\ stat' = [stat EXCEPT ![recalc[c].dir].owner = recalc[c].owner]
        BY <1>0, <4>4 DEF FedInv, RecalcsDirs, Stat
      <4> QED
        BY <1>0, <1>1, <2>5, <4>1, <4>2, <4>3, <4>4, StepStat
    <3>4. FreshStat.stamp = 0 /\ FreshStat.gone = FALSE
      BY DEF FreshStat
    <3> QED
      BY <2>1, <3>2, <3>3, <3>4 DEF TakenInv, FromOffers, OnlyRemovedFilesAreGone
  <2>6. CASE Apply(c)
    <3>0. PICK p, a : p = Top(c).entry /\ a = Head(Top(c).group)
      OBVIOUS
    <3>1. /\ stack[c] # <<>> /\ Top(c).group # <<>> /\ p \in nodes /\ nodes' = nodes
          /\ stat' = [stat EXCEPT ![p] = Merge(@, a)]
          /\ IsLeaf(Top(c).node, a) \/ a.del
      <4>1. /\ stack[c] # <<>> /\ Top(c).group # <<>> /\ ~Top(c).missed
            /\ IsLeaf(Top(c).node, a) \/ a.del
        BY <2>6, <3>0 DEF Apply, Active
      <4>2. p \in nodes
        BY <1>0, <3>0, <4>1, TopPresent DEF Present
      <4> QED
        BY <2>6, <3>0, <4>1, <4>2 DEF Apply
    <3>2. a \in Items(files[c]) /\ a \in Announcement /\ a.path = p
      BY <1>0, <3>0, <3>1, AppliedItem
    <3>3. a \in Delivered
      BY <1>0, <3>2, ItemOfList
    <3>4. InHand(stack[c]) = InHand(stack'[c]) \cup {a}
      BY <1>0, <1>1, <2>6, <3>0, StepHands
    <3>5. stat'[p] = Merge(stat[p], a) /\ stat[p] \in Stat
          /\ \A q \in nodes : q # p => stat'[q] = stat[q]
      BY <1>0, <3>1
    <3>6. CASE a.stamp > stat[p].stamp
      <4>1. /\ stat'[p].stamp = a.stamp /\ stat'[p].dir = a.dir /\ stat'[p].gone = a.del
            /\ ~a.dir => stat'[p].owner = a.owner
        BY <3>5, <3>6 DEF Merge, Overwrite
      <4>2. Taken(a)'
        BY <3>1, <3>2, <4>1 DEF Taken, Announcement
      <4>3. NothingLost'
        <5>1. ASSUME NEW d \in Call, NEW b \in Items(files[d])
              PROVE  b \in InHand(stack'[d]) \/ Taken(b)'
          BY <1>0, <1>1, <2>4, <3>4, <4>2, <5>1, ItemOfList, StepLocal DEF TakenInv, NothingLost
        <5> QED
          BY <2>1, <5>1 DEF NothingLost
      <4>4. FromOffers'
        BY <2>1, <3>1, <3>2, <3>3, <3>5, <4>1 DEF TakenInv, FromOffers
      <4>5. OnlyRemovedFilesAreGone'
        BY <2>1, <3>1, <3>2, <3>3, <3>5, <4>1 DEF TakenInv, OnlyRemovedFilesAreGone
      <4> QED
        BY <4>3, <4>4, <4>5
    <3>7. CASE ~(a.stamp > stat[p].stamp)
      <4>1. stat'[p] = stat[p]
        BY <3>5, <3>7 DEF Merge
      <4>2. Taken(a)'
        BY <2>3, <3>1, <3>2, <3>5, <3>7, <4>1 DEF Taken, Announcement, Stat
      <4>3. NothingLost'
        <5>1. ASSUME NEW d \in Call, NEW b \in Items(files[d])
              PROVE  b \in InHand(stack'[d]) \/ Taken(b)'
          BY <1>0, <1>1, <2>4, <3>4, <4>2, <5>1, ItemOfList, StepLocal DEF TakenInv, NothingLost
        <5> QED
          BY <2>1, <5>1 DEF NothingLost
      <4> QED
        BY <2>1, <3>1, <3>5, <4>1, <4>3 DEF TakenInv, FromOffers, OnlyRemovedFilesAreGone
    <3> QED
      BY <3>6, <3>7
  <2> QED
    BY <2>5, <2>6
<1>2. ASSUME NEW c \in Call, NEW fs \in Lists, Update(c, fs)
      PROVE  NothingLost' /\ FromOffers' /\ OnlyRemovedFilesAreGone'
  <2>1. UNCHANGED <<nodes, stat>>
    BY <1>2 DEF Update
  <2>2. \A d \in Call : Items(files[d]) \subseteq Items(files'[d])
    BY <1>0, <1>2, UpdateHands, ItemsEmpty
  <2>3. Delivered \subseteq Delivered'
    <3>1. Delivered' = UNION {Items(files'[d]) : d \in Call}
      BY DEF Delivered, Items
    <3> QED
      BY <2>2, <3>1, DeliveredItems
  <2>4. NothingLost'
    BY <1>0, <1>2, <2>1, UpdateHands DEF TakenInv, NothingLost, Taken
  <2> QED
    BY <2>1, <2>3, <2>4 DEF TakenInv, FromOffers, OnlyRemovedFilesAreGone
<1>3. CASE UNCHANGED vars
  BY <1>3 DEF vars, TakenInv, NothingLost, Taken, FromOffers, OnlyRemovedFilesAreGone, Delivered
<1> QED
  BY <1>1, <1>2, <1>3 DEF Next

LEMMA TakenInvariant == ASSUME TopRemovals PROVE Spec => []TakenInv
<1>1. Init => TakenInv
  <2>1. Init => NothingLost /\ FromOffers /\ OnlyRemovedFilesAreGone
    BY ItemsEmpty DEF Init, NothingLost, FromOffers, OnlyRemovedFilesAreGone
  <2> QED
    BY <2>1, InitFed DEF TakenInv
<1>2. TakenInv /\ [Next]_vars => TakenInv'
  BY TopRemovals, StepFed, StepTaken DEF TakenInv
<1> QED
  BY <1>1, <1>2, PTL DEF Spec

\* NewestWins: whatever the lists, however many calls of Update interleave and
\* wherever, each path is left with the newest announcement of it.
THEOREM NewestStays == ASSUME TopRemovals PROVE Spec => []NewestWins
<1>1. TakenInv => NewestWins
  <2> SUFFICES ASSUME TakenInv, Quiescent, NEW p \in Path,
                      NEW b \in Delivered, b.path = p
               PROVE  LET offers == {a \in Delivered : a.path = p}
                      IN  /\ p \in nodes
                          /\ \A a \in offers : a.stamp =< stat[p].stamp
                          /\ ~stat[p].dir => \E a \in offers :
                                a.stamp = stat[p].stamp /\ a.owner = stat[p].owner /\ ~a.dir
    BY DEF NewestWins
  <2>1. Inv /\ stat \in [Path -> Stat]
    BY DEF TakenInv, FedInv, LockInv, Inv, TypeOK
  <2>2. ASSUME NEW a \in Delivered PROVE a \in Announcement /\ Taken(a)
    <3>1. PICK c \in Call : a \in Items(files[c])
      BY DeliveredItems
    <3>2. InHand(stack[c]) = {}
      BY InHandEmpty DEF Quiescent
    <3> QED
      BY <2>1, <3>1, <3>2, ItemOfList DEF TakenInv, NothingLost
  <2>3. p \in nodes /\ stat[p].stamp \in Nat /\ stat[p].stamp >= b.stamp
    BY <2>1, <2>2 DEF Taken, Stat
  <2>4. stat[p].stamp > 0
    BY <2>2, <2>3 DEF Announcement
  <2>5. \A a \in Delivered : a.path = p => a.stamp =< stat[p].stamp
    BY <2>2, <2>3 DEF Taken, Announcement
  <2> QED
    BY <2>3, <2>4, <2>5 DEF TakenInv, FromOffers
<1> QED
  BY <1>1, TakenInvariant, TopRemovals, PTL

\* OnlyRemovedFilesAreGone, as far as the code keeps it: no call marks another
\* entry than the one whose removal was announced, if that is a child of the
\* root; setAsDir takes the mark away.
THEOREM RemovalsInPlace == ASSUME TopRemovals PROVE Spec => []OnlyRemovedFilesAreGone
<1>1. TakenInv => OnlyRemovedFilesAreGone
  BY DEF TakenInv
<1> QED
  BY <1>1, TakenInvariant, TopRemovals, PTL

-----------------------------------------------------------------------------
\* Files: FatTree implements LastWriter.

\* Plain files have nothing below them and are not announced as directories.
LEMMA PlainItem ==
    ASSUME Inv, NEW c \in Call, NEW a \in Items(files[c]), NEW p \in PlainFile
    PROVE  /\ a.path = p => ~a.dir
           /\ ~Below(p, a.path)
<1>1. files[c] \in Lists /\ \E i \in 1..Len(files[c]) : a = files[c][i]
  BY ItemOfList
<1> QED
  BY <1>1 DEF PlainFile, Below

\* What update() has in hand and the entry it works on, as far as plain files go.
PlainFiles == \A p \in PlainFile : ~stat[p].dir

LEMMA PlainIsPath == PlainFile \subseteq Path
BY DEF PlainFile

\* A step of a call adopts one announcement of a plain file, if it is newer, or
\* leaves the plain files alone.
LEMMA StepPlain ==
    ASSUME FedInv, PlainFiles, NEW c \in Call, Step(c)
    PROVE  \/ \A p \in PlainFile : stat'[p] = stat[p]
           \/ \E a \in Delivered :
                /\ a.path \in PlainFile /\ a \in Announcement /\ ~a.dir
                /\ a.stamp > stat[a.path].stamp
                /\ stat' = [stat EXCEPT ![a.path] = Overwrite(@, a)]
<1>0. /\ Inv /\ LockInv /\ nodes \subseteq Path /\ stat \in [Path -> Stat]
  BY DEF FedInv, LockInv, Inv, TypeOK
<1>1. CASE UNCHANGED <<nodes, stat>>
  BY <1>1
<1>2. CASE /\ Top(c).entry \in Path \ nodes
           /\ stat' = [stat EXCEPT ![Top(c).entry] = FreshStat]
  BY <1>0, <1>2, PlainIsPath DEF FedInv, Untouched
<1>3. CASE /\ Apply(c) /\ stack[c] # <<>> /\ Top(c).group # <<>>
           /\ Top(c).entry \in nodes
           /\ stat' = [stat EXCEPT ![Top(c).entry] = Merge(@, Head(Top(c).group))]
  <2>1. PICK p, a : p = Top(c).entry /\ a = Head(Top(c).group)
    OBVIOUS
  <2>2. /\ a \in Items(files[c]) /\ a \in Announcement /\ Below(Top(c).node, a.path)
        /\ p = Child(Top(c).node, a.path) /\ Top(c).node \in Place
        /\ IsLeaf(Top(c).node, a) => a.path = p
    BY <1>3, <2>1, AppliedItem
  <2>3. stat' = [stat EXCEPT ![p] = Merge(@, a)]
    BY <1>3, <2>1
  <2>4. CASE p \notin PlainFile
    BY <1>0, <2>3, <2>4, PlainIsPath
  <2>5. CASE p \in PlainFile /\ a.stamp > stat[p].stamp
    <3>1. a.path = p
      <4>1. ~Below(Child(Top(c).node, a.path), a.path)
        BY <1>0, <2>2, <2>5, PlainItem
      <4>2. a.path \in Path
        BY <2>2 DEF Announcement
      <4>3. Len(a.path) = Len(Top(c).node) + 1
        BY <2>2, <4>1, <4>2, BelowChild
      <4> QED
        BY <2>2, <4>3 DEF IsLeaf
    <3>2. ~a.dir /\ a \in Delivered
      BY <1>0, <2>2, <2>5, <3>1, PlainItem, ItemOfList
    <3>3. stat' = [stat EXCEPT ![p] = Overwrite(@, a)]
      BY <1>0, <2>3, <2>5 DEF Merge
    <3> QED
      BY <2>2, <2>5, <3>1, <3>2, <3>3
  <2>6. CASE ~(a.stamp > stat[p].stamp)
    BY <1>0, <1>3, <2>1, <2>3, <2>6, PlainIsPath DEF Merge
  <2> QED
    BY <2>4, <2>5, <2>6
<1>4. CASE /\ EnterDir(c) /\ stack[c] # <<>> /\ Top(c).nested # <<>>
           /\ stat' = [stat EXCEPT ![Top(c).entry] = AsDir(@)]
  <2>1. Top(c).entry \notin PlainFile
    <3>1. Top(c) \in Frame /\ FrameOK(Top(c)) /\ stack[c] \in Seq(Frame)
      BY <1>0, <1>4, TopFrame DEF Inv, TypeOK
    <3>2. Top(c).nested \in Seq(Announcement) /\ 1 \in 1..Len(Top(c).nested)
      BY <1>4, <3>1, EmptySeq DEF Frame
    <3>3. Below(Top(c).entry, Top(c).nested[1].path)
      BY <3>1, <3>2 DEF FrameOK
    <3>4. Top(c).nested[1] \in Held(Top(c))
      BY <3>2 DEF Held, Items
    <3>5. Top(c).nested[1] \in Items(files[c])
      BY <1>4, <3>1, <3>4, InHandOfTop DEF Top, FedInv, Fed
    <3> QED
      BY <1>0, <3>3, <3>5, PlainItem
  <2> QED
    BY <1>0, <1>4, <2>1, PlainIsPath
<1>5. CASE /\ recalc[c].dir # Root
           /\ stat' = [stat EXCEPT ![recalc[c].dir].owner = recalc[c].owner]
  <2>1. recalc[c].dir \notin PlainFile
    BY <1>5 DEF PlainFiles, FedInv, RecalcsDirs
  <2> QED
    BY <1>0, <1>5, <2>1, PlainIsPath
<1> QED
  BY <1>0, <1>1, <1>2, <1>3, <1>4, <1>5, StepStat

\* What LastWriter sees of the tree and of the calls.
Entries == [p \in PlainFile |-> [stamp |-> stat[p].stamp, owner |-> stat[p].owner]]

Offers == {[file |-> a.path, stamp |-> a.stamp, owner |-> a.owner] :
              a \in {b \in Delivered : b.path \in PlainFile}}

LEMMA DeliveredAnnounced == Inv => \A a \in Delivered : a \in Announcement
BY DeliveredItems, ItemOfList

LEMMA InitRefines == Init => LW!Init
<1> SUFFICES ASSUME Init PROVE LW!Init
  OBVIOUS
<1>1. Delivered = {}
  BY EmptySeq DEF Init, Delivered
<1>2. \A p \in PlainFile : stat[p] = FreshStat
  BY PlainIsPath DEF Init
<1>3. FreshStat.stamp = 0 /\ FreshStat.owner = NoOwner
  BY DEF FreshStat
<1>4. Entries = [p \in PlainFile |-> [stamp |-> 0, owner |-> NoOwner]]
  BY <1>2, <1>3 DEF Entries
<1>5. Offers = {}
  BY <1>1 DEF Offers
<1> QED
  BY <1>4, <1>5 DEF LW!Init, Entries, Offers

LEMMA StepRefines ==
    ASSUME FedInv, PlainFiles, [Next]_vars
    PROVE  PlainFiles' /\ [LW!Next]_(LW!lwVars)
<1>0. /\ Inv /\ LockInv /\ nodes \subseteq Path /\ stat \in [Path -> Stat]
  BY DEF FedInv, LockInv, Inv, TypeOK
<1>1. ASSUME UNCHANGED stat, Delivered \subseteq Delivered', Inv'
      PROVE  PlainFiles' /\ [LW!Next]_(LW!lwVars)
  <2>1. PlainFiles' /\ Entries' = Entries
    BY <1>1 DEF PlainFiles, PlainFile, Entries
  <2>2. Offers \subseteq Offers'
    BY <1>1 DEF Offers, PlainFile
  <2>3. Offers' \subseteq LW!Offer
    <3>1. \A a \in Delivered' : a \in Announcement
      <4>1. (Inv => \A a \in Delivered : a \in Announcement)'
        BY DeliveredAnnounced, PTL
      <4> QED
        BY <1>1, <4>1
    <3> QED
      BY <3>1 DEF Offers, LW!Offer, Announcement, PlainFile
  <2> QED
    BY <2>1, <2>2, <2>3 DEF LW!Next, LW!Announce, Entries, Offers
<1>2. ASSUME NEW c \in Call, Step(c) PROVE PlainFiles' /\ [LW!Next]_(LW!lwVars)
  <2>1. Offers' = Offers
    <3>1. files' = files
      BY <1>0, <1>2, StepLocal
    <3>2. Delivered' = Delivered
      BY <3>1 DEF Delivered
    <3> QED
      BY <3>2 DEF Offers
  <2>2. CASE \A p \in PlainFile : stat'[p] = stat[p]
    <3>1. PlainFiles' /\ Entries' = Entries
      BY <2>2 DEF PlainFiles, PlainFile, Entries
    <3> QED
      BY <2>1, <3>1 DEF LW!lwVars, Entries, Offers
  <2>3. ASSUME NEW a \in Delivered, a.path \in PlainFile, a \in Announcement, ~a.dir,
               a.stamp > stat[a.path].stamp,
               stat' = [stat EXCEPT ![a.path] = Overwrite(@, a)]
        PROVE  PlainFiles' /\ [LW!Next]_(LW!lwVars)
    <3> DEFINE o == [file |-> a.path, stamp |-> a.stamp, owner |-> a.owner]
    <3>1. \A p \in PlainFile :
            stat'[p] = IF p = a.path THEN Overwrite(stat[p], a) ELSE stat[p]
      BY <1>0, <2>3, PlainIsPath
    <3>2. /\ Overwrite(stat[a.path], a).stamp = a.stamp
          /\ Overwrite(stat[a.path], a).owner = a.owner
          /\ Overwrite(stat[a.path], a).dir = a.dir
      BY <2>3 DEF Overwrite
    <3>3. PlainFiles'
      BY <2>3, <3>1, <3>2 DEF PlainFiles, PlainFile
    <3>4. o \in Offers
      BY <2>3 DEF Offers
    <3>5. Entries' = [Entries EXCEPT ![o.file] = [stamp |-> o.stamp, owner |-> o.owner]]
      <4>1. Entries' = [p \in PlainFile |->
                          [stamp |-> stat'[p].stamp, owner |-> stat'[p].owner]]
        BY DEF Entries
      <4>2. /\ stat'[a.path].stamp = a.stamp /\ stat'[a.path].owner = a.owner
            /\ \A p \in PlainFile : p # a.path => stat'[p] = stat[p]
        BY <2>3, <3>1, <3>2
      <4> QED
        BY <2>3, <4>1, <4>2 DEF Entries
    <3>6. o.stamp > Entries[o.file].stamp
      BY <2>3 DEF Entries
    <3>7. LW!Adopt(o)
      BY <2>1, <3>5, <3>6 DEF LW!Adopt, Entries, Offers
    <3>8. LW!Next
      BY <3>4, <3>7 DEF LW!Next, Offers
    <3> QED
      BY <3>3, <3>8
  <2> QED
    BY <1>2, <2>2, <2>3, StepPlain
<1>3. ASSUME NEW c \in Call, NEW fs \in Lists, Update(c, fs)
      PROVE  PlainFiles' /\ [LW!Next]_(LW!lwVars)
  <2>1. UNCHANGED stat
    BY <1>3 DEF Update
  <2>2. \A d \in Call : Items(files[d]) \subseteq Items(files'[d])
    BY <1>0, <1>3, UpdateHands, ItemsEmpty
  <2>3. Delivered' = UNION {Items(files'[d]) : d \in Call}
    BY DEF Delivered, Items
  <2>4. Delivered \subseteq Delivered'
    BY <2>2, <2>3, DeliveredItems
  <2> QED
    BY <1>0, <1>1, <2>1, <2>4, NextInv
<1>4. CASE UNCHANGED vars
  <2>1. UNCHANGED stat /\ Delivered' = Delivered
    BY <1>4 DEF vars, Delivered
  <2> QED
    BY <1>0, <1>1, <2>1, NextInv
<1> QED
  BY <1>2, <1>3, <1>4 DEF Next

\* ImplementsLastWriter: for files the frames, groups, locks and recalculations
\* of all calls come to no more than adopting newer offers, one at a time.
THEOREM Refinement == Spec => ImplementsLastWriter
<1>1. Init => FedInv /\ PlainFiles /\ LW!Init
  <2>1. Init => PlainFiles
    BY PlainIsPath DEF Init, PlainFiles, FreshStat
  <2> QED
    BY <2>1, InitFed, InitRefines
<1>2. FedInv /\ PlainFiles /\ [Next]_vars
        => (FedInv /\ PlainFiles)' /\ [LW!Next]_(LW!lwVars)
  BY StepFed, StepRefines
<1> QED
  BY <1>1, <1>2, PTL DEF Spec, ImplementsLastWriter, LW!Spec
=============================================================================
