---------------------------- MODULE FatTreeProofs ---------------------------
(***************************************************************************)
(* Proofs about FatTree for any tree of paths, any lists of announcements  *)
(* and any number of concurrent calls of Update.                           *)
(***************************************************************************)
EXTENDS FatTree, SequenceTheorems, TLAPS

-----------------------------------------------------------------------------
\* Paths.

Component == UNION {{p[i] : i \in DOMAIN p} : p \in Path}

Place == Path \cup {Root}

\* p goes through n, and further.
Below(n, p) == Len(p) > Len(n) /\ SubSeq(p, 1, Len(n)) = n

LEMMA PlaceIsSeq ==
    ASSUME NEW p \in Place
    PROVE  p \in Seq(Component) /\ Len(p) \in Nat
<1>1. CASE p \in Path
  BY <1>1, PathAssumption, LenProperties DEF Component
<1>2. CASE p = Root
  BY <1>2, EmptySeq DEF Root
<1> QED
  BY <1>1, <1>2 DEF Place

LEMMA RootAbove ==
    ASSUME NEW p \in Path
    PROVE  Below(Root, p)
<1>1. Len(p) > 0 /\ Len(Root) = 0
  BY PathAssumption DEF Root
<1>2. SubSeq(p, 1, 0) = <<>>
  BY SubSeqEmpty
<1> QED
  BY <1>1, <1>2 DEF Below, Root

\* namePart: the child of n that p goes through is a path, one level down.
LEMMA ChildOnPath ==
    ASSUME NEW n \in Place, NEW p \in Path, Below(n, p)
    PROVE  /\ Child(n, p) \in Path
           /\ Len(Child(n, p)) = Len(n) + 1
           /\ SubSeq(Child(n, p), 1, Len(n)) = n
<1>1. p \in Seq(Component) /\ n \in Seq(Component) /\ Len(n) \in Nat /\ Len(p) \in Nat
  BY PlaceIsSeq DEF Place
<1>2. Len(n) + 1 \in 1..Len(p)
  BY <1>1 DEF Below
<1>3. Child(n, p) \in Path
  BY <1>2, PathAssumption DEF Child
<1>4. Child(n, p) \in Seq(Component) /\ Len(Child(n, p)) = Len(n) + 1
  BY <1>1, <1>2, SubSeqProperties DEF Child
<1>5. \A i \in 1..Len(n) + 1 : Child(n, p)[i] = p[i]
  BY <1>1, <1>2 DEF Child
<1>6. \A i \in 1..Len(n) : n[i] = p[i]
  BY <1>1, <1>2 DEF Below
<1>7. SubSeq(Child(n, p), 1, Len(n)) = n
  <2> DEFINE s == SubSeq(Child(n, p), 1, Len(n))
  <2>1. s \in Seq(Component) /\ Len(s) = Len(n)
    BY <1>1, <1>4
  <2>2. \A i \in 1..Len(n) : s[i] = n[i]
    BY <1>1, <1>4, <1>5, <1>6
  <2>3. ASSUME NEW t, t = s PROVE t = n
    BY <1>1, <2>1, <2>2, <2>3, SeqEqual
  <2> QED
    BY <2>3
<1> QED
  BY <1>3, <1>4, <1>7

LEMMA BelowChild ==
    ASSUME NEW n \in Place, NEW p \in Path, Below(n, p), Len(p) # Len(n) + 1
    PROVE  Below(Child(n, p), p)
<1>1. Len(Child(n, p)) = Len(n) + 1
  BY ChildOnPath
<1>2. Len(n) \in Nat /\ Len(p) \in Nat
  BY PlaceIsSeq DEF Place
<1> QED
  BY <1>1, <1>2 DEF Below, Child

-----------------------------------------------------------------------------
\* Frames of update().

\* What makes a frame meaningful: what it still has to treat lies below its
\* TreeNode, and its current group goes through the entry, a child of it.
FrameOK(f) ==
    /\ \A i \in 1..Len(f.todo) : Below(f.node, f.todo[i].path)
    /\ \A i \in 1..Len(f.group) : /\ Below(f.node, f.group[i].path)
                                  /\ Child(f.node, f.group[i].path) = f.entry
    /\ \A i \in 1..Len(f.nested) : Below(f.entry, f.nested[i].path)
    /\ f.missed \/ f.group # <<>> \/ f.nested # <<>> =>
          /\ f.entry \in Path
          /\ Len(f.entry) = Len(f.node) + 1
          /\ SubSeq(f.entry, 1, Len(f.node)) = f.node

FramesOK(s) == s \in Seq(Frame) /\ \A i \in 1..Len(s) : FrameOK(s[i])

StacksOK == \A c \in Call : FramesOK(stack[c])

LEMMA HeadFrame ==
    ASSUME NEW s, FramesOK(s), s # <<>>
    PROVE  Head(s) \in Frame /\ FrameOK(Head(s))
<1>1. Len(s) \in Nat \ {0} /\ Head(s) = s[1]
  BY EmptySeq DEF FramesOK
<1> QED
  BY <1>1, HeadTailProperties DEF FramesOK

LEMMA TailFrames ==
    ASSUME NEW s, FramesOK(s), s # <<>>
    PROVE  FramesOK(Tail(s))
<1>1. /\ Tail(s) \in Seq(Frame)
      /\ Len(Tail(s)) = Len(s) - 1
      /\ \A i \in 1..Len(Tail(s)) : Tail(s)[i] = s[i + 1]
  BY HeadTailProperties DEF FramesOK
<1>2. Len(s) \in Nat
  BY LenProperties DEF FramesOK
<1> QED
  BY <1>1, <1>2 DEF FramesOK

LEMMA ConsFrames ==
    ASSUME NEW f \in Frame, FrameOK(f), NEW s, FramesOK(s)
    PROVE  FramesOK(<<f>> \o s)
<1>1. <<f>> \in Seq(Frame) /\ Len(<<f>>) = 1 /\ <<f>>[1] = f
  OBVIOUS
<1>2. s \in Seq(Frame) /\ Len(s) \in Nat
  BY LenProperties DEF FramesOK
<1>3. /\ <<f>> \o s \in Seq(Frame)
      /\ Len(<<f>> \o s) = 1 + Len(s)
      /\ \A i \in 1..1 + Len(s) : (<<f>> \o s)[i] = IF i =< 1 THEN <<f>>[i] ELSE s[i - 1]
  BY <1>1, <1>2, ConcatProperties
<1>4. ASSUME NEW i \in 1..1 + Len(s) PROVE FrameOK((<<f>> \o s)[i])
  <2>1. CASE i = 1
    BY <1>1, <1>3, <2>1
  <2>2. CASE i # 1
    BY <1>2, <1>3, <2>2 DEF FramesOK
  <2> QED
    BY <2>1, <2>2
<1> QED
  BY <1>3, <1>4 DEF FramesOK

\* A step that gives one call a new stack.
LEMMA NewStack ==
    ASSUME stack \in [Call -> Seq(Frame)], StacksOK, NEW c \in Call, NEW s, FramesOK(s),
           stack' = [stack EXCEPT ![c] = s]
    PROVE  stack' \in [Call -> Seq(Frame)] /\ StacksOK'
<1>1. stack' \in [Call -> Seq(Frame)]
  BY DEF FramesOK
<1>2. \A d \in Call : stack'[d] = IF d = c THEN s ELSE stack[d]
  OBVIOUS
<1>3. \A d \in Call : FramesOK(stack'[d])
  BY <1>2 DEF StacksOK
<1> QED
  BY <1>1, <1>3 DEF StacksOK, FramesOK, FrameOK

LEMMA NewTop ==
    ASSUME stack \in [Call -> Seq(Frame)], StacksOK, NEW c \in Call, stack[c] # <<>>,
           NEW f \in Frame, FrameOK(f), ReplaceTop(c, f)
    PROVE  stack' \in [Call -> Seq(Frame)] /\ StacksOK'
<1>1. FramesOK(<<f>> \o Tail(stack[c]))
  BY TailFrames, ConsFrames DEF StacksOK
<1> QED
  BY <1>1, NewStack DEF ReplaceTop

\* A new activation of update() on n.
LEMMA FreshFrame ==
    ASSUME NEW n \in Place, NEW fs \in Seq(Announcement),
           \A i \in 1..Len(fs) : Below(n, fs[i].path)
    PROVE  NewFrame(n, fs) \in Frame /\ FrameOK(NewFrame(n, fs))
<1>1. NewFrame(n, fs) \in Frame
  BY DEF NewFrame, Frame, Place
<1>2. FrameOK(NewFrame(n, fs))
  BY EmptySeq DEF NewFrame, FrameOK
<1> QED
  BY <1>1, <1>2

-----------------------------------------------------------------------------
\* Type correctness.

Inv == TypeOK /\ StacksOK

LEMMA InitInv ==
    ASSUME Init
    PROVE  Inv
<1>1. FramesOK(<<>>)
  BY EmptySeq DEF FramesOK
<1>2. FreshStat \in Stat /\ NotRecalculating \in Recalc
  BY DEF FreshStat, Stat, NotRecalculating, Recalc
<1>3. TypeOK
  BY <1>1, <1>2 DEF Init, TypeOK, FramesOK
<1>4. StacksOK
  BY <1>1 DEF Init, StacksOK
<1> QED
  BY <1>3, <1>4 DEF Inv

\* The frame a call is in, and the rest of its stack.
LEMMA TopFrame ==
    ASSUME Inv, NEW c \in Call, stack[c] # <<>>
    PROVE  /\ Top(c) \in Frame /\ FrameOK(Top(c))
           /\ FramesOK(Tail(stack[c]))
  BY HeadFrame, TailFrames DEF Inv, StacksOK, Top

LEMMA UpdateInv ==
    ASSUME Inv, NEW c \in Call, NEW fs \in Lists, Update(c, fs)
    PROVE  Inv'
<1>1. fs \in Seq(Announcement)
  BY ListAssumption
<1>2. ASSUME NEW i \in 1..Len(fs) PROVE Below(Root, fs[i].path)
  <2>1. fs[i] \in Announcement
    BY <1>1, ElementOfSeq
  <2>2. fs[i].path \in Path
    BY <2>1 DEF Announcement
  <2> QED
    BY <2>2, RootAbove
<1>3. NewFrame(Root, fs) \in Frame /\ FrameOK(NewFrame(Root, fs))
  BY <1>1, <1>2, FreshFrame DEF Place
<1>4. FramesOK(<<>>)
  BY EmptySeq DEF FramesOK
<1>5. FramesOK(<<NewFrame(Root, fs)>>)
  <2>1. FramesOK(<<NewFrame(Root, fs)>> \o <<>>)
    BY <1>3, <1>4, ConsFrames
  <2> QED
    BY <2>1, <1>3, ConcatEmptySeq
<1>6. stack' \in [Call -> Seq(Frame)] /\ StacksOK'
  BY <1>5, NewStack DEF Inv, TypeOK, Update
<1> QED
  BY <1>6 DEF Inv, TypeOK, Update
\* The two parts a group splits the announcements into.
LEMMA SplitSeq ==
    ASSUME NEW S, NEW s \in Seq(S), NEW k \in 1..Len(s)
    PROVE  /\ SubSeq(s, 1, k) \in Seq(S) /\ Len(SubSeq(s, 1, k)) = k
           /\ \A i \in 1..k : SubSeq(s, 1, k)[i] = s[i]
           /\ SubSeq(s, k + 1, Len(s)) \in Seq(S)
           /\ Len(SubSeq(s, k + 1, Len(s))) = Len(s) - k
           /\ \A i \in 1..Len(s) - k : SubSeq(s, k + 1, Len(s))[i] = s[i + k]
<1>1. Len(s) \in Nat /\ k \in Nat /\ k =< Len(s) /\ k >= 1
  BY LenProperties
<1>2. /\ SubSeq(s, 1, k) \in Seq(S) /\ Len(SubSeq(s, 1, k)) = k
      /\ \A i \in 1..k : SubSeq(s, 1, k)[i] = s[i]
  BY <1>1
<1>3. /\ SubSeq(s, k + 1, Len(s)) \in Seq(S)
      /\ Len(SubSeq(s, k + 1, Len(s))) = Len(s) - k
      /\ \A i \in 1..Len(s) - k : SubSeq(s, k + 1, Len(s))[i] = s[i + k]
  BY <1>1
<1> QED
  BY <1>2, <1>3

LEMMA LookupInv ==
    ASSUME Inv, NEW c \in Call, Lookup(c)
    PROVE  Inv'
<1> DEFINE f == Top(c)
           e == Child(f.node, f.todo[1].path)
<1>1. stack[c] # <<>> /\ f.todo # <<>> /\ GroupDone(f)
  BY DEF Lookup, Active
<1>2. f \in Frame /\ FrameOK(f)
  BY <1>1, TopFrame
<1>3. PICK k \in 1..Len(f.todo) :
         /\ IsGroup(f.node, f.todo, k)
         /\ ReplaceTop(c, [f EXCEPT !.entry = e,
                                    !.group = SubSeq(f.todo, 1, k),
                                    !.todo = SubSeq(f.todo, k + 1, Len(f.todo)),
                                    !.missed = e \notin nodes])
  BY DEF Lookup
<1> DEFINE g == [f EXCEPT !.entry = e,
                          !.group = SubSeq(f.todo, 1, k),
                          !.todo = SubSeq(f.todo, k + 1, Len(f.todo)),
                          !.missed = e \notin nodes]
<1>4. f.todo \in Seq(Announcement) /\ f.node \in Place /\ f.nested = <<>>
  BY <1>1, <1>2 DEF Frame, Place, GroupDone
<1>5. Len(f.todo) \in Nat /\ 1 \in 1..Len(f.todo)
  BY <1>3, <1>4, LenProperties
<1>6. f.todo[1] \in Announcement /\ Below(f.node, f.todo[1].path)
  BY <1>2, <1>4, <1>5, ElementOfSeq DEF FrameOK
<1>7. e \in Path /\ Len(e) = Len(f.node) + 1 /\ SubSeq(e, 1, Len(f.node)) = f.node
  <2>1. f.todo[1].path \in Path
    BY <1>6 DEF Announcement
  <2> QED
    BY <2>1, <1>4, <1>6, ChildOnPath
<1>8. /\ SubSeq(f.todo, 1, k) \in Seq(Announcement) /\ Len(SubSeq(f.todo, 1, k)) = k
      /\ \A i \in 1..k : SubSeq(f.todo, 1, k)[i] = f.todo[i]
      /\ SubSeq(f.todo, k + 1, Len(f.todo)) \in Seq(Announcement)
      /\ Len(SubSeq(f.todo, k + 1, Len(f.todo))) = Len(f.todo) - k
      /\ \A i \in 1..Len(f.todo) - k :
            SubSeq(f.todo, k + 1, Len(f.todo))[i] = f.todo[i + k]
  BY <1>4, SplitSeq
<1>9. g \in Frame
  BY <1>2, <1>7, <1>8 DEF Frame
<1>10. FrameOK(g)
  <2>1. /\ g.node = f.node /\ g.entry = e /\ g.nested = <<>>
        /\ g.group = SubSeq(f.todo, 1, k)
        /\ g.todo = SubSeq(f.todo, k + 1, Len(f.todo))
    BY <1>2, <1>4 DEF Frame
  <2>2. \A i \in 1..Len(f.todo) : Below(f.node, f.todo[i].path)
    BY <1>2 DEF FrameOK
  <2>3. ASSUME NEW i \in 1..Len(g.todo) PROVE Below(g.node, g.todo[i].path)
    <3>1. i \in 1..Len(f.todo) - k
      BY <2>1, <1>8
    <3>2. i + k \in 1..Len(f.todo)
      BY <3>1, <1>5
    <3>3. g.todo[i] = f.todo[i + k]
      BY <3>1, <2>1, <1>8
    <3> QED
      BY <3>2, <3>3, <2>1, <2>2
  <2>4. \A i \in 1..k : Child(f.node, f.todo[i].path) = e
    BY <1>3 DEF IsGroup
  <2>5. \A i \in 1..Len(g.group) :
            Below(g.node, g.group[i].path) /\ Child(g.node, g.group[i].path) = g.entry
    BY <2>1, <2>2, <2>4, <1>5, <1>8
  <2>6. Len(g.nested) = 0
    BY <2>1
  <2>7. ASSUME NEW h, h = g PROVE FrameOK(h)
    <3>1. h.node = f.node /\ h.entry = e /\ Len(h.nested) = 0
      BY <2>1, <2>6, <2>7
    <3>2. \A i \in 1..Len(h.todo) : Below(h.node, h.todo[i].path)
      BY <2>3, <2>7
    <3>3. \A i \in 1..Len(h.group) :
            Below(h.node, h.group[i].path) /\ Child(h.node, h.group[i].path) = h.entry
      BY <2>5, <2>7
    <3> QED
      BY <3>1, <3>2, <3>3, <1>7 DEF FrameOK
  <2> QED
    BY <2>7
<1>11. stack' \in [Call -> Seq(Frame)] /\ StacksOK'
  BY <1>1, <1>3, <1>9, <1>10, NewTop DEF Inv, TypeOK
<1> QED
  BY <1>11 DEF Inv, TypeOK, Lookup
\* The announcement a frame treats next.
LEMMA HeadOfGroup ==
    ASSUME NEW f \in Frame, FrameOK(f), f.group # <<>>
    PROVE  /\ Head(f.group) \in Announcement
           /\ Head(f.group).path \in Path
           /\ Below(f.node, Head(f.group).path)
           /\ Child(f.node, Head(f.group).path) = f.entry
           /\ f.entry \in Path
<1>1. f.group \in Seq(Announcement) /\ f.entry \in Path
  BY DEF Frame, FrameOK
<1>2. 1 \in 1..Len(f.group) /\ Head(f.group) = f.group[1]
  BY <1>1, EmptySeq
<1>3. Head(f.group) \in Announcement
  BY <1>1, <1>2, ElementOfSeq
<1>4. Head(f.group).path \in Path
  BY <1>3 DEF Announcement
<1> QED
  BY <1>1, <1>2, <1>3, <1>4 DEF FrameOK

\* One announcement of the group is dealt with, or moved to nestedFiles.
LEMMA NextInGroup ==
    ASSUME NEW f \in Frame, FrameOK(f), f.group # <<>>, ~f.missed,
           NEW g \in Frame, g.node = f.node, g.todo = f.todo, g.entry = f.entry,
           g.group = Tail(f.group), ~g.missed,
           \A i \in 1..Len(g.nested) : Below(f.entry, g.nested[i].path)
    PROVE  FrameOK(g)
<1>1. f.group \in Seq(Announcement)
  BY DEF Frame
<1>2. /\ Len(Tail(f.group)) = Len(f.group) - 1 /\ Len(f.group) \in Nat
      /\ \A i \in 1..Len(Tail(f.group)) : Tail(f.group)[i] = f.group[i + 1]
  BY <1>1, HeadTailProperties, LenProperties
<1>3. ASSUME NEW i \in 1..Len(g.group)
      PROVE  Below(g.node, g.group[i].path) /\ Child(g.node, g.group[i].path) = g.entry
  <2>1. i + 1 \in 1..Len(f.group) /\ g.group[i] = f.group[i + 1]
    BY <1>2
  <2> QED
    BY <2>1 DEF FrameOK
<1>4. \A i \in 1..Len(g.todo) : Below(g.node, g.todo[i].path)
  BY DEF FrameOK
<1>5. f.entry \in Path /\ Len(f.entry) = Len(f.node) + 1 /\ SubSeq(f.entry, 1, Len(f.node)) = f.node
  BY DEF FrameOK
<1> QED
  BY <1>3, <1>4, <1>5 DEF FrameOK

LEMMA CreateInv ==
    ASSUME Inv, NEW c \in Call, Create(c)
    PROVE  Inv'
<1> DEFINE f == Top(c)
           g == [f EXCEPT !.missed = FALSE]
<1>1. stack[c] # <<>> /\ f.missed
  BY DEF Create, Active
<1>2. f \in Frame /\ FrameOK(f)
  BY <1>1, TopFrame
<1>3. g \in Frame /\ FrameOK(g)
  <2>1. /\ g \in Frame /\ g.node = f.node /\ g.todo = f.todo /\ g.entry = f.entry
        /\ g.group = f.group /\ g.nested = f.nested
    BY <1>2 DEF Frame
  <2>2. ASSUME NEW h, h = g PROVE FrameOK(h)
    BY <2>1, <2>2, <1>1, <1>2 DEF FrameOK
  <2> QED
    BY <2>1, <2>2
<1>4. stack' \in [Call -> Seq(Frame)] /\ StacksOK'
  BY <1>1, <1>3, NewTop DEF Create, Inv, TypeOK
<1>5. f.entry \in Path /\ FreshStat \in Stat
  BY <1>1, <1>2 DEF FrameOK, FreshStat, Stat
<1>6. nodes' \subseteq Path /\ stat' \in [Path -> Stat]
  BY <1>5 DEF Create, Inv, TypeOK
<1> QED
  BY <1>4, <1>6 DEF Create, Inv, TypeOK
LEMMA DescendInv ==
    ASSUME Inv, NEW c \in Call, Descend(c)
    PROVE  Inv'
<1> DEFINE f == Top(c)
           a == Head(f.group)
           g == [f EXCEPT !.group = Tail(@), !.nested = Append(@, a)]
<1>1. stack[c] # <<>> /\ ~f.missed /\ f.group # <<>> /\ ~IsLeaf(f.node, a)
  BY DEF Descend, Active
<1>2. f \in Frame /\ FrameOK(f)
  BY <1>1, TopFrame
<1>3. /\ a \in Announcement /\ a.path \in Path
      /\ Below(f.node, a.path) /\ Child(f.node, a.path) = f.entry
  BY <1>1, <1>2, HeadOfGroup
<1>4. f.node \in Place /\ f.nested \in Seq(Announcement) /\ f.group \in Seq(Announcement)
  BY <1>2 DEF Frame, Place
<1>5. Below(f.entry, a.path)
  BY <1>1, <1>3, <1>4, BelowChild DEF IsLeaf
<1>6. /\ Append(f.nested, a) \in Seq(Announcement)
      /\ Len(Append(f.nested, a)) = Len(f.nested) + 1 /\ Len(f.nested) \in Nat
      /\ \A i \in 1..Len(f.nested) : Append(f.nested, a)[i] = f.nested[i]
      /\ Append(f.nested, a)[Len(f.nested) + 1] = a
  BY <1>3, <1>4, AppendProperties, LenProperties
<1>7. ASSUME NEW i \in 1..Len(f.nested) + 1
      PROVE  Below(f.entry, Append(f.nested, a)[i].path)
  <2>1. CASE i \in 1..Len(f.nested)
    BY <2>1, <1>2, <1>6 DEF FrameOK
  <2>2. CASE i = Len(f.nested) + 1
    BY <2>2, <1>5, <1>6
  <2> QED
    BY <2>1, <2>2, <1>6
<1>8. Tail(f.group) \in Seq(Announcement)
  BY <1>1, <1>4, HeadTailProperties
<1>9. /\ g \in Frame /\ g.node = f.node /\ g.todo = f.todo /\ g.entry = f.entry
      /\ g.group = Tail(f.group) /\ ~g.missed /\ g.nested = Append(f.nested, a)
  BY <1>1, <1>2, <1>6, <1>8 DEF Frame
<1>10. ASSUME NEW h, h = g PROVE FrameOK(h)
  <2>1. \A i \in 1..Len(h.nested) : Below(f.entry, h.nested[i].path)
    BY <1>6, <1>7, <1>9, <1>10
  <2>2. /\ h \in Frame /\ h.node = f.node /\ h.todo = f.todo /\ h.entry = f.entry
        /\ h.group = Tail(f.group) /\ ~h.missed
    BY <1>9, <1>10
  <2> QED
    BY <2>1, <2>2, <1>1, <1>2, NextInGroup
<1>11. stack' \in [Call -> Seq(Frame)] /\ StacksOK'
  <2>1. ReplaceTop(c, g)
    BY DEF Descend
  <2> QED
    BY <2>1, <1>1, <1>9, <1>10, NewTop DEF Inv, TypeOK
<1> QED
  BY <1>11 DEF Descend, Inv, TypeOK

LEMMA ApplyInv ==
    ASSUME Inv, NEW c \in Call, Apply(c)
    PROVE  Inv'
<1> DEFINE f == Top(c)
           a == Head(f.group)
           g == [f EXCEPT !.group = Tail(@)]
<1>1. stack[c] # <<>> /\ ~f.missed /\ f.group # <<>>
  BY DEF Apply, Active
<1>2. f \in Frame /\ FrameOK(f)
  BY <1>1, TopFrame
<1>3. a \in Announcement /\ f.entry \in Path
  BY <1>1, <1>2, HeadOfGroup
<1>4. f.group \in Seq(Announcement)
  BY <1>2 DEF Frame
<1>5. Tail(f.group) \in Seq(Announcement)
  BY <1>1, <1>4, HeadTailProperties
<1>6. /\ g \in Frame /\ g.node = f.node /\ g.todo = f.todo /\ g.entry = f.entry
      /\ g.group = Tail(f.group) /\ ~g.missed /\ g.nested = f.nested
  BY <1>1, <1>2, <1>5 DEF Frame
<1>7. ASSUME NEW h, h = g PROVE FrameOK(h)
  <2>1. \A i \in 1..Len(h.nested) : Below(f.entry, h.nested[i].path)
    BY <1>2, <1>6, <1>7 DEF FrameOK
  <2>2. /\ h \in Frame /\ h.node = f.node /\ h.todo = f.todo /\ h.entry = f.entry
        /\ h.group = Tail(f.group) /\ ~h.missed
    BY <1>6, <1>7
  <2> QED
    BY <2>1, <2>2, <1>1, <1>2, NextInGroup
<1>8. stack' \in [Call -> Seq(Frame)] /\ StacksOK'
  <2>1. ReplaceTop(c, g)
    BY DEF Apply
  <2> QED
    BY <2>1, <1>1, <1>6, <1>7, NewTop DEF Inv, TypeOK
<1>9. stat \in [Path -> Stat]
  BY DEF Inv, TypeOK
<1>10. Overwrite(stat[f.entry], a) \in Stat
  BY <1>3 DEF Overwrite, Announcement, Stat
<1>11. Merge(stat[f.entry], a) \in Stat
  BY <1>3, <1>9, <1>10 DEF Merge
<1>12. stat' \in [Path -> Stat]
  BY <1>9, <1>11 DEF Apply
<1> QED
  BY <1>8, <1>12 DEF Apply, Inv, TypeOK

LEMMA EnterDirInv ==
    ASSUME Inv, NEW c \in Call, EnterDir(c)
    PROVE  Inv'
<1> DEFINE f == Top(c)
           g == [f EXCEPT !.nested = <<>>]
<1>1. stack[c] # <<>> /\ f.nested # <<>> /\ ~f.missed /\ f.group = <<>>
  BY DEF EnterDir, Active
<1>2. f \in Frame /\ FrameOK(f) /\ FramesOK(Tail(stack[c]))
  BY <1>1, TopFrame
<1>3. /\ f.entry \in Path /\ f.nested \in Seq(Announcement)
      /\ \A i \in 1..Len(f.nested) : Below(f.entry, f.nested[i].path)
  BY <1>1, <1>2 DEF Frame, FrameOK
<1>4. NewFrame(f.entry, f.nested) \in Frame /\ FrameOK(NewFrame(f.entry, f.nested))
  BY <1>3, FreshFrame DEF Place
<1>5. /\ g \in Frame /\ g.node = f.node /\ g.todo = f.todo /\ g.entry = f.entry
      /\ g.group = <<>> /\ ~g.missed /\ g.nested = <<>>
  BY <1>1, <1>2 DEF Frame
<1>6. ASSUME NEW h, h = g PROVE FrameOK(h)
  <2>1. /\ h.node = f.node /\ h.todo = f.todo /\ h.entry = f.entry
        /\ h.group = <<>> /\ ~h.missed /\ h.nested = <<>>
    BY <1>5, <1>6
  <2>2. Len(h.group) = 0 /\ Len(h.nested) = 0
    BY <2>1
  <2> QED
    BY <2>1, <2>2, <1>2 DEF FrameOK
<1>7. FramesOK(<<NewFrame(f.entry, f.nested)>> \o (<<g>> \o Tail(stack[c])))
  BY <1>2, <1>4, <1>5, <1>6, ConsFrames
<1>8. <<NewFrame(f.entry, f.nested)>> \o (<<g>> \o Tail(stack[c]))
        = <<NewFrame(f.entry, f.nested), g>> \o Tail(stack[c])
  <2>1. Tail(stack[c]) \in Seq(Frame)
    BY <1>2 DEF FramesOK
  <2> QED
    BY <2>1, <1>4, <1>5
<1>9. stack' \in [Call -> Seq(Frame)] /\ StacksOK'
  <2>1. stack' = [stack EXCEPT ![c] = <<NewFrame(f.entry, f.nested), g>> \o Tail(stack[c])]
    BY DEF EnterDir
  <2> QED
    BY <2>1, <1>7, <1>8, NewStack DEF Inv, TypeOK
<1>10. AsDir(stat[f.entry]) \in Stat /\ stat \in [Path -> Stat]
  BY <1>3 DEF Inv, TypeOK, AsDir, Stat
<1>11. stat' \in [Path -> Stat]
  BY <1>10 DEF EnterDir
<1> QED
  BY <1>9, <1>11 DEF EnterDir, Inv, TypeOK

LEMMA ReturnInv ==
    ASSUME Inv, NEW c \in Call, Return(c)
    PROVE  Inv'
<1>1. stack[c] # <<>>
  BY DEF Return, Active
<1>2. Top(c) \in Frame /\ FramesOK(Tail(stack[c]))
  BY <1>1, TopFrame
<1>3. stack' \in [Call -> Seq(Frame)] /\ StacksOK'
  BY <1>2, NewStack DEF Return, Inv, TypeOK
<1>4. ASSUME Top(c).node # Root
      PROVE  [dir |-> Top(c).node, unread |-> ChildrenOf(Top(c).node),
              owner |-> NoOwner] \in Recalc
  BY <1>2, <1>4 DEF Frame, Recalc, ChildrenOf, Inv, TypeOK
<1>5. NotRecalculating \in Recalc
  BY DEF NotRecalculating, Recalc
<1>6. recalc' \in [Call -> Recalc]
  BY <1>4, <1>5 DEF Return, Inv, TypeOK
<1> QED
  BY <1>3, <1>6 DEF Return, Inv, TypeOK

LEMMA ReadChildInv ==
    ASSUME Inv, NEW c \in Call, ReadChild(c)
    PROVE  Inv'
<1>1. recalc \in [Call -> Recalc] /\ stat \in [Path -> Stat]
  BY DEF Inv, TypeOK
<1>2. PICK q \in recalc[c].unread :
         recalc' = [recalc EXCEPT ![c].unread = @ \ {q},
                                  ![c].owner = CombineOwner(@, stat[q].owner)]
  BY DEF ReadChild
<1>3. q \in Path
  BY <1>1, <1>2 DEF Recalc
<1>4. CombineOwner(recalc[c].owner, stat[q].owner) \in Owner \cup {NoOwner, Multiple}
  BY <1>1, <1>3 DEF CombineOwner, Recalc, Stat
<1>5. recalc' \in [Call -> Recalc]
  BY <1>1, <1>2, <1>4 DEF Recalc
<1> QED
  BY <1>5 DEF ReadChild, Inv, TypeOK, StacksOK, FramesOK, FrameOK

LEMMA SetOwnerInv ==
    ASSUME Inv, NEW c \in Call, SetOwner(c)
    PROVE  Inv'
<1>1. recalc[c].dir \in Path /\ recalc[c].owner \in Owner \cup {NoOwner, Multiple}
  BY DEF SetOwner, Inv, TypeOK, Recalc
<1>2. stat' \in [Path -> Stat]
  BY <1>1 DEF SetOwner, Inv, TypeOK, Stat
<1>3. recalc' \in [Call -> Recalc]
  BY DEF SetOwner, Inv, TypeOK, NotRecalculating, Recalc
<1> QED
  BY <1>2, <1>3 DEF SetOwner, Inv, TypeOK, StacksOK, FramesOK, FrameOK

LEMMA NextInv ==
    ASSUME Inv, [Next]_vars
    PROVE  Inv'
<1>1. ASSUME NEW c \in Call, Step(c) PROVE Inv'
  BY <1>1, LookupInv, CreateInv, DescendInv, ApplyInv, EnterDirInv, ReturnInv,
     ReadChildInv, SetOwnerInv DEF Step
<1>2. ASSUME NEW c \in Call, NEW fs \in Lists, Update(c, fs) PROVE Inv'
  BY <1>2, UpdateInv
<1>3. CASE UNCHANGED vars
  BY <1>3 DEF vars, Inv, TypeOK, StacksOK, FramesOK, FrameOK
<1> QED
  BY <1>1, <1>2, <1>3 DEF Next

LEMMA Invariant == Spec => []Inv
  BY InitInv, NextInv, PTL DEF Spec

\* The tree, the calls in progress and their frames keep the shape of the
\* structs of fat.go and update.go; in particular update() never makes an entry
\* outside the announced paths, however deep the recursion.
THEOREM TypeCorrect == Spec => []TypeOK
<1>1. Inv => TypeOK
  BY DEF Inv
<1> QED
  BY <1>1, Invariant, PTL
-----------------------------------------------------------------------------
\* Update never forgets.

LEMMA MergeNotOlder ==
    ASSUME NEW old \in Stat, NEW a \in Announcement
    PROVE  Merge(old, a).stamp >= old.stamp
  BY DEF Merge, Overwrite, Stat, Announcement

LEMMA StepNotOlder ==
    ASSUME Inv, NEW c \in Call, Step(c)
    PROVE  nodes \subseteq nodes' /\ \A p \in nodes : stat'[p].stamp >= stat[p].stamp
<1> USE DEF Inv
<1>1. stat \in [Path -> Stat] /\ nodes \subseteq Path
  BY DEF TypeOK
<1>2. \A p \in nodes : stat[p].stamp \in Nat
  BY <1>1 DEF Stat
<1>3. CASE Create(c)
  <2>1. \A p \in nodes : stat'[p] = stat[p]
    BY <1>1, <1>3 DEF Create
  <2> QED
    BY <1>2, <1>3, <2>1 DEF Create
<1>4. CASE Apply(c)
  <2>1. stack[c] # <<>> /\ Top(c).group # <<>>
    BY <1>4 DEF Apply, Active
  <2>2. Head(Top(c).group) \in Announcement /\ Top(c).entry \in Path
    BY <2>1, TopFrame, HeadOfGroup
  <2>3. Merge(stat[Top(c).entry], Head(Top(c).group)).stamp >= stat[Top(c).entry].stamp
    BY <1>1, <2>2, MergeNotOlder
  <2>4. \A p \in nodes :
          stat'[p] = IF p = Top(c).entry THEN Merge(stat[p], Head(Top(c).group)) ELSE stat[p]
    BY <1>1, <1>4 DEF Apply
  <2> QED
    BY <1>2, <1>4, <2>3, <2>4 DEF Apply
<1>5. CASE EnterDir(c)
  <2>1. \A p \in nodes : stat'[p] = IF p = Top(c).entry THEN AsDir(stat[p]) ELSE stat[p]
    BY <1>1, <1>5 DEF EnterDir
  <2>2. \A p \in nodes : AsDir(stat[p]).stamp = stat[p].stamp
    BY <1>1 DEF AsDir, Stat
  <2> QED
    BY <1>2, <1>5, <2>1, <2>2 DEF EnterDir
<1>6. CASE SetOwner(c)
  <2>1. \A p \in nodes : stat'[p].stamp = stat[p].stamp
    BY <1>1, <1>6 DEF SetOwner, Stat
  <2> QED
    BY <1>2, <1>6, <2>1 DEF SetOwner
<1>7. CASE Lookup(c) \/ Descend(c) \/ Return(c) \/ ReadChild(c)
  <2>1. nodes' = nodes /\ stat' = stat
    BY <1>7 DEF Lookup, Descend, Return, ReadChild
  <2> QED
    BY <1>2, <2>1
<1> QED
  BY <1>3, <1>4, <1>5, <1>6, <1>7 DEF Step

\* No interleaving of lookups and creations by concurrent calls of update()
\* unlinks a TreeNode or puts an entry back to older information.
THEOREM NothingForgotten == Spec => NeverOlder
<1> DEFINE Kept == nodes \subseteq nodes' /\ \A p \in nodes : stat'[p].stamp >= stat[p].stamp
<1>1. Inv /\ [Next]_vars => [Kept]_vars
  <2>1. ASSUME Inv, NEW c \in Call, NEW fs \in Lists, Update(c, fs) PROVE Kept
    <3>1. \A p \in nodes : stat[p].stamp \in Nat
      BY <2>1 DEF Inv, TypeOK, Stat
    <3> QED
      BY <3>1, <2>1 DEF Update
  <2> QED
    BY <2>1, StepNotOlder DEF Next
<1> QED
  BY <1>1, Invariant, PTL DEF Spec, NeverOlder
-----------------------------------------------------------------------------
\* The lock of recalculateOwner.

\* The TreeNodes in a frame's hands are in the tree.
Present(N, f) ==
    /\ f.node \in N \cup {Root}
    /\ ~f.missed /\ (f.group # <<>> \/ f.nested # <<>>) => f.entry \in N

AllPresent(N, s) == \A i \in 1..Len(s) : Present(N, s[i])

StacksPresent == \A c \in Call : AllPresent(nodes, stack[c])

\* A call in recalculateOwner is alone in holding its directory's lock.
LocksOK ==
    \A c \in Call : recalc[c].dir # Root =>
        /\ recalc[c].dir \in nodes
        /\ \A d \in Call : d # c => recalc[d].dir # recalc[c].dir

LockInv == Inv /\ StacksPresent /\ LocksOK

LEMMA TopPresent ==
    ASSUME LockInv, NEW c \in Call, stack[c] # <<>>
    PROVE  Present(nodes, Top(c)) /\ AllPresent(nodes, Tail(stack[c]))
<1>1. stack[c] \in Seq(Frame)
  BY DEF LockInv, Inv, TypeOK
<1>2. /\ Head(stack[c]) = stack[c][1] /\ 1 \in 1..Len(stack[c])
      /\ Len(Tail(stack[c])) = Len(stack[c]) - 1 /\ Len(stack[c]) \in Nat
      /\ \A i \in 1..Len(Tail(stack[c])) : Tail(stack[c])[i] = stack[c][i + 1]
  BY <1>1, HeadTailProperties, EmptySeq
<1> QED
  BY <1>2 DEF LockInv, StacksPresent, AllPresent, Top

LEMMA ConsPresent ==
    ASSUME NEW N, NEW f, Present(N, f), NEW s \in Seq(Frame), AllPresent(N, s)
    PROVE  AllPresent(N, <<f>> \o s)
<1>1. /\ <<f>> \in Seq({f} \cup Frame) /\ Len(<<f>>) = 1 /\ <<f>>[1] = f
      /\ s \in Seq({f} \cup Frame) /\ Len(s) \in Nat
  BY LenProperties
<1>2. /\ Len(<<f>> \o s) = 1 + Len(s)
      /\ \A i \in 1..1 + Len(s) : (<<f>> \o s)[i] = IF i =< 1 THEN <<f>>[i] ELSE s[i - 1]
  BY <1>1, ConcatProperties
<1>3. ASSUME NEW i \in 1..1 + Len(s) PROVE Present(N, (<<f>> \o s)[i])
  <2>1. CASE i = 1
    BY <1>1, <1>2, <2>1
  <2>2. CASE i # 1
    BY <1>1, <1>2, <2>2 DEF AllPresent
  <2> QED
    BY <2>1, <2>2
<1> QED
  BY <1>2, <1>3 DEF AllPresent

LEMMA MorePresent ==
    ASSUME NEW N, NEW M, N \subseteq M, NEW s, AllPresent(N, s)
    PROVE  AllPresent(M, s)
  BY DEF AllPresent, Present

\* A step that gives one call a new stack and takes nothing out of the tree.
LEMMA NewStackPresent ==
    ASSUME LockInv, NEW c \in Call, NEW s, AllPresent(nodes', s), nodes \subseteq nodes',
           stack' = [stack EXCEPT ![c] = s]
    PROVE  StacksPresent'
<1>1. ASSUME NEW d \in Call PROVE AllPresent(nodes', stack'[d])
  <2>1. stack'[d] = IF d = c THEN s ELSE stack[d]
    BY DEF LockInv, Inv, TypeOK
  <2>2. AllPresent(nodes', stack[d])
    BY MorePresent DEF LockInv, StacksPresent
  <2> QED
    BY <2>1, <2>2
<1>2. \A d \in Call : \A i \in 1..Len(stack'[d]) : Present(nodes', stack'[d][i])
  BY <1>1 DEF AllPresent
<1> QED
  BY <1>2 DEF StacksPresent, AllPresent, Present

LEMMA NewTopPresent ==
    ASSUME LockInv, NEW c \in Call, stack[c] # <<>>, NEW f, Present(nodes', f),
           nodes \subseteq nodes', ReplaceTop(c, f)
    PROVE  StacksPresent'
<1>1. Tail(stack[c]) \in Seq(Frame)
  BY TopFrame DEF LockInv, FramesOK
<1>2. AllPresent(nodes', Tail(stack[c]))
  BY TopPresent, MorePresent
<1>3. AllPresent(nodes', <<f>> \o Tail(stack[c]))
  BY <1>1, <1>2, ConsPresent
<1> QED
  BY <1>3, NewStackPresent DEF ReplaceTop
LEMMA UpdatePresent ==
    ASSUME LockInv, NEW c \in Call, NEW fs \in Lists, Update(c, fs)
    PROVE  StacksPresent'
<1>1. AllPresent(nodes', <<NewFrame(Root, fs)>>)
  BY DEF AllPresent, Present, NewFrame
<1> QED
  BY <1>1, NewStackPresent DEF Update

LEMMA StepPresent ==
    ASSUME LockInv, NEW c \in Call, Step(c)
    PROVE  StacksPresent'
<1> DEFINE f == Top(c)
<1>1. ASSUME stack[c] # <<>>
      PROVE  /\ f \in Frame /\ FrameOK(f) /\ Present(nodes, f)
             /\ Tail(stack[c]) \in Seq(Frame) /\ AllPresent(nodes, Tail(stack[c]))
  BY <1>1, TopFrame, TopPresent DEF LockInv, FramesOK
<1>2. nodes \subseteq nodes'
  BY StepNotOlder DEF LockInv
<1>3. CASE Lookup(c)
  <2>1. stack[c] # <<>> /\ f.nested = <<>> /\ nodes' = nodes
    BY <1>3 DEF Lookup, Active, GroupDone
  <2>2. PICK k \in 1..Len(f.todo) :
          ReplaceTop(c, [f EXCEPT !.entry = Child(f.node, f.todo[1].path),
                                  !.group = SubSeq(f.todo, 1, k),
                                  !.todo = SubSeq(f.todo, k + 1, Len(f.todo)),
                                  !.missed = Child(f.node, f.todo[1].path) \notin nodes])
    BY <1>3 DEF Lookup
  <2> DEFINE g == [f EXCEPT !.entry = Child(f.node, f.todo[1].path),
                            !.group = SubSeq(f.todo, 1, k),
                            !.todo = SubSeq(f.todo, k + 1, Len(f.todo)),
                            !.missed = Child(f.node, f.todo[1].path) \notin nodes]
  <2>3. /\ g.node = f.node /\ g.entry = Child(f.node, f.todo[1].path)
        /\ g.missed = (g.entry \notin nodes)
    BY <1>1, <2>1 DEF Frame
  <2>4. ASSUME NEW h, h = g PROVE Present(nodes', h)
    BY <2>1, <2>3, <2>4, <1>1 DEF Present
  <2> QED
    BY <2>1, <2>2, <2>4, NewTopPresent
<1>4. CASE Create(c)
  <2>1. stack[c] # <<>> /\ ReplaceTop(c, [f EXCEPT !.missed = FALSE]) /\ f.entry \in nodes'
    BY <1>4 DEF Create, Active
  <2>2. ASSUME NEW h, h = [f EXCEPT !.missed = FALSE] PROVE Present(nodes', h)
    <3>1. h.node = f.node /\ h.entry = f.entry
      BY <2>1, <2>2, <1>1 DEF Frame
    <3> QED
      BY <3>1, <2>1, <1>1, <1>2 DEF Present
  <2> QED
    BY <2>1, <2>2, <1>2, NewTopPresent
<1>5. CASE Descend(c)
  <2> DEFINE g == [f EXCEPT !.group = Tail(@), !.nested = Append(@, Head(f.group))]
  <2>1. /\ stack[c] # <<>> /\ ~f.missed /\ f.group # <<>> /\ nodes' = nodes
        /\ ReplaceTop(c, g)
    BY <1>5 DEF Descend, Active
  <2>2. ASSUME NEW h, h = g PROVE Present(nodes', h)
    <3>1. h.node = f.node /\ h.entry = f.entry
      BY <2>1, <2>2, <1>1 DEF Frame
    <3> QED
      BY <3>1, <2>1, <1>1 DEF Present
  <2> QED
    BY <2>1, <2>2, NewTopPresent
<1>6. CASE Apply(c)
  <2>1. /\ stack[c] # <<>> /\ ~f.missed /\ f.group # <<>> /\ nodes' = nodes
        /\ ReplaceTop(c, [f EXCEPT !.group = Tail(@)])
    BY <1>6 DEF Apply, Active
  <2>2. ASSUME NEW h, h = [f EXCEPT !.group = Tail(@)] PROVE Present(nodes', h)
    <3>1. h.node = f.node /\ h.entry = f.entry
      BY <2>1, <2>2, <1>1 DEF Frame
    <3> QED
      BY <3>1, <2>1, <1>1 DEF Present
  <2> QED
    BY <2>1, <2>2, NewTopPresent
<1>7. CASE EnterDir(c)
  <2> DEFINE g == [f EXCEPT !.nested = <<>>]
  <2>1. stack[c] # <<>> /\ ~f.missed /\ f.nested # <<>> /\ f.group = <<>> /\ nodes' = nodes
    BY <1>7 DEF EnterDir, Active
  <2>2. Present(nodes', NewFrame(f.entry, f.nested)) /\ Present(nodes', g)
    <3>1. g.node = f.node /\ g.group = <<>> /\ g.nested = <<>>
      BY <2>1, <1>1 DEF Frame
    <3>2. ASSUME NEW h, h = g PROVE Present(nodes', h)
      BY <3>1, <3>2, <2>1, <1>1 DEF Present
    <3>3. Present(nodes', NewFrame(f.entry, f.nested))
      BY <2>1, <1>1 DEF Present, NewFrame
    <3> QED
      BY <3>2, <3>3
  <2>3. g \in Frame /\ NewFrame(f.entry, f.nested) \in Frame
    BY <2>1, <1>1 DEF Frame, NewFrame, FrameOK
  <2>4. AllPresent(nodes', <<NewFrame(f.entry, f.nested)>> \o (<<g>> \o Tail(stack[c])))
    <3>1. <<g>> \o Tail(stack[c]) \in Seq(Frame)
      BY <2>1, <2>3, <1>1
    <3>2. AllPresent(nodes', Tail(stack[c]))
      BY <2>1, <1>1
    <3>3. AllPresent(nodes', <<g>> \o Tail(stack[c]))
      BY <3>2, <2>1, <2>2, <1>1, ConsPresent
    <3> QED
      BY <3>1, <3>3, <2>2, ConsPresent
  <2>5. <<NewFrame(f.entry, f.nested)>> \o (<<g>> \o Tail(stack[c]))
          = <<NewFrame(f.entry, f.nested), g>> \o Tail(stack[c])
    BY <2>1, <2>3, <1>1
  <2>6. stack' = [stack EXCEPT ![c] = <<NewFrame(f.entry, f.nested), g>> \o Tail(stack[c])]
    BY <1>7 DEF EnterDir
  <2> QED
    BY <2>4, <2>5, <2>6, <1>2, NewStackPresent
<1>8. CASE Return(c)
  <2>1. stack[c] # <<>> /\ nodes' = nodes /\ stack' = [stack EXCEPT ![c] = Tail(stack[c])]
    BY <1>8 DEF Return, Active
  <2> QED
    BY <2>1, <1>1, NewStackPresent
<1>9. CASE ReadChild(c) \/ SetOwner(c)
  <2>1. nodes' = nodes /\ stack' = stack
    BY <1>9 DEF ReadChild, SetOwner
  <2> QED
    BY <2>1 DEF LockInv, StacksPresent, AllPresent, Present
<1> QED
  BY <1>3, <1>4, <1>5, <1>6, <1>7, <1>8, <1>9 DEF Step
LEMMA StepLocks ==
    ASSUME LockInv, NEW c \in Call, Step(c)
    PROVE  LocksOK'
<1>1. nodes \subseteq nodes'
  BY StepNotOlder DEF LockInv
<1>2. recalc \in [Call -> Recalc]
  BY DEF LockInv, Inv, TypeOK
<1>3. LocksOK
  BY DEF LockInv
<1>4. CASE Return(c)
  <2>1. stack[c] # <<>> /\ recalc[c].dir = Root /\ ~Locked(Top(c).node)
    BY <1>4 DEF Return, Active
  <2>2. Top(c).node \in nodes \cup {Root}
    BY <2>1, TopPresent DEF Present
  <2>3. \A d \in Call : recalc'[d].dir = IF d = c THEN recalc'[c].dir ELSE recalc[d].dir
    BY <1>2, <1>4 DEF Return
  <2>4. recalc'[c].dir = Top(c).node \/ recalc'[c].dir = Root
    BY <1>2, <1>4 DEF Return, NotRecalculating
  <2>5. \A d \in Call : Top(c).node # Root => recalc[d].dir # Top(c).node
    BY <2>1 DEF Locked
  <2>6. \A d \in Call : recalc'[d].dir # Root => recalc'[d].dir \in nodes'
    BY <1>1, <1>3, <2>2, <2>3, <2>4 DEF LocksOK
  <2>7. \A d, e \in Call : recalc'[d].dir # Root /\ d # e => recalc'[e].dir # recalc'[d].dir
    BY <1>3, <2>3, <2>4, <2>5 DEF LocksOK
  <2> QED
    BY <2>6, <2>7 DEF LocksOK
<1>5. CASE SetOwner(c)
  <2>1. \A d \in Call : recalc'[d].dir = IF d = c THEN Root ELSE recalc[d].dir
    BY <1>2, <1>5 DEF SetOwner, NotRecalculating
  <2> QED
    BY <1>1, <1>3, <2>1 DEF LocksOK
<1>6. CASE ReadChild(c)
  <2>1. PICK q \in recalc[c].unread :
          recalc' = [recalc EXCEPT ![c].unread = @ \ {q},
                                   ![c].owner = CombineOwner(@, stat[q].owner)]
    BY <1>6 DEF ReadChild
  <2>2. \A d \in Call : recalc'[d].dir = recalc[d].dir
    BY <1>2, <2>1 DEF Recalc
  <2> QED
    BY <1>1, <1>3, <2>2 DEF LocksOK
<1>7. CASE Lookup(c) \/ Create(c) \/ Descend(c) \/ Apply(c) \/ EnterDir(c)
  <2>1. recalc' = recalc
    BY <1>7 DEF Lookup, Create, Descend, Apply, EnterDir
  <2> QED
    BY <1>1, <1>3, <2>1 DEF LocksOK
<1> QED
  BY <1>4, <1>5, <1>6, <1>7 DEF Step

LEMMA InitLock == Init => LockInv
<1>1. ASSUME Init PROVE StacksPresent /\ LocksOK
  BY <1>1 DEF Init, StacksPresent, AllPresent, LocksOK, NotRecalculating
<1> QED
  BY <1>1, InitInv DEF LockInv

LEMMA LockStep ==
    ASSUME LockInv, [Next]_vars PROVE LockInv'
<1>1. ASSUME NEW c \in Call, Step(c) PROVE StacksPresent' /\ LocksOK'
  BY <1>1, StepPresent, StepLocks
<1>2. ASSUME NEW c \in Call, NEW fs \in Lists, Update(c, fs) PROVE StacksPresent' /\ LocksOK'
  <2>1. LocksOK'
    BY <1>2 DEF LockInv, LocksOK, Update
  <2> QED
    BY <2>1, <1>2, UpdatePresent
<1>3. ASSUME UNCHANGED vars PROVE StacksPresent' /\ LocksOK'
  BY <1>3 DEF LockInv, StacksPresent, AllPresent, Present, LocksOK, vars
<1> QED
  BY <1>1, <1>2, <1>3, NextInv DEF LockInv, Next

LEMMA LockInvariant == Spec => []LockInv
  BY InitLock, LockStep, PTL DEF Spec

\* While call c holds the lock of its directory, no step of a call d changes
\* the directory's children or its fileStat.
LEMMA StepStable ==
    ASSUME LockInv, NEW d \in Call, Step(d), NEW c \in Call,
           recalc[c].dir # Root, recalc'[c].dir = recalc[c].dir
    PROVE  /\ ChildrenOf(recalc[c].dir)' = ChildrenOf(recalc[c].dir)
           /\ stat'[recalc[c].dir] = stat[recalc[c].dir]
<1> DEFINE p == recalc[c].dir
           f == Top(d)
<1>1. /\ p \in nodes /\ nodes \subseteq Path /\ stat \in [Path -> Stat]
      /\ recalc \in [Call -> Recalc] /\ \A e \in Call : e # c => recalc[e].dir # p
  BY DEF LockInv, LocksOK, Inv, TypeOK
<1>2. Locked(p)
  BY DEF Locked
<1>3. ASSUME nodes' = nodes, stat'[p] = stat[p]
      PROVE  ChildrenOf(recalc[c].dir)' = ChildrenOf(recalc[c].dir) /\ stat'[p] = stat[p]
  BY <1>3 DEF ChildrenOf
<1>4. CASE Create(d)
  <2>1. stack[d] # <<>> /\ f.missed /\ ~Locked(f.node)
    BY <1>4 DEF Create, Active
  <2>2. f.entry \in Path /\ SubSeq(f.entry, 1, Len(f.node)) = f.node
        /\ Len(f.entry) = Len(f.node) + 1
    BY <2>1, TopFrame DEF LockInv, FrameOK
  <2>3. f.node # p
    BY <2>1, <1>2
  <2>4. f.node \in Place /\ p \in Place
    BY <2>1, <1>1, TopFrame DEF LockInv, Frame, Place
  <2>5. Len(f.node) \in Nat /\ Len(p) \in Nat
    BY <2>4, PlaceIsSeq
  <2>6. ~(Len(f.entry) = Len(p) + 1 /\ SubSeq(f.entry, 1, Len(p)) = p)
    <3>1. SUFFICES ASSUME Len(f.entry) = Len(p) + 1, SubSeq(f.entry, 1, Len(p)) = p
                   PROVE  FALSE
      OBVIOUS
    <3>2. Len(p) = Len(f.node)
      BY <3>1, <2>2, <2>5
    <3> QED
      BY <3>1, <3>2, <2>2, <2>3
  <2>7. nodes' \subseteq nodes \cup {f.entry} /\ nodes \subseteq nodes'
    BY <1>4 DEF Create
  <2>8. {q \in nodes' : Len(q) = Len(p) + 1 /\ SubSeq(q, 1, Len(p)) = p}
          = {q \in nodes : Len(q) = Len(p) + 1 /\ SubSeq(q, 1, Len(p)) = p}
    BY <2>6, <2>7
  <2>9. stat'[p] = stat[p]
    BY <1>1, <1>4 DEF Create
  <2> QED
    BY <2>8, <2>9 DEF ChildrenOf
<1>5. CASE Apply(d)
  <2>1. stack[d] # <<>> /\ f.group # <<>> /\ ~Locked(f.entry) /\ nodes' = nodes
    BY <1>5 DEF Apply, Active
  <2>2. stat'[p] = stat[p]
    BY <2>1, <1>1, <1>2, <1>5 DEF Apply
  <2> QED
    BY <2>1, <2>2, <1>3
<1>6. CASE EnterDir(d)
  <2>1. ~Locked(f.entry) /\ nodes' = nodes
    BY <1>6 DEF EnterDir
  <2>2. stat'[p] = stat[p]
    BY <2>1, <1>1, <1>2, <1>6 DEF EnterDir
  <2> QED
    BY <2>1, <2>2, <1>3
<1>7. CASE SetOwner(d)
  <2>1. d # c
    BY <1>1, <1>7 DEF SetOwner, NotRecalculating
  <2>2. stat'[p] = stat[p] /\ nodes' = nodes
    BY <2>1, <1>1, <1>7 DEF SetOwner
  <2> QED
    BY <2>2, <1>3
<1>8. CASE Lookup(d) \/ Descend(d) \/ Return(d) \/ ReadChild(d)
  <2>1. nodes' = nodes /\ stat' = stat
    BY <1>8 DEF Lookup, Descend, Return, ReadChild
  <2> QED
    BY <2>1, <1>3
<1> QED
  BY <1>4, <1>5, <1>6, <1>7, <1>8 DEF Step

\* The lock recalculateOwner keeps while it reads the children one by one does
\* keep other calls from adding a child to that directory or rewriting its
\* fileStat, for any number of calls and any tree.
THEOREM LockHolds == Spec => LockedDirStable
<1>1. LockInv /\ [Next]_vars =>
        [\A c \in Call : recalc[c].dir # Root /\ recalc'[c].dir = recalc[c].dir =>
            /\ ChildrenOf(recalc[c].dir)' = ChildrenOf(recalc[c].dir)
            /\ stat'[recalc[c].dir] = stat[recalc[c].dir]]_vars
  <2>1. ASSUME NEW d \in Call, NEW fs \in Lists, Update(d, fs), NEW c \in Call,
               recalc'[c].dir = recalc[c].dir
        PROVE  /\ ChildrenOf(recalc[c].dir)' = ChildrenOf(recalc[c].dir)
               /\ stat'[recalc[c].dir] = stat[recalc[c].dir]
    BY <2>1 DEF Update, ChildrenOf
  <2> QED
    BY <2>1, StepStable DEF Next
<1> QED
  BY <1>1, LockInvariant, PTL DEF Spec, LockedDirStable
=============================================================================
