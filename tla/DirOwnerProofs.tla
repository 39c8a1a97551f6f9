--------------------------- MODULE DirOwnerProofs ---------------------------
(***************************************************************************)
(* Why recalculateOwner gets the owners of directories right in FatTree,   *)
(* for any tree of paths and any number of concurrent calls, if no node    *)
(* announces one path both as a file and as a directory and no removal is  *)
(* announced below the root's children.  And, whatever is announced, why   *)
(* everything in the tree can be listed from the root, and why the calls   *)
(* do not all wait for each other's locks.                                 *)
(***************************************************************************)
EXTENDS PlaceholderProofs, WellFoundedInduction

\* A node announces a path always as a file or always as a directory.  (If X turns
\* a file of its own into a directory that already has children of others, Update
\* takes X for the owner, and nobody recalculates.)
OneKind ==
    \A fs, gs \in Lists : \A i \in 1..Len(fs), j \in 1..Len(gs) :
        fs[i].path = gs[j].path /\ fs[i].owner = gs[j].owner => fs[i].dir = gs[j].dir

LEMMA DeliveredKind ==
    ASSUME OneKind, Inv, NEW a \in Delivered, NEW b \in Delivered,
           a.path = b.path, a.owner = b.owner
    PROVE  a.dir = b.dir
<1>1. PICK c \in Call, d \in Call : a \in Items(files[c]) /\ b \in Items(files[d])
  BY DeliveredItems
<1>2. /\ files[c] \in Lists /\ files[d] \in Lists
      /\ \E i \in 1..Len(files[c]) : a = files[c][i]
      /\ \E j \in 1..Len(files[d]) : b = files[d][j]
  BY <1>1, ItemOfList
<1> QED
  BY <1>2 DEF OneKind

-----------------------------------------------------------------------------
\* Who makes up for what a directory's children have become.

\* Some call will recalculate the owner of p, or does so now.
Busy(p) == \E c \in Call : Inside(c, p) \/ recalc[c].dir = p

LEMMA BusyWill ==
    ASSUME NEW p PROVE Busy(p) <=> \E c \in Call : WillRecalculate(c, p)
BY DEF Busy, Inside, NodesOf, WillRecalculate

\* A child without an owner has not been announced yet, or its directory has not
\* been recalculated.
OrphansBusy ==
    \A p \in nodes : stat[p].owner = NoOwner /\ ChildrenOf(p) # {} => Busy(p)

\* A child that has changed since it was read: a call is still below its directory.
ReadsAgree ==
    \A c \in Call : recalc[c].dir # Root /\ recalc[c].owner \in Owner =>
        \A k \in ChildrenOf(recalc[c].dir) \ recalc[c].unread :
            stat[k].owner = recalc[c].owner \/ \E d \in Call : Inside(d, recalc[c].dir)

ParentsPresent ==
    \A k \in nodes : \A p \in Path : ChildOf(k, p) => p \in nodes

\* Only an announcement makes somebody the owner of a file.
OwnedFiles ==
    \A p \in nodes : ~stat[p].dir /\ stat[p].owner # NoOwner => stat[p].stamp > 0

OwnersInv == /\ HoldInv /\ TakenInv
             /\ DirOwnerSound /\ OrphansBusy /\ ReadsAgree /\ ParentsPresent /\ OwnedFiles

\* Whoever changes an owner or adds an entry runs update() on the directory.
LEMMA ChangedChild ==
    ASSUME HoldInv, NEW c \in Call, Step(c), NEW k \in nodes',
           k \notin nodes \/ stat'[k].owner # stat[k].owner
    PROVE  \E n \in Place : ChildOf(k, n) /\ Inside(c, n) /\ Inside(c, n)'
<1>0. FedInv /\ LockInv /\ stat \in [Path -> Stat] /\ nodes \subseteq Path
  BY DEF HoldInv, FedInv, LockInv, Inv, TypeOK
<1>1. /\ stack[c] # <<>>
      /\ \/ /\ Create(c) \/ Apply(c)
            /\ k = Top(c).entry
            /\ Top(c).missed \/ Top(c).group # <<>>
         \/ SetOwner(c) /\ recalc[c].dir # Root /\ k = recalc[c].dir
  <2>1. CASE UNCHANGED <<nodes, stat>>
    BY <2>1
  <2>2. CASE /\ Create(c) /\ stack[c] # <<>> /\ Top(c).missed /\ Top(c).entry \in Path
             /\ nodes' = nodes \cup {Top(c).entry}
             /\ stat' = [stat EXCEPT ![Top(c).entry] = FreshStat]
    BY <1>0, <2>2
  <2>3. CASE /\ Apply(c) /\ stack[c] # <<>> /\ Top(c).group # <<>> /\ nodes' = nodes
             /\ stat' = [stat EXCEPT ![Top(c).entry] = Merge(@, Head(Top(c).group))]
    BY <1>0, <2>3
  <2>4. CASE /\ nodes' = nodes /\ stat' = [stat EXCEPT ![Top(c).entry] = AsDir(@)]
    BY <1>0, <2>4 DEF AsDir, Stat
  <2>5. CASE /\ SetOwner(c) /\ recalc[c].dir # Root /\ nodes' = nodes
             /\ stat' = [stat EXCEPT ![recalc[c].dir].owner = recalc[c].owner]
    BY <1>0, <2>5 DEF HoldInv, RecalcsBelong
  <2> QED
    BY <1>0, <2>1, <2>2, <2>3, <2>4, <2>5, StepStat
<1>2. ChildOf(k, Top(c).node) /\ Top(c).node \in Place
  BY <1>0, <1>1, FrameOf, GroupsEntry DEF HoldInv, RecalcsBelong
<1>3. Inside(c, Top(c).node)
  BY <1>0, <1>1, FrameOf, NodesOfTop DEF Inside, Top
<1>4. ~Return(c)
  BY DEF Return
<1>5. PICK n \in Place : n = Top(c).node
  BY <1>2
<1>6. Inside(c, n)'
  BY <1>0, <1>3, <1>4, <1>5, InsideStays
<1> QED
  BY <1>2, <1>3, <1>5, <1>6

\* A call that is busy with a directory stays so until it has stored its owner.
LEMMA BusyStays ==
    ASSUME HoldInv, NEW c \in Call, Step(c), NEW p \in nodes, stat[p].dir, Busy(p),
           ~(SetOwner(c) /\ p = recalc[c].dir)
    PROVE  Busy(p)'
<1>0. FedInv /\ recalc \in [Call -> Recalc] /\ p # Root
  BY RootNoPath DEF HoldInv, FedInv, LockInv, Inv, TypeOK
<1>1. PICK d \in Call : Inside(d, p) \/ recalc[d].dir = p
  BY DEF Busy
<1>2. CASE Inside(d, p)
  <2>1. CASE Inside(d, p)'
    BY <2>1 DEF Busy
  <2>2. CASE Return(c) /\ p = Top(c).node
    <3>1. recalc'[c].dir = p
      BY <1>0, <2>2 DEF Return
    <3> QED
      BY <3>1 DEF Busy
  <2> QED
    BY <1>0, <1>2, <2>1, <2>2, InsideStays
<1>3. CASE recalc[d].dir = p
  <2>1. recalc'[d].dir = p
    <3>1. CASE d = c
      BY <1>0, <1>3, <3>1, StepApart
    <3>2. CASE d # c
      BY <1>0, <1>3, <3>2, StepLocal DEF FedInv, LockInv
    <3> QED
      BY <3>1, <3>2
  <2> QED
    BY <2>1 DEF Busy
<1> QED
  BY <1>1, <1>2, <1>3

LEMMA StepReads ==
    ASSUME OwnersInv, NEW c \in Call, Step(c)
    PROVE  ReadsAgree'
<1>0. /\ HoldInv /\ FedInv /\ RecalcsOpen /\ ReadsAgree /\ recalc \in [Call -> Recalc]
      /\ nodes \subseteq Path
  BY DEF OwnersInv, HoldInv, FedInv, LockInv, Inv, TypeOK
<1> SUFFICES ASSUME NEW d \in Call, NEW q, q = recalc'[d].dir, q # Root,
                    recalc'[d].owner \in Owner,
                    NEW k \in ChildrenOf(q)', k \notin recalc'[d].unread,
                    stat'[k].owner # recalc'[d].owner
             PROVE  \E e \in Call : Inside(e, q)'
  BY DEF ReadsAgree
<1>1. recalc[d].dir = q
  <2>1. ASSUME d = c, Return(c) PROVE FALSE
    BY <1>0, <2>1, OwnerAssumption DEF Return, NotRecalculating
  <2> QED
    BY <1>0, <2>1, StepApart, StepLocal DEF FedInv, LockInv
<1>2. /\ ChildrenOf(q)' = ChildrenOf(q) /\ k \in ChildrenOf(q) /\ k \in nodes
      /\ ChildOf(k, q) /\ q \in Place
  <2>1. ChildrenOf(q)' = ChildrenOf(q)
    BY <1>0, <1>1, StepStable DEF FedInv
  <2> QED
    BY <1>0, <1>1, <2>1 DEF ChildrenOf, ChildOf, Recalc, Place
<1>3. ASSUME NEW e \in Call, Inside(e, q) PROVE Inside(e, q)'
  <2>1. ~(Return(c) /\ q = Top(c).node)
    BY <1>1 DEF Return, Locked
  <2> QED
    BY <1>0, <1>3, <2>1, InsideStays
<1>4. CASE stat'[k].owner # stat[k].owner
  <2>1. k \in nodes'
    BY <1>0, <1>2, StepNotOlder DEF FedInv, LockInv
  <2>2. PICK n \in Place : ChildOf(k, n) /\ Inside(c, n)'
    BY <1>0, <1>4, <2>1, ChangedChild
  <2>3. n = q
    BY <1>2, <2>2, OneParent
  <2> QED
    BY <2>2, <2>3
<1>5. CASE stat'[k].owner = stat[k].owner
  <2>1. CASE recalc'[d] = recalc[d]
    BY <1>0, <1>1, <1>2, <1>3, <1>5, <2>1 DEF ReadsAgree
  <2>2. CASE recalc'[d] # recalc[d]
    <3>1. d = c
      BY <1>0, <2>2, StepLocal DEF FedInv, LockInv
    <3>2. ReadChild(c)
      BY <1>0, <1>1, <2>2, <3>1, StepApart DEF SetOwner, NotRecalculating
    <3>3. PICK j \in recalc[c].unread :
            recalc' = [recalc EXCEPT ![c].unread = @ \ {j},
                                     ![c].owner = CombineOwner(@, stat[j].owner)]
      BY <3>2 DEF ReadChild
    <3>4. /\ recalc'[c].unread = recalc[c].unread \ {j}
          /\ recalc'[c].owner = CombineOwner(recalc[c].owner, stat[j].owner)
      BY <1>0, <3>3 DEF Recalc
    <3>5. CASE recalc[c].owner = NoOwner
      <4>1. recalc'[c].owner = stat[j].owner
        BY <3>4, <3>5 DEF CombineOwner
      <4>2. k # j /\ k \notin recalc[c].unread
        BY <1>5, <3>1, <3>4, <4>1
      <4> QED
        BY <1>0, <1>1, <1>2, <1>3, <3>1, <3>5, <4>2 DEF RecalcsOpen
    <3>6. CASE recalc[c].owner # NoOwner
      <4>1. recalc[c].owner = recalc'[c].owner /\ stat[j].owner = recalc[c].owner
        BY <3>1, <3>4, <3>6, OwnerAssumption DEF CombineOwner
      <4>2. k # j /\ k \notin recalc[c].unread
        BY <1>5, <3>1, <3>4, <4>1
      <4> QED
        BY <1>0, <1>1, <1>2, <1>3, <1>5, <3>1, <4>1, <4>2 DEF ReadsAgree
    <3> QED
      BY <3>5, <3>6
  <2> QED
    BY <2>1, <2>2
<1> QED
  BY <1>4, <1>5

LEMMA StepParents ==
    ASSUME OwnersInv, NEW c \in Call, Step(c)
    PROVE  ParentsPresent'
<1>0. /\ HoldInv /\ FedInv /\ ParentsPresent /\ nodes \subseteq nodes' /\ nodes \subseteq Path
      /\ stack \in [Call -> Seq(Frame)]
  BY StepNotOlder DEF OwnersInv, HoldInv, FedInv, LockInv, Inv, TypeOK
<1> SUFFICES ASSUME NEW k \in nodes', NEW p \in Path, ChildOf(k, p) PROVE p \in nodes'
  BY DEF ParentsPresent
<1>1. CASE k \in nodes
  BY <1>0, <1>1 DEF ParentsPresent
<1>2. CASE k \notin nodes
  <2>1. PICK n \in Place : ChildOf(k, n) /\ Inside(c, n)
    BY <1>0, <1>2, ChangedChild
  <2>2. n = p
    BY <2>1, OneParent DEF Place
  <2>3. n \in nodes \cup {Root}
    BY <1>0, <2>1 DEF Inside, NodesOf, FedInv, LockInv, StacksPresent, AllPresent, Present
  <2> QED
    BY <1>0, <2>2, <2>3, RootNoPath
<1> QED
  BY <1>1, <1>2

LEMMA StepOrphans ==
    ASSUME OwnersInv, NEW c \in Call, Step(c)
    PROVE  OrphansBusy'
<1>0. /\ HoldInv /\ FedInv /\ OrphansBusy /\ ParentsPresent /\ nodes \subseteq nodes'
      /\ nodes \subseteq Path
  BY StepNotOlder DEF OwnersInv, HoldInv, FedInv, LockInv, Inv, TypeOK
<1> SUFFICES ASSUME NEW p \in nodes', stat'[p].owner = NoOwner,
                    NEW k \in nodes', k \in Path, ChildOf(k, p)
             PROVE  Busy(p)'
  <2>1. nodes' \subseteq Path
    BY <1>0, NextInv DEF Next, FedInv, LockInv, Inv, TypeOK
  <2> QED
    BY <2>1 DEF OrphansBusy, ChildrenOf, ChildOf
<1>1. p \in Path
  BY <1>0, StepOwner
<1>2. CASE k \notin nodes
  <2>1. PICK n \in Place : ChildOf(k, n) /\ Inside(c, n)'
    BY <1>0, <1>2, ChangedChild
  <2>2. n = p
    BY <1>1, <2>1, OneParent DEF Place
  <2> QED
    BY <2>1, <2>2 DEF Busy
<1>3. CASE k \in nodes
  <2>1. p \in nodes /\ ChildrenOf(p) # {}
    BY <1>0, <1>1, <1>3 DEF ParentsPresent, ChildrenOf, ChildOf
  <2>2. CASE SetOwner(c) /\ p = recalc[c].dir /\ recalc[c].owner = NoOwner
    <3>1. PICK d \in Call : Inside(d, p)
      BY <1>0, <1>1, <2>1, <2>2, RootNoPath DEF SetOwner, HoldInv, RecalcsOpen
    <3>2. Inside(d, p)'
      BY <2>2, <3>1 DEF SetOwner, Inside
    <3> QED
      BY <3>2 DEF Busy
  <2>3. CASE stat[p].owner = NoOwner
    <3>1. Busy(p)
      BY <2>1, <2>3, <1>0 DEF OrphansBusy
    <3>2. stat[p].dir
      BY <1>0, <1>1, <2>1, <2>3, <3>1, RootNoPath
         DEF Busy, HoldInv, DirsInside, FedInv, RecalcsDirs
    <3>3. CASE SetOwner(c) /\ p = recalc[c].dir
      <4>1. recalc[c].owner = NoOwner
        BY <1>0, <2>1, <3>3 DEF SetOwner, FedInv, LockInv, Inv, TypeOK, Stat
      <4> QED
        BY <2>2, <3>3, <4>1
    <3> QED
      BY <1>0, <2>1, <3>1, <3>2, <3>3, BusyStays
  <2> QED
    BY <1>0, <2>1, <2>2, <2>3, StepOwner
<1> QED
  BY <1>2, <1>3

LEMMA StepOwned ==
    ASSUME OwnersInv, NEW c \in Call, Step(c)
    PROVE  OwnedFiles'
<1>0. /\ FedInv /\ LockInv /\ OwnedFiles /\ stat \in [Path -> Stat] /\ nodes \subseteq Path
      /\ OwnerAssumption
  BY OwnerAssumption DEF OwnersInv, HoldInv, FedInv, LockInv, Inv, TypeOK
<1>1. CASE UNCHANGED <<nodes, stat>>
  BY <1>0, <1>1 DEF OwnedFiles
<1>2. CASE /\ Top(c).entry \in Path /\ nodes' = nodes \cup {Top(c).entry}
           /\ stat' = [stat EXCEPT ![Top(c).entry] = FreshStat]
  <2>1. FreshStat.owner = NoOwner
    BY DEF FreshStat
  <2> QED
    BY <1>0, <1>2, <2>1 DEF OwnedFiles
<1>3. CASE /\ Apply(c) /\ stack[c] # <<>> /\ Top(c).group # <<>> /\ Top(c).entry \in nodes
           /\ nodes' = nodes
           /\ stat' = [stat EXCEPT ![Top(c).entry] = Merge(@, Head(Top(c).group))]
  <2> DEFINE a == Head(Top(c).group)
             p == Top(c).entry
  <2>1. a.stamp \in Nat /\ a.stamp > 0
    BY <1>0, <1>3, AppliedItem DEF Announcement
  <2>2. stat'[p] = stat[p] \/ stat'[p].stamp = a.stamp
    BY <1>0, <1>3 DEF Merge, Overwrite
  <2>3. \A q \in nodes : q # p => stat'[q] = stat[q]
    BY <1>0, <1>3
  <2> HIDE DEF a, p
  <2> QED
    BY <1>3, <1>0, <2>1, <2>2, <2>3 DEF OwnedFiles
<1>4. CASE nodes' = nodes /\ stat' = [stat EXCEPT ![Top(c).entry] = AsDir(@)]
  BY <1>0, <1>4 DEF OwnedFiles, AsDir, Stat
<1>5. CASE /\ recalc[c].dir # Root /\ nodes' = nodes
           /\ stat' = [stat EXCEPT ![recalc[c].dir].owner = recalc[c].owner]
  BY <1>0, <1>5 DEF OwnedFiles, FedInv, RecalcsDirs, Stat
<1> QED
  BY <1>0, <1>1, <1>2, <1>3, <1>4, <1>5, StepStat

\* A directory that names one owner and has a child of another.
Mixed(p) == /\ stat[p].dir /\ stat[p].owner \in Owner
            /\ \E q \in ChildrenOf(p) : stat[q].owner # stat[p].owner

LEMMA StepSound ==
    ASSUME OneKind, TopRemovals, OwnersInv, NEW c \in Call, Step(c),
           NEW p \in nodes', Mixed(p)'
    PROVE  Busy(p)'
<1>0. /\ HoldInv /\ FedInv /\ LockInv /\ Inv /\ nodes \subseteq nodes' /\ nodes \subseteq Path
      /\ stat \in [Path -> Stat] /\ ParentsPresent
      /\ \A q \in nodes : Mixed(q) => Busy(q)
  BY StepNotOlder, BusyWill
     DEF OwnersInv, HoldInv, FedInv, LockInv, Inv, TypeOK, DirOwnerSound, Mixed
<1>1. p \in Path /\ nodes' \subseteq Path
  BY <1>0, NextInv DEF Next, Inv, TypeOK
<1>2. PICK k \in nodes' : ChildOf(k, p) /\ stat'[k].owner # stat'[p].owner
  BY <1>1 DEF Mixed, ChildrenOf, ChildOf
<1>3. stat'[p].dir /\ stat'[p].owner \in Owner
  BY DEF Mixed
<1>4. CASE k \notin nodes \/ stat'[k].owner # stat[k].owner
  <2>1. PICK n \in Place : ChildOf(k, n) /\ Inside(c, n)'
    BY <1>0, <1>4, ChangedChild
  <2>2. n = p
    BY <1>1, <1>2, <2>1, OneParent DEF Place
  <2> QED
    BY <2>1, <2>2 DEF Busy
<1>5. CASE k \in nodes /\ stat'[k].owner = stat[k].owner
  <2>1. p \in nodes /\ k \in ChildrenOf(p)
    BY <1>0, <1>1, <1>2, <1>5 DEF ParentsPresent, ChildrenOf, ChildOf
  <2>2. CASE SetOwner(c) /\ p = recalc[c].dir
    <3>1. stat'[p].owner = recalc[c].owner /\ recalc[c].unread = {} /\ stack' = stack
      BY <1>0, <1>1, <2>2 DEF SetOwner, Stat
    <3>2. PICK d \in Call : Inside(d, p)
      BY <1>1, <1>2, <1>3, <1>5, <2>1, <2>2, <3>1, RootNoPath DEF OwnersInv, ReadsAgree
    <3>3. Inside(d, p)'
      BY <3>1, <3>2 DEF Inside
    <3> QED
      BY <3>3 DEF Busy
  <2>3. CASE ~(SetOwner(c) /\ p = recalc[c].dir) /\ stat[p].dir /\ Busy(p)
    BY <1>0, <2>1, <2>3, BusyStays
  <2>4. CASE stat'[p] = stat[p]
    <3>1. Mixed(p)
      BY <1>2, <1>3, <1>5, <2>1, <2>4 DEF Mixed
    <3> QED
      BY <1>0, <2>1, <2>2, <2>3, <3>1 DEF Mixed
  <2>5. CASE /\ Apply(c) /\ p = Top(c).entry /\ stack[c] # <<>> /\ Top(c).group # <<>>
             /\ stat'[p] = Merge(stat[p], Head(Top(c).group)) /\ stat'[p] # stat[p]
    <3>0. PICK a : a = Head(Top(c).group)
      OBVIOUS
    <3>1. a \in Items(files[c]) /\ a \in Announcement /\ a.path = p
      <4>1. IsLeaf(Top(c).node, a) \/ a.del
        BY <2>5, <3>0 DEF Apply
      <4> QED
        BY <1>0, <2>5, <3>0, <4>1, AppliedItem
    <3>2. stat'[p] = Overwrite(stat[p], a)
      BY <2>5, <3>0 DEF Merge
    <3>3. /\ a.dir /\ stat'[p].owner = a.owner
          /\ stat[p].owner = NoOwner \/ stat[p].owner = a.owner
      BY <1>3, <3>1, <3>2, OwnerAssumption DEF Overwrite, Announcement
    <3>4. ~SetOwner(c)
      BY <2>5 DEF Apply, SetOwner, Active
    <3>5. CASE stat[p].owner = NoOwner
      <4>1. Busy(p)
        BY <2>1, <3>5 DEF OwnersInv, OrphansBusy
      <4>2. stat[p].dir
        BY <1>0, <1>1, <2>1, <3>5, <4>1, RootNoPath
           DEF Busy, HoldInv, DirsInside, FedInv, RecalcsDirs
      <4> QED
        BY <2>3, <3>4, <4>1, <4>2
    <3>6. CASE stat[p].owner = a.owner /\ stat[p].dir
      <4>1. Mixed(p)
        BY <1>2, <1>3, <1>5, <2>1, <3>3, <3>6 DEF Mixed
      <4> QED
        BY <1>0, <2>1, <2>3, <3>4, <3>6, <4>1
    <3>7. CASE stat[p].owner = a.owner /\ ~stat[p].dir
      <4>1. a.owner # NoOwner
        BY <3>1, OwnerAssumption DEF Announcement
      <4>2. PICK b \in Delivered : b.path = p /\ b.owner = a.owner /\ ~b.dir
        BY <2>1, <3>7, <4>1 DEF OwnersInv, OwnedFiles, TakenInv, FromOffers
      <4>3. a \in Delivered
        BY <1>0, <3>1, ItemOfList
      <4>4. a.dir = b.dir
        BY <1>0, <3>1, <4>2, <4>3, DeliveredKind
      <4> QED
        BY <3>3, <4>2, <4>4
    <3> QED
      BY <3>3, <3>5, <3>6, <3>7
  <2>6. CASE EnterDir(c) /\ stack[c] # <<>> /\ p = Top(c).entry
    <3>1. p \in NodesOf(stack'[c])
      <4>1. PICK e \in Frame, g \in Frame :
              stack'[c] = <<e>> \o (<<g>> \o Tail(stack[c])) /\ e.node = Top(c).entry
        BY <1>0, <2>6, StepEnter
      <4>2. <<g>> \o Tail(stack[c]) \in Seq(Frame)
        BY <1>0, <2>6, FrameOf, Cons
      <4> QED
        BY <2>6, <4>1, <4>2, NodesOfCons
    <3> QED
      BY <2>6, <3>1 DEF Busy, Inside
  <2>7. \/ stat'[p] = stat[p]
        \/ SetOwner(c) /\ p = recalc[c].dir
        \/ EnterDir(c) /\ stack[c] # <<>> /\ p = Top(c).entry
        \/ /\ Apply(c) /\ p = Top(c).entry /\ stack[c] # <<>> /\ Top(c).group # <<>>
           /\ stat'[p] = Merge(stat[p], Head(Top(c).group))
    <3>0. p \in Path
      BY <1>0, <2>1
    <3>1. CASE UNCHANGED <<nodes, stat>>
      BY <3>1
    <3>2. CASE /\ Top(c).entry \notin nodes
               /\ stat' = [stat EXCEPT ![Top(c).entry] = FreshStat]
      BY <1>0, <2>1, <3>0, <3>2
    <3>3. CASE /\ Apply(c) /\ stack[c] # <<>> /\ Top(c).group # <<>>
               /\ stat' = [stat EXCEPT ![Top(c).entry] = Merge(@, Head(Top(c).group))]
      <4>1. CASE p = Top(c).entry
        BY <1>0, <3>0, <3>3, <4>1
      <4>2. CASE p # Top(c).entry
        BY <1>0, <3>0, <3>3, <4>2
      <4> QED
        BY <4>1, <4>2
    <3>4. CASE /\ EnterDir(c) /\ stack[c] # <<>>
               /\ stat' = [stat EXCEPT ![Top(c).entry] = AsDir(@)]
      BY <1>0, <3>0, <3>4
    <3>5. CASE /\ SetOwner(c)
               /\ stat' = [stat EXCEPT ![recalc[c].dir].owner = recalc[c].owner]
      BY <1>0, <3>0, <3>5
    <3> QED
      BY <1>0, <3>1, <3>2, <3>3, <3>4, <3>5, StepStat
  <2> QED
    BY <2>2, <2>4, <2>5, <2>6, <2>7
<1> QED
  BY <1>4, <1>5

\* Update only begins a call at the root.
LEMMA UpdateOwners ==
    ASSUME OwnersInv, NEW c \in Call, NEW fs \in Lists, Update(c, fs)
    PROVE  OrphansBusy' /\ ReadsAgree' /\ ParentsPresent' /\ OwnedFiles' /\ DirOwnerSound'
<1>0. /\ HoldInv /\ FedInv /\ nodes \subseteq Path /\ UNCHANGED <<nodes, stat, recalc>>
      /\ OrphansBusy /\ ReadsAgree /\ ParentsPresent /\ OwnedFiles /\ DirOwnerSound
  BY DEF OwnersInv, HoldInv, FedInv, LockInv, Inv, TypeOK, Update
<1>1. \A d \in Call, p \in Path : Inside(d, p) <=> Inside(d, p)'
  BY <1>0, UpdateInside
<1>2. \A p : ChildrenOf(p)' = ChildrenOf(p)
  BY <1>0 DEF ChildrenOf
<1>3. ASSUME NEW p \in Path PROVE Busy(p) <=> Busy(p)'
  BY <1>0, <1>1 DEF Busy
<1>4. OrphansBusy' /\ ParentsPresent' /\ OwnedFiles'
  BY <1>0, <1>2, <1>3 DEF OrphansBusy, ParentsPresent, OwnedFiles, ChildOf
<1>5. ReadsAgree'
  <2>1. \A d \in Call : recalc[d].dir # Root => recalc[d].dir \in Path
    BY <1>0 DEF FedInv, LockInv, LocksOK
  <2> QED
    BY <1>0, <1>1, <1>2, <2>1 DEF ReadsAgree
<1>6. DirOwnerSound'
  <2> SUFFICES ASSUME NEW p \in nodes, Mixed(p)
               PROVE  \E d \in Call : WillRecalculate(d, p)'
    BY <1>0, <1>2 DEF DirOwnerSound, Mixed
  <2>1. Busy(p)
    BY <1>0, BusyWill DEF DirOwnerSound, Mixed
  <2>2. Busy(p)'
    BY <1>0, <1>3, <2>1
  <2> QED
    BY <2>2 DEF Busy, Inside, NodesOf, WillRecalculate
<1> QED
  BY <1>4, <1>5, <1>6

LEMMA InitOwners == Init => OwnersInv
<1> SUFFICES ASSUME Init PROVE OwnersInv
  OBVIOUS
<1>1. /\ nodes = {} /\ \A c \in Call : recalc[c].dir = Root
  BY DEF Init, NotRecalculating
<1>2. DirOwnerSound /\ OrphansBusy /\ ReadsAgree /\ ParentsPresent /\ OwnedFiles
  BY <1>1 DEF DirOwnerSound, OrphansBusy, ReadsAgree, ParentsPresent, OwnedFiles
<1>3. NothingLost /\ FromOffers /\ OnlyRemovedFilesAreGone
  BY ItemsEmpty DEF Init, NothingLost, FromOffers, OnlyRemovedFilesAreGone
<1> QED
  BY <1>2, <1>3, InitHold, InitFed DEF OwnersInv, TakenInv

LEMMA StepOwners ==
    ASSUME OneKind, TopRemovals PROVE OwnersInv /\ [Next]_vars => OwnersInv'
<1> SUFFICES ASSUME OwnersInv, [Next]_vars PROVE OwnersInv'
  OBVIOUS
<1>0. HoldInv' /\ TakenInv'
  BY TopRemovals, StepHold, StepFed, StepTaken DEF OwnersInv, TakenInv
<1>1. ASSUME NEW c \in Call, Step(c) PROVE OwnersInv'
  <2>1. OrphansBusy' /\ ReadsAgree' /\ ParentsPresent' /\ OwnedFiles'
    BY <1>1, StepOrphans, StepReads, StepParents, StepOwned
  <2>2. DirOwnerSound'
    <3> SUFFICES ASSUME NEW p \in nodes', Mixed(p)'
                 PROVE  \E d \in Call : WillRecalculate(d, p)'
      BY DEF DirOwnerSound, Mixed
    <3>1. Busy(p)'
      BY <1>1, OneKind, TopRemovals, StepSound
    <3> QED
      BY <3>1 DEF Busy, Inside, NodesOf, WillRecalculate
  <2> QED
    BY <1>0, <2>1, <2>2 DEF OwnersInv
<1>2. ASSUME NEW c \in Call, NEW fs \in Lists, Update(c, fs) PROVE OwnersInv'
  BY <1>0, <1>2, UpdateOwners DEF OwnersInv
<1>3. CASE UNCHANGED vars
  <2>1. DirOwnerSound' /\ OrphansBusy' /\ ReadsAgree' /\ ParentsPresent' /\ OwnedFiles'
    BY <1>3 DEF vars, OwnersInv, DirOwnerSound, OrphansBusy, ReadsAgree, ParentsPresent,
       OwnedFiles, Busy, Inside, WillRecalculate, ChildrenOf
  <2> QED
    BY <1>0, <2>1 DEF OwnersInv
<1> QED
  BY <1>1, <1>2, <1>3 DEF Next

\* recalculateOwner leaves no wrong single owner, whatever the other calls of
\* Update do to the children while it reads them: a directory that names one node
\* while a child is another's is about to be recalculated.
THEOREM DirOwnersSettle == ASSUME OneKind, TopRemovals PROVE Spec => []DirOwnerSound
<1>1. Spec => []OwnersInv
  BY OneKind, TopRemovals, InitOwners, StepOwners, PTL DEF Spec
<1>2. OwnersInv => DirOwnerSound
  BY DEF OwnersInv
<1> QED
  BY <1>1, <1>2, PTL

-----------------------------------------------------------------------------
\* What is in the tree can be listed from the root: no restriction on what the
\* nodes announce is needed for that.

Marked(p) == stat[p].dir \/ AnnouncedAsFile(p)

\* The TreeNodes the running calls of update() are at have been made directories.
InsideMarked == \A c \in Call : \A p \in nodes : Inside(c, p) => Marked(p)

ListInv == HoldInv /\ InsideMarked /\ ListedFromRoot

LEMMA PrefixOfParent ==
    ASSUME NEW p \in Path, NEW n \in Place, ChildOf(p, n), NEW k \in 1..Len(n)
    PROVE  SubSeq(n, 1, k) = SubSeq(p, 1, k)
<1>1. /\ p \in Seq(Component) /\ n \in Seq(Component) /\ Len(n) \in Nat
      /\ Len(p) = Len(n) + 1 /\ n = SubSeq(p, 1, Len(n))
  BY PlaceIsSeq DEF Place, ChildOf
<1> DEFINE s == SubSeq(n, 1, k)
           t == SubSeq(p, 1, k)
<1>2. s \in Seq(Component) /\ t \in Seq(Component) /\ Len(s) = k /\ Len(t) = k
  BY <1>1, SubSeqProperties
<1>3. \A i \in 1..Len(n) : n[i] = p[i]
  BY <1>1
<1>4. \A i \in 1..k : s[i] = t[i]
  BY <1>1, <1>3
<1>5. ASSUME NEW u, u = s, NEW v, v = t PROVE u = v
  BY <1>2, <1>4, <1>5, SeqEqual
<1> QED
  BY <1>5

\* A directory stops being one only by an announcement that says so.
LEMMA StepMarked ==
    ASSUME FedInv, NEW c \in Call, Step(c), NEW p \in nodes, Marked(p)
    PROVE  Marked(p)'
<1>0. /\ LockInv /\ Inv /\ stat \in [Path -> Stat] /\ p \in Path /\ files' = files
      /\ RecalcsDirs /\ Delivered' = Delivered
  BY StepLocal DEF FedInv, LockInv, Inv, TypeOK, Delivered
<1>1. ASSUME stat'[p] = stat[p] PROVE Marked(p)'
  BY <1>0, <1>1 DEF Marked, AnnouncedAsFile
<1>2. CASE UNCHANGED <<nodes, stat>>
  BY <1>1, <1>2
<1>3. CASE /\ Top(c).entry \notin nodes
           /\ stat' = [stat EXCEPT ![Top(c).entry] = FreshStat]
  BY <1>0, <1>1, <1>3
<1>4. CASE /\ Apply(c) /\ stack[c] # <<>> /\ Top(c).group # <<>>
           /\ stat' = [stat EXCEPT ![Top(c).entry] = Merge(@, Head(Top(c).group))]
  <2> DEFINE a == Head(Top(c).group)
             n == Top(c).node
  <2>1. /\ a \in Items(files[c]) /\ a \in Announcement /\ n \in Place
        /\ Below(n, a.path) /\ Top(c).entry = Child(n, a.path)
        /\ IsLeaf(n, a) => a.path = Top(c).entry
    BY <1>4, AppliedItem
  <2>2. IsLeaf(n, a) \/ a.del
    BY <1>4 DEF Apply
  <2>3. a \in Delivered
    BY <2>1, DeliveredItems
  <2>4. CASE p = Top(c).entry /\ stat'[p] # stat[p] /\ ~a.dir
    <3>1. ~stat'[p].dir /\ stat'[p].stamp = a.stamp /\ stat'[p].owner = a.owner
      BY <1>0, <1>4, <2>4 DEF Merge, Overwrite
    <3>2. a.path = p \/ (a.del /\ Below(p, a.path))
      <4>1. CASE IsLeaf(n, a)
        BY <2>1, <2>4, <4>1
      <4>2. CASE ~IsLeaf(n, a)
        <5>1. a.path \in Path /\ Len(a.path) # Len(n) + 1
          BY <2>1, <4>2 DEF IsLeaf, Announcement
        <5>2. Below(Child(n, a.path), a.path)
          BY <2>1, <5>1, BelowChild
        <5> QED
          BY <2>1, <2>2, <2>4, <4>2, <5>2
      <4> QED
        BY <4>1, <4>2
    <3> HIDE DEF a
    <3> QED
      BY <1>0, <2>3, <2>4, <3>1, <3>2 DEF Marked, AnnouncedAsFile, Below
  <2>5. CASE p = Top(c).entry /\ stat'[p] # stat[p] /\ a.dir
    <3>1. stat'[p].dir
      BY <1>0, <1>4, <2>5 DEF Merge, Overwrite
    <3> QED
      BY <3>1 DEF Marked
  <2>6. CASE p # Top(c).entry
    BY <1>0, <1>1, <1>4, <2>6
  <2> QED
    BY <1>1, <2>4, <2>5, <2>6
<1>5. CASE stat' = [stat EXCEPT ![Top(c).entry] = AsDir(@)]
  <2>1. stat'[p] = stat[p] \/ stat'[p].dir
    BY <1>0, <1>5 DEF AsDir, Stat
  <2> QED
    BY <1>1, <2>1 DEF Marked
<1>6. CASE /\ recalc[c].dir # Root
           /\ stat' = [stat EXCEPT ![recalc[c].dir].owner = recalc[c].owner]
  <2>1. stat'[p] = stat[p] \/ stat'[p].dir
    BY <1>0, <1>6 DEF RecalcsDirs, Stat
  <2> QED
    BY <1>1, <2>1 DEF Marked
<1> QED
  BY <1>0, <1>2, <1>3, <1>4, <1>5, <1>6, StepStat

LEMMA StepInsideMarked ==
    ASSUME ListInv, NEW c \in Call, Step(c)
    PROVE  InsideMarked'
<1>0. /\ HoldInv /\ FedInv /\ InsideMarked /\ nodes' \subseteq Path
      /\ stack \in [Call -> Seq(Frame)]
  <2>1. HoldInv /\ FedInv /\ Inv /\ InsideMarked
    BY DEF ListInv, HoldInv, FedInv, LockInv
  <2> QED
    BY <2>1, NextInv DEF Next, Inv, TypeOK
<1> SUFFICES ASSUME NEW d \in Call, NEW p \in nodes', p \in NodesOf(stack'[d])
             PROVE  Marked(p)'
  BY DEF InsideMarked, Inside
<1>1. CASE p \in NodesOf(stack[d])
  <2>1. PICK i \in 1..Len(stack[d]) : stack[d][i].node = p
    BY <1>1 DEF NodesOf
  <2>2. p \in nodes \cup {Root}
    BY <1>0, <2>1 DEF FedInv, LockInv, StacksPresent, AllPresent, Present
  <2>3. p \in nodes
    BY <1>0, <2>2, RootNoPath
  <2> QED
    BY <1>0, <1>1, <2>3, StepMarked DEF InsideMarked, Inside
<1>2. CASE p \notin NodesOf(stack[d])
  <2>1. d = c
    BY <1>0, <1>2, StepLocal DEF FedInv, LockInv
  <2>2. EnterDir(c) /\ p = Top(c).entry
    BY <1>0, <1>2, <2>1, StepNodes
  <2>3. stat'[p].dir
    BY <1>0, <2>2, StepEnter
  <2> QED
    BY <2>3 DEF Marked
<1> QED
  BY <1>1, <1>2

LEMMA StepListed ==
    ASSUME ListInv, NEW c \in Call, Step(c)
    PROVE  ListedFromRoot'
<1>0. /\ HoldInv /\ FedInv /\ InsideMarked /\ nodes \subseteq Path /\ nodes \subseteq nodes'
      /\ stack \in [Call -> Seq(Frame)]
      /\ \A p \in nodes : \A k \in 1..(Len(p) - 1) :
            SubSeq(p, 1, k) \in nodes /\ Marked(SubSeq(p, 1, k))
  BY StepNotOlder
     DEF ListInv, HoldInv, FedInv, LockInv, Inv, TypeOK, ListedFromRoot, Marked
<1> SUFFICES ASSUME NEW p \in nodes', NEW k \in 1..(Len(p) - 1)
             PROVE  SubSeq(p, 1, k) \in nodes /\ Marked(SubSeq(p, 1, k))
  <2>1. ASSUME NEW q \in nodes, Marked(q) PROVE q \in nodes' /\ Marked(q)'
    BY <1>0, <2>1, StepMarked
  <2>2. ASSUME NEW q, q \in nodes', Marked(q)' PROVE stat'[q].dir \/ AnnouncedAsFile(q)'
    BY <2>2 DEF Marked
  <2> QED
    BY <2>1, <2>2 DEF ListedFromRoot
<1>1. CASE p \in nodes
  BY <1>0, <1>1
<1>2. CASE p \notin nodes
  <2>1. PICK n \in Place : ChildOf(p, n) /\ Inside(c, n)
    BY <1>0, <1>2, ChangedChild
  <2>2. p \in Path /\ Len(n) \in Nat /\ Len(p) = Len(n) + 1 /\ k \in 1..Len(n)
    BY <2>1, PlaceIsSeq DEF ChildOf
  <2>3. n \in nodes \cup {Root}
    BY <1>0, <2>1 DEF Inside, NodesOf, FedInv, LockInv, StacksPresent, AllPresent, Present
  <2>4. n \in nodes /\ Marked(n)
    <3>1. Len(Root) = 0
      BY DEF Root
    <3>2. n \in nodes
      BY <2>2, <2>3, <3>1
    <3> QED
      BY <1>0, <2>1, <3>2 DEF InsideMarked
  <2>5. CASE k = Len(n)
    BY <2>1, <2>4, <2>5 DEF ChildOf
  <2>6. CASE k # Len(n)
    <3>1. k \in 1..(Len(n) - 1)
      BY <2>2, <2>6
    <3>2. SubSeq(n, 1, k) = SubSeq(p, 1, k)
      BY <2>1, <2>2, PrefixOfParent
    <3> QED
      BY <1>0, <2>4, <3>1, <3>2
  <2> QED
    BY <2>5, <2>6
<1> QED
  BY <1>1, <1>2

LEMMA UpdateListed ==
    ASSUME ListInv, NEW c \in Call, NEW fs \in Lists, Update(c, fs)
    PROVE  InsideMarked' /\ ListedFromRoot'
<1>0. /\ HoldInv /\ nodes \subseteq Path /\ UNCHANGED <<nodes, stat>>
      /\ InsideMarked /\ ListedFromRoot /\ Inv /\ files \in [Call -> Lists \cup {<<>>}]
  BY DEF ListInv, HoldInv, FedInv, LockInv, Inv, TypeOK, Update
<1>1. Delivered \subseteq Delivered'
  <2> SUFFICES ASSUME NEW d \in Call, NEW i \in 1..Len(files[d])
               PROVE  files[d][i] \in Delivered'
    BY DEF Delivered
  <2>1. d # c
    BY DEF Update
  <2>2. files'[d] = files[d]
    BY <1>0, <2>1 DEF Update
  <2>3. files[d][i] \in {files'[d][j] : j \in 1..Len(files'[d])}
    BY <2>2
  <2> QED
    BY <2>3 DEF Delivered
<1>2. \A p \in nodes : Marked(p) => Marked(p)'
  BY <1>0, <1>1 DEF Marked, AnnouncedAsFile
<1>3. InsideMarked'
  BY <1>0, <1>2, UpdateInside DEF InsideMarked
<1>4. ListedFromRoot'
  BY <1>0, <1>2 DEF ListedFromRoot, Marked
<1> QED
  BY <1>3, <1>4

LEMMA StepList == ListInv /\ [Next]_vars => ListInv'
<1> SUFFICES ASSUME ListInv, [Next]_vars PROVE ListInv'
  OBVIOUS
<1>1. HoldInv'
  BY StepHold DEF ListInv
<1>2. InsideMarked' /\ ListedFromRoot'
  <2>1. CASE UNCHANGED vars
    BY <2>1 DEF vars, ListInv, InsideMarked, Inside, Marked, ListedFromRoot,
       AnnouncedAsFile, Delivered
  <2> QED
    BY <2>1, StepInsideMarked, StepListed, UpdateListed DEF Next
<1> QED
  BY <1>1, <1>2 DEF ListInv

\* A directory named by no announcement is made by setAsDir before anything is
\* created in it, so whatever calls of Update are under way, all they have put into
\* the tree can be found by walking it from the root, except below a path that the
\* newest announcement takes for a file.
THEOREM TreeListed == Spec => []ListedFromRoot
<1>1. Init => ListInv
  <2>1. Init => InsideMarked /\ ListedFromRoot
    BY DEF Init, InsideMarked, ListedFromRoot
  <2> QED
    BY <2>1, InitHold DEF ListInv
<1>2. Spec => []ListInv
  BY <1>1, StepList, PTL DEF Spec
<1>3. ListInv => ListedFromRoot
  BY DEF ListInv
<1> QED
  BY <1>2, <1>3, PTL

-----------------------------------------------------------------------------
\* The calls of Update lock a directory before its children, so they cannot all
\* wait for each other's locks.

LEMMA LongestHeld ==
    ASSUME NEW S \in SUBSET Nat, S # {}, NEW m \in Nat, \A k \in S : k =< m
    PROVE  \E k \in S : \A j \in S : j =< k
<1> DEFINE T == {m - k : k \in S}
           R == OpToRel(<, Nat)
<1>1. T \subseteq Nat /\ T # {}
  <2>1. \A k \in S : k \in Nat /\ k =< m /\ m - k \in Nat
    OBVIOUS
  <2> QED
    BY <2>1
<1>2. PICK x \in T : \A y \in T : <<y, x>> \notin R
  <2>1. IsWellFoundedOn(R, Nat)
    BY NatLessThanWellFounded
  <2> HIDE DEF R, T
  <2> QED
    BY <1>1, <2>1, WFMin
<1>3. \A y \in T : ~(y < x)
  BY <1>1, <1>2 DEF OpToRel
<1>4. PICK k \in S : x = m - k
  OBVIOUS
<1>5. ASSUME NEW j \in S PROVE j =< k
  <2>1. m - j \in T
    OBVIOUS
  <2> HIDE DEF T
  <2> QED
    BY <1>3, <1>4, <2>1
<1> QED
  BY <1>5

LEMMA LongestGoesOn ==
    ASSUME HoldInv, NEW m \in Nat, \A p \in Path : Len(p) =< m
    PROVE  SomeCallGoesOn
<1>0. /\ RecalcsBelong /\ RecalcsOpen /\ recalc \in [Call -> Recalc]
      /\ \A c \in Call : recalc[c].dir \in Place /\ Len(recalc[c].dir) \in Nat
  <2>1. recalc \in [Call -> Recalc] /\ RecalcsBelong /\ RecalcsOpen
    BY DEF HoldInv, FedInv, LockInv, Inv, TypeOK
  <2> QED
    BY <2>1, PlaceIsSeq DEF Recalc, Place
<1> SUFFICES ASSUME NEW c \in Call, stack[c] # <<>>
             PROVE  \E d \in Call : stack[d] # <<>> /\ ~Blocked(d)
  BY DEF SomeCallGoesOn, Quiescent
<1>1. CASE \A d \in Call : recalc[d].dir = Root
  BY <1>1 DEF Blocked, Locked
<1>2. CASE \E d \in Call : recalc[d].dir # Root
  <2> DEFINE S == {Len(recalc[d].dir) : d \in {e \in Call : recalc[e].dir # Root}}
  <2>1. /\ S \in SUBSET Nat /\ S # {}
        /\ \A k \in S : k =< m
    BY <1>0, <1>2 DEF Place
  <2>2. \E k \in S : \A j \in S : j =< k
    <3> HIDE DEF S
    <3> QED
      BY <2>1, LongestHeld
  <2>3. PICK d \in Call : /\ recalc[d].dir # Root
                          /\ \A e \in Call : recalc[e].dir # Root =>
                                Len(recalc[e].dir) =< Len(recalc[d].dir)
    BY <2>2
  <2>4. stack[d] # <<>> /\ ~Active(d)
    BY <1>0, <2>3 DEF RecalcsBelong, Active
  <2>5. ASSUME NEW q \in recalc[d].unread, Locked(q) PROVE FALSE
    <3>1. Len(q) = Len(recalc[d].dir) + 1
      BY <1>0, <2>3 DEF RecalcsOpen, ChildrenOf
    <3>2. PICK e \in Call : q # Root /\ recalc[e].dir = q
      BY <2>5 DEF Locked
    <3> QED
      BY <1>0, <2>3, <3>1, <3>2
  <2> QED
    BY <2>3, <2>4, <2>5 DEF Blocked
<1> QED
  BY <1>1, <1>2

\* Calls that wait for the lock of a TreeNode form no cycle: recalculateOwner holds
\* one lock and waits only for those of the children, and nothing else holds one
\* while it waits.  The paths of a file system are of bounded depth.
THEOREM NoDeadlock ==
    ASSUME NEW m \in Nat, \A p \in Path : Len(p) =< m
    PROVE  Spec => []SomeCallGoesOn
<1>1. Spec => []HoldInv
  BY InitHold, StepHold, PTL DEF Spec
<1>2. HoldInv => SomeCallGoesOn
  BY LongestGoesOn
<1> QED
  BY <1>1, <1>2, PTL
=============================================================================
