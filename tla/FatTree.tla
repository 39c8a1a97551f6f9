------------------------------ MODULE FatTree -------------------------------
(***************************************************************************)
(* The file tree of one node (dfsfat.TreeNode) and the concurrent calls of *)
(* TreeNode.Update that write it.  main() makes one call for the local     *)
(* scan before anything else runs; afterwards every ReceiveUpdate          *)
(* goroutine makes one.  A step below is one critical section of a         *)
(* TreeNode's RWMutex, or purely local work of one call.                   *)
(*                                                                         *)
(* A TreeNode is never removed from its parent's childNodes, so it is      *)
(* identified with its path: the sequence of its name components.  The     *)
(* root is the empty path; it is always present and has no announcements.  *)
(***************************************************************************)
EXTENDS Naturals, Sequences, FiniteSets, FileStat

CONSTANTS
    Path,       \* the paths below the root, closed under non-empty prefixes
    Call,       \* the calls of TreeNode.Update
    ScanCall,   \* the one main() makes through LocalFs.ScanOnce
    Lists,      \* the file lists an Update may be called with
    LocalList   \* the one the local scan produces

Root == <<>>

\* FileAnnouncement, with the parts of the embedded FileStat that Update reads.
Announcement ==
    [path : Path, dir : BOOLEAN, stamp : Nat \ {0}, owner : Owner, del : BOOLEAN]

ASSUME PathAssumption ==
    /\ Path \subseteq Seq(UNION {{p[i] : i \in DOMAIN p} : p \in Path})
    /\ \A p \in Path : Len(p) > 0 /\ \A k \in 1..Len(p) : SubSeq(p, 1, k) \in Path

ASSUME ListAssumption ==
    Lists \subseteq Seq(Announcement) /\ LocalList \in Lists /\ ScanCall \in Call

VARIABLES
    nodes,    \* the paths that have a TreeNode
    stat,     \* [Path -> Stat] the fileStat of each TreeNode
    files,    \* [Call -> argument of the call; <<>> before it is made]
    stack,    \* [Call -> its active update() frames, innermost first]
    recalc    \* [Call -> the recalculateOwner it is in the middle of]

vars == <<nodes, stat, files, stack, recalc>>

\* One activation of update(): the TreeNode it runs on, the announcements not
\* yet grouped, and of the current group its TreeNode, the announcements left
\* in faGroup.files and those moved to nestedFiles.  "missed" is set between a
\* lookup that found nothing and the creation that follows it.
Frame == [node : Path \cup {Root}, todo : Seq(Announcement),
          entry : Path \cup {Root}, group : Seq(Announcement),
          nested : Seq(Announcement), missed : BOOLEAN]

\* recalculateOwner holds the lock of dir while it reads the children one by
\* one; dir = Root when the call is not in recalculateOwner.
Recalc == [dir : Path \cup {Root}, unread : SUBSET Path,
           owner : Owner \cup {NoOwner, Multiple}]

NotRecalculating == [dir |-> Root, unread |-> {}, owner |-> NoOwner]

-----------------------------------------------------------------------------
\* Paths and announcements.

\* Variant of Child that takes one component too few.
ChildTooShort(n, p) == SubSeq(p, 1, Len(n))

\* namePart: the child of n that the announced path goes through.
Child(n, p) == SubSeq(p, 1, Len(n) + 1)

\* isLeaf, seen from the update() that runs on n.
IsLeaf(n, a) == Len(a.path) = Len(n) + 1

ChildrenOf(n) == {q \in nodes : Len(q) = Len(n) + 1 /\ SubSeq(q, 1, Len(n)) = n}

\* groupAnnouncementsByFilepart: the next group is the longest run of
\* announcements that go through the same child of n.
IsGroup(n, fs, k) ==
    /\ \A i \in 1..k : Child(n, fs[i].path) = Child(n, fs[1].path)
    /\ k < Len(fs) => Child(n, fs[k + 1].path) # Child(n, fs[1].path)

-----------------------------------------------------------------------------
\* Locks, frames and calls.

\* Variant of Locked: recalculateOwner takes no lock.
NeverLocked(p) == FALSE

\* Only recalculateOwner keeps a TreeNode locked across steps.
Locked(p) == \E c \in Call : p # Root /\ recalc[c].dir = p

Top(c) == Head(stack[c])

Active(c) == stack[c] # <<>> /\ recalc[c].dir = Root

ReplaceTop(c, f) == stack' = [stack EXCEPT ![c] = <<f>> \o Tail(@)]

NewFrame(n, fs) == [node |-> n, todo |-> fs, entry |-> Root, group |-> <<>>,
                    nested |-> <<>>, missed |-> FALSE]

GroupDone(f) == f.group = <<>> /\ f.nested = <<>>

Returned(c) == files[c] # <<>> /\ stack[c] = <<>>

Init ==
    /\ nodes = {}
    /\ stat = [p \in Path |-> FreshStat]
    /\ files = [c \in Call |-> <<>>]
    /\ stack = [c \in Call |-> <<>>]
    /\ recalc = [c \in Call |-> NotRecalculating]

\* TreeNode.Update.  The call of the local scan returns before the cluster
\* starts and can receive anything.
Update(c, fs) ==
    /\ files[c] = <<>>
    /\ IF c = ScanCall THEN fs = LocalList ELSE Returned(ScanCall)
    /\ files' = [files EXCEPT ![c] = fs]
    /\ stack' = [stack EXCEPT ![c] = <<NewFrame(Root, fs)>>]
    /\ UNCHANGED <<nodes, stat, recalc>>

\* Start the next group: look its TreeNode up under n.RLock.
Lookup(c) ==
    /\ Active(c) /\ GroupDone(Top(c)) /\ Top(c).todo # <<>> /\ ~Locked(Top(c).node)
    /\ LET f == Top(c)
           e == Child(f.node, f.todo[1].path)
       IN \E k \in 1..Len(f.todo) :
            /\ IsGroup(f.node, f.todo, k)
            /\ ReplaceTop(c, [f EXCEPT !.entry = e,
                                       !.group = SubSeq(f.todo, 1, k),
                                       !.todo = SubSeq(f.todo, k + 1, Len(f.todo)),
                                       !.missed = e \notin nodes])
    /\ UNCHANGED <<nodes, stat, files, recalc>>

\* Variant of Create without the second lookup.
CreateAnyway(c) ==
    /\ Active(c) /\ Top(c).missed /\ ~Locked(Top(c).node)
    /\ nodes' = nodes \cup {Top(c).entry}
    /\ stat' = [stat EXCEPT ![Top(c).entry] = FreshStat]
    /\ ReplaceTop(c, [Top(c) EXCEPT !.missed = FALSE])
    /\ UNCHANGED <<files, recalc>>

\* The lookup found nothing: look again under n.Lock, create it if still absent.
Create(c) ==
    /\ Active(c) /\ Top(c).missed /\ ~Locked(Top(c).node)
    /\ IF Top(c).entry \in nodes
       THEN UNCHANGED <<nodes, stat>>
       ELSE /\ nodes' = nodes \cup {Top(c).entry}
            /\ stat' = [stat EXCEPT ![Top(c).entry] = FreshStat]
    /\ ReplaceTop(c, [Top(c) EXCEPT !.missed = FALSE])
    /\ UNCHANGED <<files, recalc>>

\* Next announcement of the group, which belongs further down: keep it for the
\* recursive update() (local to the call).
Descend(c) ==
    /\ Active(c) /\ ~Top(c).missed /\ Top(c).group # <<>>
    /\ LET f == Top(c)
           a == Head(f.group)
       IN /\ ~IsLeaf(f.node, a) /\ ~a.del
          /\ ReplaceTop(c, [f EXCEPT !.group = Tail(@), !.nested = Append(@, a)])
    /\ UNCHANGED <<nodes, stat, files, recalc>>

\* Next announcement of the group, applied to the entry under entry.Lock.  A
\* deletion is applied here whatever its path still has below this entry.
Apply(c) ==
    /\ Active(c) /\ ~Top(c).missed /\ Top(c).group # <<>>
    /\ LET f == Top(c)
           a == Head(f.group)
       IN /\ IsLeaf(f.node, a) \/ a.del
          /\ ~Locked(f.entry)
          /\ stat' = [stat EXCEPT ![f.entry] = Merge(@, a)]
          /\ ReplaceTop(c, [f EXCEPT !.group = Tail(@)])
    /\ UNCHANGED <<nodes, files, recalc>>

\* Variant of EnterDir that leaves the entry what it was.
EnterDirUnmarked(c) ==
    /\ Active(c) /\ ~Top(c).missed /\ Top(c).group = <<>> /\ Top(c).nested # <<>>
    /\ ~Locked(Top(c).entry)
    /\ stack' = [stack EXCEPT ![c] = <<NewFrame(Top(c).entry, Top(c).nested),
                                      [Top(c) EXCEPT !.nested = <<>>]>> \o Tail(@)]
    /\ UNCHANGED <<nodes, stat, files, recalc>>

\* entry.setAsDir(), then the recursive entry.update(nestedFiles) begins.
EnterDir(c) ==
    /\ Active(c) /\ ~Top(c).missed /\ Top(c).group = <<>> /\ Top(c).nested # <<>>
    /\ ~Locked(Top(c).entry)
    /\ LET f == Top(c)
       IN /\ stat' = [stat EXCEPT ![f.entry] = AsDir(@)]
          /\ stack' = [stack EXCEPT ![c] =
                 <<NewFrame(f.entry, f.nested), [f EXCEPT !.nested = <<>>]>> \o Tail(@)]
    /\ UNCHANGED <<nodes, files, recalc>>

\* Variant of Return without the recalculation.
ReturnOnly(c) ==
    /\ Active(c) /\ GroupDone(Top(c)) /\ Top(c).todo = <<>>
    /\ stack' = [stack EXCEPT ![c] = Tail(@)]
    /\ UNCHANGED <<nodes, stat, files, recalc>>

\* Variant of Return: recalculateOwner reads the directory itself, too.
ReturnReadsItself(c) ==
    /\ Active(c) /\ GroupDone(Top(c)) /\ Top(c).todo = <<>>
    /\ ~Locked(Top(c).node)
    /\ stack' = [stack EXCEPT ![c] = Tail(@)]
    /\ recalc' = [recalc EXCEPT ![c] =
          IF Top(c).node # Root /\ stat[Top(c).node].dir
          THEN [dir |-> Top(c).node, owner |-> NoOwner,
                unread |-> ChildrenOf(Top(c).node) \cup {Top(c).node}]
          ELSE NotRecalculating]
    /\ UNCHANGED <<nodes, stat, files>>

\* An update() frame returns; its caller goes on with entry.recalculateOwner(),
\* which locks the entry and gives up at once if it is not a directory.
Return(c) ==
    /\ Active(c) /\ GroupDone(Top(c)) /\ Top(c).todo = <<>>
    /\ ~Locked(Top(c).node)
    /\ stack' = [stack EXCEPT ![c] = Tail(@)]
    /\ recalc' = [recalc EXCEPT ![c] =
          IF Top(c).node # Root /\ stat[Top(c).node].dir
          THEN [dir |-> Top(c).node, unread |-> ChildrenOf(Top(c).node),
                owner |-> NoOwner]
          ELSE NotRecalculating]
    /\ UNCHANGED <<nodes, stat, files>>

\* e.GetFilestat() of one more child, in Go's random map order.
ReadChild(c) ==
    /\ \E q \in recalc[c].unread :
          /\ ~Locked(q)
          /\ recalc' = [recalc EXCEPT
                ![c].unread = @ \ {q},
                ![c].owner = CombineOwner(@, stat[q].owner)]
    /\ UNCHANGED <<nodes, stat, files, stack>>

\* Variant of SetOwner that does not unlock.
SetOwnerKeepLock(c) ==
    /\ recalc[c].dir # Root /\ recalc[c].unread = {}
    /\ stat' = [stat EXCEPT ![recalc[c].dir].owner = recalc[c].owner]
    /\ UNCHANGED <<nodes, files, stack, recalc>>

\* All children read: store the owner and unlock.
SetOwner(c) ==
    /\ recalc[c].dir # Root /\ recalc[c].unread = {}
    /\ stat' = [stat EXCEPT ![recalc[c].dir].owner = recalc[c].owner]
    /\ recalc' = [recalc EXCEPT ![c] = NotRecalculating]
    /\ UNCHANGED <<nodes, files, stack>>

Step(c) ==
    \/ Lookup(c) \/ Create(c) \/ Descend(c) \/ Apply(c) \/ EnterDir(c)
    \/ Return(c) \/ ReadChild(c) \/ SetOwner(c)

Next == \E c \in Call : Step(c) \/ \E fs \in Lists : Update(c, fs)

Spec == Init /\ [][Next]_vars

\* A call in progress is a runnable goroutine that only ever waits for a
\* TreeNode's mutex.
FairSpec == Spec /\ \A c \in Call : WF_vars(Step(c))

-----------------------------------------------------------------------------
\* What a call still has to do.

\* Call c will still run recalculateOwner on p, or is in it.
WillRecalculate(c, p) ==
    \/ \E i \in 1..Len(stack[c]) : stack[c][i].node = p
    \/ recalc[c].dir = p

\* Call c has found or created the TreeNode of p and is not done with it.
WorkingOn(c, p) ==
    \E i \in 1..Len(stack[c]) :
        /\ stack[c][i].entry = p
        /\ i > 1 \/ recalc[c].dir = p \/ ~GroupDone(stack[c][i])

\* Call c can go on only after another call has unlocked a TreeNode: a child it
\* has to read, the directory it is in, or the entry it has in hand.
Blocked(c) ==
    \/ /\ recalc[c].dir # Root /\ recalc[c].unread # {}
       /\ \A q \in recalc[c].unread : Locked(q)
    \/ /\ Active(c)
       /\ IF Top(c).missed \/ GroupDone(Top(c))
          THEN Locked(Top(c).node) ELSE Locked(Top(c).entry)

Quiescent == \A c \in Call : stack[c] = <<>>

\* The announcements handed to Update so far.
Delivered == UNION {{files[c][i] : i \in 1..Len(files[c])} : c \in Call}

-----------------------------------------------------------------------------
\* Properties.

\* Every variable keeps its shape (the structs of fat.go and update.go).
TypeOK ==
    /\ nodes \subseteq Path
    /\ stat \in [Path -> Stat]
    /\ files \in [Call -> Lists \cup {<<>>}]
    /\ stack \in [Call -> Seq(Frame)]
    /\ recalc \in [Call -> Recalc]

\* The write lock recalculateOwner keeps while it reads the children: no other
\* call adds a child to that directory, or rewrites its own fileStat, until the
\* owner computed from the children is stored.
LockedDirStable ==
    [][\A c \in Call : recalc[c].dir # Root /\ recalc'[c].dir = recalc[c].dir =>
          /\ ChildrenOf(recalc[c].dir)' = ChildrenOf(recalc[c].dir)
          /\ stat'[recalc[c].dir] = stat[recalc[c].dir]]_vars

\* update() leaves no half-made TreeNode behind: an entry that has no owner
\* yet (the placeholder update() links into the tree before it fills it in) is
\* one that some running Update call still has in hand.
NoAbandonedPlaceholder ==
    \A p \in nodes : stat[p].owner = NoOwner => \E c \in Call : WorkingOn(c, p)

\* recalculateOwner, run by interleaved calls over children that change under
\* it, never leaves a wrong single owner: a directory that names one node as
\* its owner while a child belongs to somebody else is about to be recalculated.
DirOwnerSound ==
    \A p \in nodes :
        (stat[p].dir /\ stat[p].owner \in Owner
            /\ \E q \in ChildrenOf(p) : stat[q].owner # stat[p].owner)
        => \E c \in Call : WillRecalculate(c, p)

\* The LastInfoUpdated comparison, under any interleaving of calls and their
\* lookups and creations: once all calls have returned, a path that was
\* announced carries the newest scan time it was announced with, and a file
\* belongs to a node that announced it with that time.
NewestWins ==
    Quiescent => \A p \in Path :
        LET offers == {a \in Delivered : a.path = p}
        IN offers # {} =>
            /\ p \in nodes
            /\ \A a \in offers : a.stamp =< stat[p].stamp
            /\ ~stat[p].dir => \E a \in offers :
                  a.stamp = stat[p].stamp /\ a.owner = stat[p].owner /\ ~a.dir

\* Update never forgets: no step unlinks a TreeNode or replaces an entry by
\* older information.
NeverOlder ==
    [][/\ nodes \subseteq nodes'
       /\ \A p \in nodes : stat'[p].stamp >= stat[p].stamp]_vars

\* An announcement of the removal of a file is about that file: an entry that
\* nobody announced as removed is not marked as removed (README.md: "the node
\* treats the item as file removal notification").
OnlyRemovedFilesAreGone ==
    \A p \in nodes : stat[p].gone => \E a \in Delivered : a.del /\ a.path = p

\* The newest announcement that reached the entry of p says that it is no
\* directory, or removes something below it.
AnnouncedAsFile(p) ==
    \E a \in Delivered :
        /\ ~a.dir /\ a.stamp = stat[p].stamp /\ a.owner = stat[p].owner
        /\ \/ a.path = p
           \/ a.del /\ Len(a.path) > Len(p) /\ SubSeq(a.path, 1, Len(p)) = p

\* What update() links into the tree can be listed from the root, in the middle
\* of any calls: every path above it is there, and setAsDir has made it a
\* directory, announced or not; only a path that was announced as a file since
\* then hides what it has below.
ListedFromRoot ==
    \A p \in nodes : \A k \in 1..(Len(p) - 1) :
        LET q == SubSeq(p, 1, k)
        IN q \in nodes /\ (stat[q].dir \/ AnnouncedAsFile(q))

\* The nested locking of recalculateOwner (a directory, then one child of it at
\* a time) never has all calls waiting for each other's locks.
SomeCallGoesOn ==
    ~Quiescent => \E c \in Call : stack[c] # <<>> /\ ~Blocked(c)

\* Under fair scheduling every call of Update returns.
UpdateReturns == \A c \in Call : (files[c] # <<>>) ~> Returned(c)

\* Paths that are only ever announced as files: by no list as a directory, and
\* no list has anything below them.
PlainFile ==
    {p \in Path : \A fs \in Lists : \A i \in 1..Len(fs) :
        /\ fs[i].path = p => ~fs[i].dir
        /\ Len(fs[i].path) > Len(p) => SubSeq(fs[i].path, 1, Len(p)) # p}

\* For those files the whole machinery implements LastWriter.
LW == INSTANCE LastWriter WITH
    File <- PlainFile,
    offered <- {[file |-> a.path, stamp |-> a.stamp, owner |-> a.owner] :
                    a \in {b \in Delivered : b.path \in PlainFile}},
    entry <- [p \in PlainFile |-> [stamp |-> stat[p].stamp, owner |-> stat[p].owner]]

ImplementsLastWriter == LW!Spec

FilesSettle == LW!Settles
=============================================================================
