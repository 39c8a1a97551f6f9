------------------------------ MODULE FileStat ------------------------------
(***************************************************************************)
(* What a TreeNode records of its path (dfsfat.FileStat), and the changes  *)
(* package dfsfat makes to it: an announcement adopted or dropped, the     *)
(* turn into a directory, the owner computed from the children.            *)
(***************************************************************************)
EXTENDS Naturals

CONSTANTS
    Owner,      \* node names
    NoOwner,    \* the zero value "" of OwnerNode
    Multiple    \* MultipleNodeOwners

ASSUME OwnerAssumption ==
    NoOwner # Multiple /\ NoOwner \notin Owner /\ Multiple \notin Owner

\* FileStat: Dir, LastInfoUpdated, OwnerNode and IsDeleted (SizeInBytes < 0).
Stat == [dir : BOOLEAN, stamp : Nat, owner : Owner \cup {NoOwner, Multiple},
         gone : BOOLEAN]

\* Variant of FreshStat that marks a file of unknown size with size -1.
FreshStatNoSize == [dir |-> FALSE, stamp |-> 0, owner |-> NoOwner, gone |-> TRUE]

\* The fileStat of a TreeNode that update() has just created.
FreshStat == [dir |-> FALSE, stamp |-> 0, owner |-> NoOwner, gone |-> FALSE]

\* entry.fileStat = fa.FileStat, and the directory owner correction after it.
Overwrite(old, a) ==
    [dir |-> a.dir, stamp |-> a.stamp, gone |-> a.del,
     owner |-> IF a.dir /\ old.owner # NoOwner /\ old.owner # a.owner
               THEN Multiple
               ELSE a.owner]

\* Variant of Merge that does not compare scan times.
MergeLatestCall(old, a) == Overwrite(old, a)

\* Variants of Merge: one that adopts announcements as old as what the entry has,
\* and one that adopts only the first.
MergeTies(old, a) == IF a.stamp >= old.stamp THEN Overwrite(old, a) ELSE old
MergeOnce(old, a) == IF old.owner = NoOwner THEN Overwrite(old, a) ELSE old

\* An announcement is dropped unless it is newer than what the entry has.
Merge(old, a) == IF a.stamp > old.stamp THEN Overwrite(old, a) ELSE old

\* setAsDir: SizeInBytes = 0 also clears the deletion mark.
AsDir(old) == [old EXCEPT !.dir = TRUE, !.gone = FALSE]

\* Variant of CombineOwner that stays with the first child's owner.
CombineFirst(acc, owner) == IF acc = NoOwner THEN owner ELSE acc

\* The body of recalculateOwner's loop.
CombineOwner(acc, owner) ==
    IF acc = NoOwner THEN owner ELSE IF acc # owner THEN Multiple ELSE acc
=============================================================================
