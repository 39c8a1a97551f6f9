------------------------------ MODULE FtpDriver -----------------------------
(***************************************************************************)
(* The driver through which an FTP session sees the file tree (ftpface):   *)
(* read-only, without state of its own.  Each call looks its path up anew, *)
(* while updates change the tree.                                          *)
(***************************************************************************)
EXTENDS Integers, Sequences

CONSTANTS
    Name,      \* file names
    TreePath   \* the paths that may get a TreeNode, the root included

Path == Seq(Name)
Root == <<>>

ASSUME TreeAssumption == TreePath \subseteq Path /\ Root \in TreePath

\* What the TreeNode of a path is, if there is one; "gone": IsDeleted().
Kind == {"none", "dir", "file", "gone"}

VARIABLE tree   \* [TreePath -> Kind]

\* DfsRoot.Seek.
Seek(p) == IF p \in TreePath THEN tree[p] ELSE "none"

Above(p) == SubSeq(p, 1, Len(p) - 1)

\* Whatever updates have made of the tree so far.
TreeInit ==
    /\ tree \in [TreePath -> Kind]
    /\ tree[Root] = "dir"
    /\ \A p \in TreePath \ {Root} : tree[p] # "none" => Seek(Above(p)) # "none"

\* TreeNode.Update by other goroutines: a TreeNode appears, or becomes a
\* directory, a file or a removed one; none is ever unlinked.
ChangeTree(p, kind) ==
    /\ p # Root /\ kind # "none" /\ tree[p] # kind
    /\ Seek(Above(p)) # "none"
    /\ tree' = [tree EXCEPT ![p] = kind]

\* Stat finds removed entries, too.
StatFinds(p) == Seek(p) # "none"

\* ChangeDir and ListDir refuse what is not a directory now.
ChangeDir(p) == Seek(p) = "dir"
ListDir(p) == Seek(p) = "dir"

\* GetFile comes as far as Proxy.OpenRead, which may still fail.
GetFile(p, offset) == offset =< 0 /\ Seek(p) \in {"file", "gone"}

\* DeleteDir, DeleteFile, Rename, MakeDir: ReadOnlyAccessError, whatever the path.
Modify(p) == FALSE

\* PutFile: NotImplementedError.
PutFile(p) == FALSE

\* CheckPasswd: every user and password.
CheckPasswd(user) == TRUE
=============================================================================
