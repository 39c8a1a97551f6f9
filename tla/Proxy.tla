-------------------------------- MODULE Proxy -------------------------------
(***************************************************************************)
(* Reading a path through any node (cluster.Proxy.OpenRead, the GET /fs/   *)
(* handler and the FTP driver's GetFile): each node looks the path up in   *)
(* its own tree and serves it from its disk, or passes the request on to   *)
(* the node it takes for the owner, as GET /fs/ with redirN.  A handler    *)
(* works on the snapshot of the entry it has taken, while the Replicas go  *)
(* on changing.  Reads change nothing, so one of them is enough.           *)
(***************************************************************************)
EXTENDS Replicas

VARIABLE read   \* the read, see Read

vars == <<replicaVars, read>>

MaxRedirectDepth == 2

\* The read has been passed on by the nodes "via" and is handled at node "at":
\* it has yet to look up the path, or to open what it has found ("ro", from
\* GetReadonly).  "slash": the path ends in a slash.  "since" is the scan time
\* that the node which was asked found, "settled" whether all replicas had
\* merged all updates when it was asked, and no node has restarted since.
Read == [stage : {"none", "seek", "open", "done"}, face : {"http", "ftp"},
         at : Owner, via : SUBSET Owner, slash : BOOLEAN, redirN : Nat,
         ro : Stat, since : Nat, settled : BOOLEAN,
         answer : {"none", "contents", "listing", "refused", "broken"}]

Active == read.stage \in {"seek", "open"}

\* The request is handled by GET /fs/: a public one, or one passed on.
ByFs == read.face = "http" \/ read.via # {}

Init ==
    /\ ReplicasInit
    /\ \E n \in Owner, f \in {"http", "ftp"} :
         read = [stage |-> "none", face |-> f, at |-> n, via |-> {},
                 slash |-> FALSE, redirN |-> 0, ro |-> FreshStat, since |-> 0,
                 settled |-> FALSE, answer |-> "none"]

End(answer) ==
    read' = [read EXCEPT !.stage = "done", !.answer = answer, !.ro = FreshStat]

-----------------------------------------------------------------------------

\* A user asks node read.at.
Ask ==
    /\ read.stage = "none"
    /\ read' = [read EXCEPT !.stage = "seek", !.settled = Settled]
    /\ UNCHANGED replicaVars

\* TreeNode.Seek has no such entry.
NotFound ==
    /\ read.stage = "seek" /\ read.at \notin created
    /\ End("refused")
    /\ UNCHANGED replicaVars

\* The entry is a directory.  GetFile refuses it; Fs lists it, but first
\* redirects to the path with a slash, without the query and so without redirN.
FindDir ==
    /\ read.stage = "seek" /\ read.at \in created /\ entry[read.at].dir
    /\ \/ ~ByFs /\ End("refused")
       \/ ByFs /\ read.slash /\ End("listing")
       \/ /\ ByFs /\ ~read.slash
          /\ read' = [read EXCEPT !.slash = TRUE, !.redirN = 0]
    /\ UNCHANGED replicaVars

\* The entry is a file: go on to OpenRead with the snapshot of it.
FindFile ==
    /\ read.stage = "seek" /\ read.at \in created /\ ~entry[read.at].dir
    /\ read' = [read EXCEPT !.stage = "open", !.ro = entry[read.at],
                            !.since = IF read.via = {} THEN entry[read.at].stamp ELSE @]
    /\ UNCHANGED replicaVars

\* OpenRead of a file of this node, and the copying that follows.
OpenLocal ==
    /\ read.stage = "open" /\ read.ro.owner = read.at
    /\ End(IF disk[read.at] = "file" THEN "contents" ELSE "refused")
    /\ UNCHANGED replicaVars

\* OpenRead: TooManyRedirectsError, UnknownNodeError.
TooMany ==
    /\ read.stage = "open" /\ read.ro.owner # read.at
    /\ read.redirN >= MaxRedirectDepth
    /\ End("refused")
    /\ UNCHANGED replicaVars

UnknownNode ==
    /\ read.stage = "open" /\ read.ro.owner # read.at
    /\ read.redirN < MaxRedirectDepth /\ read.ro.owner \notin peers[read.at]
    /\ End("refused")
    /\ UNCHANGED replicaVars

\* Variant of Forward that passes redirN on as it came.
ForwardUncounted ==
    /\ read.stage = "open" /\ read.ro.owner # read.at
    /\ read.redirN < MaxRedirectDepth /\ read.ro.owner \in peers[read.at]
    /\ read' = [read EXCEPT !.stage = "seek", !.at = read.ro.owner,
                            !.via = @ \cup {read.at}, !.slash = FALSE,
                            !.ro = FreshStat]
    /\ UNCHANGED replicaVars

\* OpenRead: GET /fs/ with redirN at the owner's public address.
Forward ==
    /\ read.stage = "open" /\ read.ro.owner # read.at
    /\ read.redirN < MaxRedirectDepth /\ read.ro.owner \in peers[read.at]
    /\ read' = [read EXCEPT !.stage = "seek", !.at = read.ro.owner,
                            !.via = @ \cup {read.at}, !.slash = FALSE,
                            !.redirN = @ + 1, !.ro = FreshStat]
    /\ UNCHANGED replicaVars

\* The GET that passed the request on fails.
Break ==
    /\ Active /\ read.via # {}
    /\ End("broken")
    /\ UNCHANGED replicaVars

\* The read does not survive a restart of a node that takes part in it.
Restart(n, t) ==
    /\ RestartReplica(n, t)
    /\ IF Active /\ n \in read.via \cup {read.at} THEN End("broken")
       ELSE read' = [read EXCEPT !.settled = FALSE]

\* The handlers of a read.
Handle == NotFound \/ FindDir \/ FindFile \/ OpenLocal \/ TooMany \/ UnknownNode \/ Forward

Next ==
    \/ Running /\ UNCHANGED read
    \/ \E n \in Owner, t \in 1..MaxTime : Restart(n, t)
    \/ Ask \/ Handle \/ Break

Spec == Init /\ [][Next]_vars

\* Handlers run; nothing is assumed of the users, the disks or the updates.
FairSpec == Spec /\ WF_vars(Handle)

-----------------------------------------------------------------------------
\* Properties.

\* The read keeps its shape, and so do the replicas.
TypeOK == ReplicasTypeOK /\ read \in Read

\* Nodes restart, or disks change behind their backs, but not both: a node that
\* has announced the path goes on announcing it, with scan times that do not
\* decrease.
Lasting == restarts = 0 \/ changes = 0

\* However far apart the trees are, a request is never passed back to a node it
\* has come through, because along the chain the announcements get newer.  (After
\* a restart that finds another disk they need not, and only MaxRedirectDepth ends
\* the circle.)
NoRedirectLoop == Lasting => read.at \notin read.via

\* The node that is asked may take an outdated owner's word, and so may those the
\* request is passed on to, but what is served has been announced no earlier than
\* what the node that was asked knows of.
NeverOlderCopy ==
    read.answer = "contents" /\ Lasting => scan[read.at].time >= read.since

\* README.md: "Every node stores a complete tree", and serves any file of it: once
\* all updates are in, whoever is asked has the file served by a node with the
\* newest announcement, the several owners of a tie and the updates of a node's
\* earlier lives included.
ReadableOnceSettled ==
    /\ read.stage = "done" /\ read.answer # "broken"
    /\ read.settled /\ changes = 0
    /\ Newest # {} /\ \A n \in Newest : disk[n] = "file"
    => read.answer = "contents" /\ read.at \in Newest

\* Every read comes to an end, restarts and circles between trees included.
ReadsEnd == Active ~> read.stage = "done"

\* Restarts, repeated updates and reads included, the replicas exchange updates as
\* Exchange says, which Cluster implements step by step: only peers are pushed to,
\* only peers' updates are merged, and a restart forgets both.
X == INSTANCE Exchange WITH
    Node <- Owner,
    sent <- {<<u.from, u.to>> : u \in mail},
    merged <- [n \in Owner |-> {m \in Owner : heard[n][m] # 0}]

ImplementsExchange == X!Spec

\* README.md: "If `path` points to a directory, displays nginx-like directory
\* listing for this directory. Otherwise, serves the file contents": a node that
\* takes the path for a file does not answer with a listing.
FilesAreNotListings == read.answer = "listing" => read.via = {}
=============================================================================
