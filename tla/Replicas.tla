------------------------------ MODULE Replicas ------------------------------
(***************************************************************************)
(* One path of the distributed tree on every node: what is on the local    *)
(* disks, what each node found there in its last full scan, what the full  *)
(* updates carry, and the entry each node has for the path.  Greetings,    *)
(* pushes and merges are whole here (Cluster and FatTree have their steps);*)
(* nodes restart, and updates are delayed, repeated, reordered and lost.   *)
(*                                                                         *)
(* All nodes have the same mount point.  The path is a file or a directory *)
(* without announcements below it, so that setAsDir is not involved.       *)
(***************************************************************************)
EXTENDS Naturals, FileStat

CONSTANTS
    MaxTime,     \* bound on scan times
    MaxChanges,  \* bound on changes of the disks behind the nodes' backs
    MaxRestarts  \* bound on restarts

ASSUME ReplicasAssumption ==
    MaxTime \in Nat /\ MaxChanges \in Nat /\ MaxRestarts \in Nat

VARIABLES
    disk,     \* [Owner -> what is at the path on the local disk]
    scan,     \* [Owner -> LastFullScan and LastFullScanTime]
    created,  \* the nodes that have a TreeNode for the path
    entry,    \* [Owner -> its fileStat]
    peers,    \* [Owner -> the names in Peers]
    mail,     \* the full updates under way, of each any number of copies
    heard,    \* [Owner -> [Owner -> LastFullUpdateReceived of that peer]]
    changes, restarts

replicaVars == <<disk, scan, created, entry, peers, mail, heard, changes, restarts>>

Kind == {"nothing", "file", "dir"}

Announcement == [dir : BOOLEAN, stamp : Nat \ {0}, owner : Owner, del : {FALSE}]

\* A full scan: at most one announcement for the path, and the scan time.
Scan == [files : SUBSET Announcement, time : Nat]

\* UpdateData on its way to a node.
Mail == [from : Owner, to : Owner, files : SUBSET Announcement, time : Nat]

\* ScanOnce: all announcements carry the time at which the scan began.
ScanOnce(n, k, t) ==
    [files |-> IF k = "nothing" THEN {}
               ELSE {[dir |-> k = "dir", stamp |-> t, owner |-> n, del |-> FALSE]},
     time  |-> t]

\* TreeNode.Update of the path's entry.
Updated(e, files) == IF files = {} THEN e ELSE Merge(e, CHOOSE a \in files : TRUE)

Nobody == [m \in Owner |-> 0]

\* Every node has made its scan (main() makes it before it starts the cluster).
ReplicasInit ==
    /\ disk \in [Owner -> Kind]
    /\ \E t \in [Owner -> 1..MaxTime] :
           scan = [n \in Owner |-> ScanOnce(n, disk[n], t[n])]
    /\ created = {n \in Owner : scan[n].files # {}}
    /\ entry = [n \in Owner |-> Updated(FreshStat, scan[n].files)]
    /\ peers = [n \in Owner |-> {}]
    /\ mail = {}
    /\ heard = [n \in Owner |-> Nobody]
    /\ changes = 0
    /\ restarts = 0

-----------------------------------------------------------------------------

\* UpdateNode of n for m.
Meet(n, m) ==
    /\ m # n /\ m \notin peers[n]
    /\ peers' = [peers EXCEPT ![n] = @ \cup {m}]
    /\ UNCHANGED <<disk, scan, created, entry, mail, heard, changes, restarts>>

\* Variant of Push that passes on what the node has in its tree.
PushTree(n, m) ==
    /\ m \in peers[n] /\ ~entry[n].dir /\ entry[n].owner # NoOwner
    /\ mail' = mail \cup
         {[from |-> n, to |-> m, time |-> scan[n].time,
           files |-> {[dir |-> FALSE, stamp |-> entry[n].stamp,
                       owner |-> entry[n].owner, del |-> FALSE]}]}
    /\ UNCHANGED <<disk, scan, created, entry, peers, heard, changes, restarts>>

\* PushFullUpdate: the files of the last full scan.
Push(n, m) ==
    /\ m \in peers[n]
    /\ mail' = mail \cup {[from |-> n, to |-> m, files |-> scan[n].files,
                           time |-> scan[n].time]}
    /\ UNCHANGED <<disk, scan, created, entry, peers, heard, changes, restarts>>

\* ReceiveUpdate, the first half of its TreeNode.Update: the entry is missing.
Create(u) ==
    /\ u.from \in peers[u.to]
    /\ u.files # {} /\ u.to \notin created
    /\ created' = created \cup {u.to}
    /\ UNCHANGED <<disk, scan, entry, peers, mail, heard, changes, restarts>>

\* Variant of ReceiveUpdate that takes updates of nodes it does not know.
ReceiveFromAnybody(u) ==
    /\ u.files = {} \/ u.to \in created
    /\ entry' = [entry EXCEPT ![u.to] = Updated(@, u.files)]
    /\ heard' = [heard EXCEPT ![u.to][u.from] = u.time]
    /\ UNCHANGED <<disk, scan, created, peers, mail, changes, restarts>>

\* ReceiveUpdate: nothing unless the sender is known.
ReceiveUpdate(u) ==
    /\ u.from \in peers[u.to]
    /\ u.files = {} \/ u.to \in created
    /\ entry' = [entry EXCEPT ![u.to] = Updated(@, u.files)]
    /\ heard' = [heard EXCEPT ![u.to][u.from] = u.time]
    /\ UNCHANGED <<disk, scan, created, peers, mail, changes, restarts>>

\* Somebody creates, removes or replaces the file; the node does not notice.
ChangeDisk(n, k) ==
    /\ changes < MaxChanges
    /\ changes' = changes + 1
    /\ k # disk[n]
    /\ disk' = [disk EXCEPT ![n] = k]
    /\ UNCHANGED <<scan, created, entry, peers, mail, heard, restarts>>

\* Variant of RestartReplica whose clock may go back.
RestartEarlier(n, t) ==
    /\ restarts < MaxRestarts
    /\ restarts' = restarts + 1
    /\ scan' = [scan EXCEPT ![n] = ScanOnce(n, disk[n], t)]
    /\ created' = IF scan'[n].files = {} THEN created \ {n} ELSE created \cup {n}
    /\ entry' = [entry EXCEPT ![n] = Updated(FreshStat, scan'[n].files)]
    /\ peers' = [peers EXCEPT ![n] = {}]
    /\ heard' = [heard EXCEPT ![n] = Nobody]
    /\ mail' = {u \in mail : u.to # n}
    /\ UNCHANGED <<disk, changes>>

\* The process of n ends and main() runs again: nothing is kept, the disk is
\* scanned anew, and what was under way to the old process is lost.
RestartReplica(n, t) ==
    /\ restarts < MaxRestarts
    /\ restarts' = restarts + 1
    /\ t >= scan[n].time
    /\ scan' = [scan EXCEPT ![n] = ScanOnce(n, disk[n], t)]
    /\ created' = IF scan'[n].files = {} THEN created \ {n} ELSE created \cup {n}
    /\ entry' = [entry EXCEPT ![n] = Updated(FreshStat, scan'[n].files)]
    /\ peers' = [peers EXCEPT ![n] = {}]
    /\ heard' = [heard EXCEPT ![n] = Nobody]
    /\ mail' = {u \in mail : u.to # n}
    /\ UNCHANGED <<disk, changes>>

\* The steps that do not end a process.
Running ==
    \/ \E n, m \in Owner : Meet(n, m) \/ Push(n, m)
    \/ \E u \in mail : Create(u) \/ ReceiveUpdate(u)
    \/ \E n \in Owner, k \in Kind : ChangeDisk(n, k)

-----------------------------------------------------------------------------
\* Properties.

\* Scans, entries, peer tables and updates keep their shape.
ReplicasTypeOK ==
    /\ disk \in [Owner -> Kind]
    /\ scan \in [Owner -> Scan]
    /\ created \subseteq Owner
    /\ entry \in [Owner -> Stat]
    /\ peers \in [Owner -> SUBSET Owner]
    /\ mail \subseteq Mail
    /\ heard \in [Owner -> [Owner -> Nat]]
    /\ changes \in 0..MaxChanges /\ restarts \in 0..MaxRestarts

\* Whoever an entry names can be asked for the file.  Nobody but the nodes that a
\* node has met gets into its tree, so that UnknownNodeError is left to entries that
\* are still being made.  And only what a node has scanned itself is announced in
\* its name ("These updates are not propagated further"): it never takes itself for
\* the owner of something its last scan did not find, whatever it announced in an
\* earlier life and whatever of that is still under way.
OwnersCanBeAsked ==
    \A n \in Owner :
        \/ entry[n].owner \in peers[n] \cup {NoOwner, Multiple}
        \/ /\ entry[n].owner = n
           /\ \E a \in scan[n].files : a.stamp = entry[n].stamp /\ a.dir = entry[n].dir

\* Every node has merged the last full update of every other.
Settled ==
    \A n, m \in Owner : n # m => m \in peers[n] /\ heard[n][m] = scan[m].time

\* The nodes whose announcement of the path is the newest.
Newest ==
    {n \in Owner : \E a \in scan[n].files :
        \A m \in Owner : \A b \in scan[m].files : a.stamp >= b.stamp}
=============================================================================
