# dftp: a verification development in TLA+

`dftp` is a read-only distributed file system. Every node scans a local
directory, tells the other nodes of its cluster which files it has, keeps a tree
of everybody's files, and serves it over HTTP and FTP, fetching contents from
the node that owns a file. This directory holds TLA+ modules of its core, the
TLC configurations that check them on small instances, and theorems about them
that the TLA+ proof system checks for every value of the constants. Paths below
are relative to the repository unless they name a module.

## 1. The system

### Components, their state and operations

| Component | Source | State | Operations |
|---|---|---|---|
| File tree | `src/dftp/dfsfat` | `TreeNode`: an RWMutex, `fileStat`, `childNodes` | `Update` (recursive `update`, `setAsDir`, `recalculateOwner`); readers `Seek`, `Walk`, `GetReadonly`, `GetFilestat` |
| Membership | `cluster.go`, `communication.go`, `mgmthttp.go` in `src/dftp/cluster` | `Cluster.Peers`: name to `NodeInfo` (addresses, `GreetState`) | `GreetNode`, `UpdateNode`, `ScheduleGreet`, `HttpCluster`, `HttpJoin`, `KnownMgmtAdr` |
| Full updates | same files | `NodeInfo.PushState`; goroutines | `SchedulePush`, `PushFullUpdate`, `HttpUpdate`, `ReceiveUpdate` |
| Discovery | `multicastdiscovery.go` | two goroutines, a UDP socket | ping loop, listener |
| Local files | `src/dftp/localfs` | `LastFullScan`, its time | `ScanOnce`, `GetLastFullScan`, `OpenRead` |
| Read proxy | `proxy.go` | an `http.Client` | `OpenRead` (local file, or redirect to the owner, at most `MaxRedirectDepth`) |
| HTTP interface | `src/dftp/httpface` | none | `Fs`, `ServeFile`, `Find` |
| FTP driver | `src/dftp/ftpface` | none | `Stat`, `ChangeDir`, `ListDir`, `GetFile`; the writing operations refuse |
| FTP server | `_vendor/.../goftp/server` | one `Conn` per client (user, directory, offset, data connection); data sockets, each with a goroutine that accepts | the command loop, 40 FTP commands, the accept loop |
| Start-up | `main.go` | none | name, scan, cluster, servers, in that order |

### How they interact

`main` scans once, which calls `TreeNode.Update`, and only then creates the
cluster. From then on everything is concurrent:

- the listener greets (`POST /cluster/`) a node whose address it does not know,
  and hears nothing until `GreetNode` returns;
- the greeted node runs `UpdateNode` for the caller, schedules a push to it, and
  answers with the peers it knows;
- the caller runs `UpdateNode` for each of them and for the greeted node itself;
- `UpdateNode` makes a new peer known, and may start a goroutine that greets it
  and one that pushes the last scan to it (`POST /update/`);
- `HttpUpdate` starts a goroutine, answers "ok" and forgets; the goroutine,
  `ReceiveUpdate`, drops the update of an unknown sender and otherwise calls
  `TreeNode.Update`, beside the other calls of it that may be running;
- readers take snapshots of single TreeNodes while that goes on;
- each FTP client has a goroutine that executes one command at a time against the
  driver; a passive data socket has another one, which accepts the client's data
  connection and hands it over through a field that nothing protects.

### What is hard about it

Nothing is persisted, and nothing is ever removed from the tree or the peer
table; what is hard is the interleaving. `Update` locks one TreeNode at a time,
so that concurrent updates interleave at every entry. `recalculateOwner` locks a
directory and then each child. Greetings and pushes are goroutines that start
each other, over HTTP, with the state of each kept in two small state machines
(`GreetState`, `PushState`) that are tested outside the lock and set inside.
Messages of one conversation overtake each other, and errors end goroutines
silently. An FTP transfer waits, without a timeout, for a connection that may come
too late, twice or never, and drops most of the errors it meets. `PROJECT.json` lists each hazard at the line where it bites.

### What makes each component correct

- *File tree*: the newest announcement of a path wins whatever the order;
  nothing known is forgotten; concurrent creation makes one TreeNode; a
  directory's computed owner is right once everybody is done; no half-made entry
  stays; everything in the tree can be reached from its root; calls do not block each
  other; a removal removes the file it names.
- *Membership*: everybody ends up knowing everybody; nobody knows itself; each
  peer is greeted, once; who counts a greeting as done is known to the other; clusters of different names stay apart.
- *Full updates*: one push per peer at a time; every push ends; every peer is
  pushed to; only peers send and merge; what was pushed is merged.
- *Replicas and reading*: an entry names a node that has announced the path and
  is known; a read that is passed on ends, does not go in circles, serves nothing
  older than what was known, serves contents and not a listing, and succeeds from
  every node once all updates are in.
- *FTP session*: every command ends, and with a final reply; the reply is true; a
  data connection serves one transfer and is closed after it; only users reach the
  tree.
- *Scan*: every file is announced once, in an order the grouping copes with.

## 2. Modules

| Module | What it is |
|---|---|
| `FileStat` | what a tree entry records, and how an announcement changes it |
| `FatTree` | one node's tree and the concurrent calls of `TreeNode.Update` |
| `LastWriter` | what a node promises about files: the abstract specification `FatTree` implements |
| `Exchange` | who may send and merge updates: the abstract specification that `Cluster` and `Proxy` both implement |
| `Membership` | greetings, peer tables, discovery and joins of all nodes |
| `Cluster` | `Membership` (by `INSTANCE`) with pushes and received updates |
| `Replicas` | one path on all nodes: disks, scans, updates under way, entries, restarts |
| `Proxy` | `Replicas` with a read that is passed from node to node |
| `DataSocket` | the data sockets of an FTP session, the client's side of them, the accepting goroutine |
| `FtpDriver` | what the driver answers, from a tree that changes |
| `FtpSession` | `DataSocket` and `FtpDriver` with the command loop and every command |
| `MCFatTree`, `MCMembership`, `MCCluster`, `MCProxy`, `MCFtpSession` | values for the constants |
| `FatTreeProofs`, `LastWriterProofs`, `PlaceholderProofs`, `DirOwnerProofs`, `MembershipProofs`, `ClusterProofs`, `ProxyProofs`, `FtpProofs` | theorems |

`FatTree` and `Replicas` extend `FileStat`, so that the tree of one node and the
composition of many adopt an announcement by the same definition (`Merge`).

### FatTree

A TreeNode is never unlinked, so it is identified with its path; `nodes` is the
set of paths that have one and `stat` its `fileStat`. `stack[c]` holds the active
`update()` frames of call `c`, `recalc[c]` the `recalculateOwner` it is in. One
action is one critical section: `Lookup` (the RLock'd map access, and the next
group of announcements), `Create` (the double-checked insertion), `Descend` (an
announcement moved to `nestedFiles`), `Apply` (the entry overwritten under its
lock), `EnterDir` (`setAsDir` and the recursive call), `Return` (a frame ends and
`recalculateOwner` locks), `ReadChild` and `SetOwner` (the rest of it).
`recalculateOwner` is the only code that keeps a lock across steps, so `Locked`
is the only lock the guards test. A list is grouped lazily, by runs of equal
name parts, exactly as `groupAnnouncementsByFilepart` does; unsorted lists
produce several groups of one name. The announcement's path is kept whole and a
frame looks at the component below its own TreeNode, which is what `nameShift`
achieves by cutting the front off. Of `FileStat` the model keeps `Dir`,
`LastInfoUpdated`, `OwnerNode` and whether `IsDeleted()`: the code of this
package decides on nothing else.

### Membership

`known[n]` is the key set of n's `Peers` and `greet` the `GreetState`s. A call
of `GreetNode` is a record with the place its HTTP request has got to: `Meet`
(the callee's `UpdateNode` for the caller), `Answer` (the callee encodes its
peers), `Learn` (the caller's `UpdateNode`, one entry at a time in any order).
`RequestLost` and `AnswerLost` are the error returns. `HearPing` is the listener,
which greets inside its receive loop. Simplifications:

- a name stands for the addresses, so one address per node and one node per
  name; `LastAlive` is left out;
- `UpdateNode` takes two locks, for the map and for the entry, and
  `ScheduleGreet` takes the second again; the model makes them one step. Between
  them the entry is visible without an address; this is recorded as a hazard;
- the caller's own entry in an answer, which `UpdateNode` skips at once, is
  taken out when the answer is read (`ButNot`);
- the return of `GreetNode` is part of its last `Learn`.

### Cluster

`Cluster` declares the variables of `Membership`, instantiates it as `M` and
conjoins each of its actions with its part of the push bookkeeping. `due` holds
the unlocked `PushState == StateNever` tests that have succeeded and whose
`SchedulePush` has not run yet; until it has, that thread of control does not go
on (`PushChecked`). `posting`, `acked` and `recv` count, per pair of nodes, the
`PushFullUpdate` goroutines before and after the "ok" and the `ReceiveUpdate`
goroutines, so that two pushes that overlap are possible, and `OnePushInFlight`
is something to establish. A received list is reduced to its sender: `applied`.
`PushFails` after the acknowledgement stands for an answer that came too late.

### LastWriter

Offers of (file, scan time, owner) come in any order; an entry changes only to
an offer that is newer. `FatTree` implements it (`ImplementsLastWriter`,
`FilesSettle`) for every path that is only ever announced as a file, with
`offered` the announcements delivered so far. Directories are excluded because
`setAsDir` and `recalculateOwner` change them without an offer.

### Exchange

Peers, updates under way and updates merged, per pair of nodes: an update is sent
by a node to a peer, merged by a node that has met the sender, or lost; a restart
forgets the peers and the merges of one node and what was on its way to it.
`Cluster` and `Proxy` look at the cluster from two sides. `Cluster` has each
request, answer and goroutine, but no restarts; `Replicas` has restarts and repeated
updates, but lets nodes meet and push at any time. That both implement `Exchange`
(`ImplementsExchange`) ties the two together: `sent` is what a `PushFullUpdate` or
`ReceiveUpdate` goroutine holds in the one and what is in `mail` in the other,
`merged` is `applied` there and a `LastFullUpdateReceived` other than 0 here. It is
a safety specification; what must be sent in the end is `PushedToEveryPeer`.

### Replicas

Per node: what is on its disk at one path, its `LastFullScan` (at most one
announcement, and the time), the `fileStat` of its entry, its `Peers`, and for
each peer the `LastFullUpdateReceived`. `mail` holds the updates under way; one
that has been received stays, because pushes of the same scan are repeated, and
one that is never received is a lost one. A merge has two steps, `Create` and
`ReceiveUpdate`, because readers see the placeholder between them. `RestartReplica`
begins with an empty tree and peer table and scans the disk, which `ChangeDisk`
may have altered unnoticed. Simplifications:

- meetings and pushes happen at any time and in any order: more than `Cluster`
  allows, so that what holds here does not rest on who greets whom;
- the path is a file or a directory that is announced itself, without
  announcements below it (`setAsDir` and `recalculateOwner` are in `FatTree`);
- all nodes have one mount point, and clocks do not run backwards over a restart.

### Proxy

One read, which is enough because reads change nothing: `Ask` at a node; `NotFound`,
`FindDir` and `FindFile` are the lookup in the tree of the node that handles it
(`TreeNode.Seek`, `GetReadonly`), by `Fs` or by `GetFile`; `OpenLocal`, `TooMany`,
`UnknownNode` and `Forward` are the ways through `OpenRead`, which works on the
snapshot that `FindFile` took. `FindDir` contains the redirect to the path with a
slash, which the client follows without `redirN`. `Break` is a failing GET, and
a read does not survive a restart of a node it has come through. A handler's
error status and the one passed back by those before it are one answer, "refused".
The transfer of the contents is not divided into parts.

### DataSocket, FtpDriver, FtpSession

The sessions of one client, one after the other; sessions of several clients share
only the tree, which changes by itself here. `FtpSession` has the fields of `Conn`
under their names; `stage` is the place the session's goroutine has got to, and
`reply` the final reply to the last command, reduced to whether it refuses. Each
FTP command is an operator named after it, all of them behind `ReceiveLine`, which
tests for a parameter and a login as `receiveLine` does. Commands that block or
look twice have several steps: `StartListing` (150 and `Stat`), `FinishListing`
(`ListDir`), `SendListing` (the one `Write` of `sendOutofbandData`); `Retr`, then
`ReadPiece` and `WritePiece` for each round of `io.Copy`. `size` and `left` count the
file's pieces and `carried` those a connection has taken, so that the final reply
can be compared with what was sent.

A passive socket is "listening" until `Accept` returns, then "accepted" or
"failed": the wait group is released and `socket.conn` still nil; `StoreConn` opens
it, whether or not the session still wants it. `Close` does nothing before that.
`socket.conn` is read without synchronisation; a read that meets the store may see
half of the interface value, whose methods then fail as if there were no
connection, which is what the state "accepted" allows. Simplifications:

- a parameter is what `filepath.Clean` makes of it, so many ".." and names;
- formatting of listings and replies, dates and sizes are left out;
- a panic (no recover anywhere) stops everything: `crashed`;
- `GetFile` may fail for whatever reason `Proxy` has; a transfer's source may fail
  at any piece;
- `renameFrom` and `appendData` only reach operations that refuse.

## 3. What the runs show

| Run | Instance | Result |
|---|---|---|
| `fat_two` | local scan and 2 calls, 7 paths in 3 levels, 8 lists, 3 owners | all hold |
| `fat_deep_removal` | 2 calls, a removal of a file in a directory | **violated** |
| `membership_pair` | 2 nodes, both hear, 1 join, 2 failed requests | all hold |
| `membership_three` | 3 nodes, one hears the other two | all hold |
| `membership_lost_greeting` | 2 nodes, 1 failed request | **violated** |
| `membership_two_clusters` | 2 nodes with different cluster names | **violated** |
| `cluster_joined` | 2 nodes, one hears the other, 1 join, 1 failed request or push | all hold |
| `cluster_lost_update` | 2 nodes, no failure at all | **violated** |
| `proxy_settled` | 3 nodes, scan times 1..2, no restart, 1 read | all hold |
| `proxy_restarts` | 2 nodes, scan times 1..2, 1 restart, 1 change of a disk, fairness | all hold |
| `proxy_listing` | as `proxy_settled` | **violated** |
| `ftp_session` | 1 client, 2 data sockets, 1 path besides the root, files of 0 to 2 pieces, fairness | all hold |

The five violations are disagreements between README.md and the code:

1. A removal with more than one path component is applied to the first
   component's entry (`update.go:100`), which marks the directory as removed.
   Removals of top-level files do what they should (`fat_two`).
2. A greeting that fails stays pending for ever (`communication.go:27`). As long
   as no request fails, every peer is greeted (`GreetedUnlessFailed`).
3. The cluster name in a ping is not looked at (`multicastdiscovery.go:56`).
4. The push that a greeting causes may arrive before the answer to that
   greeting; its receiver does not know the sender, drops the files and has
   already said "ok" (`communication.go:164`). The sender never pushes again, so
   the trees differ for ever though nothing failed. `OneOfTwoMerges` is what is
   left of the promise: the loss is never mutual.
5. A read of a file that is passed on to a node for which the path has become a
   directory is answered with that directory's HTML listing and status 200
   (`proxy.go:56` with `httpface/server.go:74`), which is served as the contents.

### Bounds, and why they are enough

`MaxFaults`, `MaxJoins` and `MaxFailedPushes` bound failed requests, join
commands and failed pushes; everything else is finite by itself. Two nodes
suffice for what two parties can do to each other's entry: with both listening,
a join, and scheduled greetings, several greetings race for two entries; in
`cluster_joined` multicast on one side and a join on the other let the nodes greet
each other at the same time; a constraint stops after one failure of either kind,
which loses nothing: `ClusterProofs` proves all of the run's properties without
it. Three nodes, of which one hears the others, are the smallest cluster in which somebody
must be introduced. In the tree, two calls race for one creation, and one's
recalculation overlaps the other's changes; three levels are needed
for the owner of an inner directory to change under an outer one's
recalculation. The lists are chosen to contain older and newer times, sorted and
unsorted files, a directory that is announced, left out and empty, and a file
whose name is a directory elsewhere. A read
passed on twice involves three nodes, which is as far as `MaxRedirectDepth` lets
it go; two scan times give older, newer and equal. `MaxTime`, `MaxChanges` and
`MaxRestarts` bound the rest of `Replicas`; one restart and one removed file are
enough for two trees to name each other's node (`TooMany` is reached). What is
said of reads holds under `Lasting` there: either nothing has restarted or no
disk has changed, since a restart that finds another disk is what makes trees name
each other's nodes. `settled`, which remembers that all updates were in when the
read began, is reset by a restart, whose updates are then no longer in.
`proxy_settled` uses the symmetry of the nodes and a constraint that stops at the
answer; both are sound for its invariants, which do not name a node and whose
right-hand sides do not change after the answer when nothing restarts.
In `ftp_session` two sockets are one that is in use or forgotten and one that takes
its place, over all sessions; `Socket` has no way back to "unused", because what
matters is what becomes of the forgotten ones. Two pieces are the least of which one
can be written and the other fail. One path that is nothing, a directory, a file or
removed at different times stands for all: commands compare no two paths.
Deadlock checking is off because a system
whose updates have all been applied and whose nodes have all met does stop, and
because fault bounds are used up; that calls, reads and commands do end is stated as
`UpdateReturns`, `ReadsEnd` and `CommandsEnd`.

### Fairness

`FatTree`: weak fairness of each call, since a goroutine is scheduled and waits
only for a mutex; no call holds one for ever. `Membership`: weak fairness of each
conversation (goroutines run and a request is answered or fails), and of each
`HearPing`, because the ping loop never stops and the listener returns to its
socket. `Cluster`: in addition the push goroutines and `ReceiveUpdate`
goroutines run. `Proxy`: the handlers of a read run; nothing is assumed of
updates, users or disks. `FtpSession`: the session and the accepting goroutines run; a
client that has connected reads or leaves, so that `Write` returns; the source of a
file delivers or fails, which `OpenRead`'s http client, being without a timeout,
leaves to the other node. That a client connects is not assumed: `CommandsEnd` and
`HungUpSessionsEnd` name the one case (`AwaitsClient`) in which a session waits for
ever. Failures and joins are never required to happen.

## 4. What is proved

All for arbitrary constants: any paths closed under prefixes, any lists, any
number of calls, nodes, failures and joins.

- `FatTreeProofs!TypeCorrect`. `TypeOK` alone is not inductive: that `Create`
  makes an entry within `Path` depends on what the frames hold. `StacksOK` says
  that everything a frame still has to treat lies below its TreeNode and that its
  current group goes through its entry, a child of it; lemmas on sequences
  (`ChildOnPath`, `BelowChild`, `SplitSeq`) carry it through grouping and recursion.
- `FatTreeProofs!NothingForgotten` (`NeverOlder`), from the same invariant: the
  second lookup in `Create` and the comparison in `Merge` are the two facts used.
- `FatTreeProofs!LockHolds` (`LockedDirStable`). The strengthening is `LockInv`:
  frames work on TreeNodes that are in the tree, and no two calls hold the lock
  of one directory.
- `DirOwnerProofs!NoDeadlock` (`SomeCallGoesOn`). `Blocked` is to wait for the lock
  of a TreeNode that somebody else's recalculation holds. A recalculation holds the
  lock of one directory and waits only for those of its children, so the call that
  recalculates the longest path can go on (`LongestGoesOn`), and if none recalculates
  nobody waits. That there is a longest path (`LongestHeld`) needs a bound on the depth
  of the tree, which the theorem takes as its only hypothesis: the paths of a file
  system have one. That each call does return is liveness and stays with TLC.
- `DirOwnerProofs!TreeListed` (`ListedFromRoot`), with no hypothesis on lists.
  `setAsDir` makes a directory of every TreeNode before a frame works inside it, and
  `InsideMarked` says that it stays one as long as somebody is inside, or has since
  been announced as a file: `Apply` writes an announcement in place of the mark,
  `recalculateOwner` only the owner. A child can only be created from inside.
- `LastWriterProofs!Refinement`: the tree implements `LastWriter`. The steps of
  the calls are read as steps of the register: an `Update` offers the list's
  announcements, an `Apply` that changes a file's entry adopts an offer that was
  made and is newer, and everything else stutters. It rests on `Untouched` (a
  TreeNode not yet written to is unowned, not a directory and of time 0) and
  `RecalcsDirs` (recalculation runs on directories only).
- `LastWriterProofs!NewestStays` (`NewestWins`) and `RemovalsInPlace`
  (`OnlyRemovedFilesAreGone`). `Fed` says that an announcement of a call is
  somewhere in its frames or has been applied, `Taken` that an applied one has left
  an entry at least as new. Both assume `TopRemovals`, that removals name children
  of the root: a deeper one marks the directory above it, newer than anything
  announced for that directory, and `fat_deep_removal` shows that this happens.
- `PlaceholderProofs!PlaceholdersHeld` (`NoAbandonedPlaceholder`). `AllTended` says
  that an entry without an owner is in the hands of a call that will give it one: a
  frame about to fill it or to enter it, one below it, or its recalculation. That
  survives a recalculation which itself stores "no owner", because the children it
  has read are placeholders (`RecalcsOpen`): somebody is then below the directory,
  and cannot leave it before the unlock. `ChainsOK` ties the frames of one call
  together, each entered from the entry of the next; `TopsOpen` says that a frame
  below the root has something to do, so that the directory it leaves has a child.
- `DirOwnerProofs!DirOwnersSettle` (`DirOwnerSound`). Whoever changes a child's owner
  or adds a child is below its directory (`ChangedChild`) and will recalculate it.
  `ReadsAgree` says of a recalculation under way that a child already read has the
  owner computed so far, or somebody is below the directory and waits for the lock;
  `OrphansBusy` covers the children that are placeholders. Besides `TopRemovals` it
  assumes `OneKind`: no node announces one path both as a file and as a directory.
  Without that the property is not a theorem: a directory that already has a child
  of another owner, is then announced as a file by X and, later still, as a
  directory by X, keeps X as its owner, because `Apply` writes X, `setAsDir` sees no
  change of owner, and nothing below is new, so that nobody recalculates. The lists
  of `fat_two` satisfy both assumptions.
- `MembershipProofs!TypeCorrect` and `NoOwnPeer`. The invariant of the second
  adds that no answer on its way contains its reader.
- `MembershipProofs!GreetingsRun` (`PendingGreetRuns`): `CalleeLast` says that a
  call that has been answered still has the callee's own entry to pass on, or has
  done so, and `AnsweredKnown` that whoever has been met knows the caller, so
  that a peer's state cannot stay pending after the call that made it so.
- `MembershipProofs!GossipComplete` (`GossipCloses`): `PeersTold` says of two peers
  of one node that one of them knows the other, or is in a call from whose answer
  it will learn of it (`Told`). It holds because peers are added one at a time, and
  the later one is answered with the earlier one.
- `MembershipProofs!ScheduledAtMostOnce` (`OneScheduledGreeting`): a scheduled
  greeting has left `StateNever` behind it (`ScheduledMarked`), which no step
  brings back.
- `MembershipProofs!DoneMutual` (`DoneIsMutual`), with any failures: whoever has had
  a call answered is known to the callee (`AnsweredKnown`), and a peer in any state
  but `StateNever` is in the table (`GreetedKnown`).
- `ClusterProofs!Refinement`: every step is a step of `Membership` or leaves its
  variables alone, so what holds of the peer tables there holds here.
- `ClusterProofs!PushesInStep` (`OnePushInFlight`), inductive with the types.
- `ClusterProofs!ExchangeRefined` and `ProxyProofs!ExchangeRefined`
  (`ImplementsExchange`): the two compositions implement `Exchange`. In `Cluster` it
  rests on pushes going to peers only (`ToPeers`) and on there being one goroutine per
  push (`OnePushInFlight`), so that an acknowledgement after the other side has
  received shows nothing. In `Proxy` it rests on scans having times (`Timed`): a
  `LastFullUpdateReceived` of 0 means that nothing has been received.
- `ClusterProofs!NobodyLeftOut` (`PushedToEveryPeer`): as long as no push has
  failed, a peer in `StateNever` is one whose check is under way (`PushesDue`).
- `ClusterProofs!OneMerges` (`OneOfTwoMerges`). The invariant says that nodes push
  only to peers (`ToPeers`) and, for a pair of which one knows the other and has
  finished its push, that the update is on its way, applied, or was lost while the
  receiver did not know the sender, which excludes the other direction.
- `ProxyProofs!NoLoop` (`NoRedirectLoop`) and `NoOlderCopy` (`NeverOlderCopy`), with
  any number of restarts as long as the disks stay as they are, or any changes of
  disks without restarts (`Lasting`). A node then goes on announcing what it has
  announced, with scan times that do not decrease. `Current` says that updates and
  entries name only owners whose last scan is at least as new (`MailCurrent`,
  `OwnerCurrent`), and that an entry of somebody else's is newer than this node's own
  announcement, which was merged first (`OwnMerged`). So each node a request is passed
  on to has a later scan than those before it (`Chain`): there is no way back, in a
  cluster of any size, and what is served at the end is not older than what was known
  at the start. The strict comparison in `Merge` is what the argument rests on; with
  `>=` two nodes that scan in the same second send each other's readers back.
- `ProxyProofs!SettledIsReadable` (`ReadableOnceSettled`). `Merged` says what the
  trees hold while disks do not change: updates are whole scans, of this or an earlier
  life of the sender, one that is recorded as received has been merged, an entry comes
  from somebody's scan. From it and from `Current` follows that once everything is in all trees name nodes with the newest copy
  (`AllAgree`), that this stays so (`StaysSettled`), and that a read begun then
  reaches one in at most one step (`Served`), unless a node restarts meanwhile.
- `ProxyProofs!OwnersAnswer` (`OwnersCanBeAsked`), with any number of restarts:
  `Truthful` says that announcements are made only by their owners and that no
  node is its own peer.

- `FtpProofs`: all four action properties and both invariants, for any number of
  sockets, any tree, parameters and files of any size. The commands are first shown
  to have one of eight effects (`CommandsChange`), so that the invariant is carried
  through those and not through 40 commands. `FtpInv` adds to the properties that
  what has been written and what is left of a file make up its size
  (`PiecesAddUp`), that whoever has a transfer under way is logged in and has had
  no final reply, and that a session that is over holds no connection.
  `StepKinds` sorts the steps for the action properties. `UsersOnly` includes that a
  client who is not logged in cannot make the process panic: the commands that can
  (`Panics`) ask for a login, and a transfer that does is that of a user.

The assumptions are those the modules name: `PathAssumption`, `OwnerAssumption`,
`ListAssumption`, `HearsAssumption`, `BoundAssumption`, `ClusterAssumption`,
`ReplicasAssumption`, `TreeAssumption`, `SessionAssumption`, `ParamAssumption`, which TLC
evaluates on every run, and `TopRemovals`, `OneKind` and the bounded depth of paths
where a theorem states them.

Only model-checked: every liveness property (`UpdateReturns`, `FilesSettle`,
`MembershipCompletes`, `GreetedUnlessFailed`, `ReadsEnd`, `CommandsEnd`,
`HungUpSessionsEnd`), which with `ENABLED` are out of the prover's reach. Every
invariant and action property of a passing run is a theorem. Two of them
say more than a run does: `NoRedirectLoop` and `ReadableOnceSettled` are model-checked
on three nodes without restarts, and proved with them. The types of `Cluster` and
`Proxy` (`TypeCorrect`) are theorems that no run repeats.

## 5. Not modelled

- Contents of files, sizes, modes, times of modification; formatting and
  logging; HTML, the text of FTP listings and replies.
- Addresses: half-filled peer entries, several addresses of one node, two nodes
  of one name, ports missing in an address. Data races on `NodeInfo` fields. A
  name that stands for a node is what the proofs about membership rest on;
  addresses that can be missing or shared would be another module beside it.
- Restarts in `Membership` and `Cluster` (`Replicas` has them): a node that comes
  back under its old name meets peers that take its greeting for done.
- The walk of the local directory and the joining of its mount point; `GET /find/`,
  which is pure output; flags and the choice of a node name.
- TLS, explicit addresses and port ranges of the FTP server, which dftp does not
  set; file descriptors, of which it closes few.
- `Proxy.GetHttpProxy` is dead code; `httputils` and `utils` have no state.

## 6. What could be added

In this order: a module of peers with addresses (half-filled entries, aliases,
equal names) which `Membership` would abstract; a restart action for `Cluster`;
the grouping of a scan's list against a reference definition, with mount points.
