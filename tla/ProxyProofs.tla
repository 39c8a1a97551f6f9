----------------------------- MODULE ProxyProofs ----------------------------
(***************************************************************************)
(* Proofs about Proxy for any set of nodes, any scan times and any number  *)
(* of changes and restarts.                                                *)
(***************************************************************************)
EXTENDS Proxy, TLAPS

-----------------------------------------------------------------------------
\* Merging.

\* ScanOnce yields announcements of this node with the time of the scan.
LEMMA ScanOnceType ==
    ASSUME NEW n \in Owner, NEW k \in Kind, NEW t \in Nat \ {0}
    PROVE  /\ ScanOnce(n, k, t) \in Scan
           /\ ScanOnce(n, k, t).time = t
           /\ \A a \in ScanOnce(n, k, t).files : a.owner = n /\ a.stamp = t
BY DEF ScanOnce, Scan, Announcement

LEMMA FreshStatType == FreshStat \in Stat /\ FreshStat.owner = NoOwner
                       /\ FreshStat.stamp = 0 /\ FreshStat.dir = FALSE
BY DEF FreshStat, Stat

\* An entry after an update is the entry before it, or has the owner of an
\* announcement (or several, for a directory) and a larger scan time.
LEMMA UpdatedEntry ==
    ASSUME NEW e \in Stat, NEW files \in SUBSET Announcement
    PROVE  /\ Updated(e, files) \in Stat
           /\ \/ Updated(e, files) = e
              \/ \E a \in files :
                   /\ a.stamp > e.stamp
                   /\ Updated(e, files).stamp = a.stamp
                   /\ Updated(e, files).dir = a.dir
                   /\ \/ Updated(e, files).owner = a.owner
                      \/ /\ Updated(e, files).owner = Multiple
                         /\ e.owner # NoOwner /\ a.dir
           /\ \A a \in Announcement : files = {a} => Updated(e, files).stamp >= a.stamp
<1>1. CASE files = {}
  BY <1>1 DEF Updated
<1>2. CASE files # {}
  <2> DEFINE a == CHOOSE x \in files : TRUE
  <2>1. a \in files /\ a \in Announcement
    BY <1>2
  <2>2. Updated(e, files) = Merge(e, a)
    BY <1>2 DEF Updated
  <2>3. CASE a.stamp > e.stamp
    <3>1. Merge(e, a) = Overwrite(e, a)
      BY <2>3 DEF Merge
    <3>2. /\ Overwrite(e, a) \in Stat
          /\ Overwrite(e, a).stamp = a.stamp /\ Overwrite(e, a).dir = a.dir
          /\ \/ Overwrite(e, a).owner = a.owner
             \/ Overwrite(e, a).owner = Multiple /\ e.owner # NoOwner /\ a.dir
      BY <2>1 DEF Overwrite, Announcement, Stat
    <3>3. \A b \in Announcement : files = {b} => Overwrite(e, a).stamp >= b.stamp
      BY <2>1, <3>2 DEF Announcement
    <3> QED
      BY <2>1, <2>2, <2>3, <3>1, <3>2, <3>3
  <2>4. CASE ~(a.stamp > e.stamp)
    <3>1. Updated(e, files) = e
      BY <2>2, <2>4 DEF Merge
    <3>2. a.stamp \in Nat /\ e.stamp \in Nat
      BY <2>1 DEF Announcement, Stat
    <3>3. \A b \in Announcement : files = {b} => b = a
      BY <2>1
    <3> HIDE DEF a
    <3>4. \A b \in Announcement : files = {b} => e.stamp >= b.stamp
      BY <2>4, <3>2, <3>3
    <3> QED
      BY <3>1, <3>4
  <2> QED
    BY <2>3, <2>4
<1> QED
  BY <1>1, <1>2

\* The entry after the first scan: this node's own announcement, or none.
LEMMA FirstEntry ==
    ASSUME NEW n \in Owner, NEW k \in Kind, NEW t \in Nat \ {0}
    PROVE  LET s == ScanOnce(n, k, t)
               e == Updated(FreshStat, s.files)
           IN  /\ e \in Stat
               /\ \/ s.files = {} /\ e = FreshStat
                  \/ /\ e.owner = n /\ e.stamp = t /\ e.stamp > 0
                     /\ \E a \in s.files : a.stamp = e.stamp /\ a.dir = e.dir
<1> DEFINE s == ScanOnce(n, k, t)
           e == Updated(FreshStat, s.files)
<1>1. CASE k = "nothing"
  <2>1. s.files = {}
    BY <1>1 DEF ScanOnce
  <2> QED
    BY <2>1, FreshStatType DEF Updated
<1>2. CASE k # "nothing"
  <2> DEFINE a == [dir |-> k = "dir", stamp |-> t, owner |-> n, del |-> FALSE]
  <2>1. s.files = {a}
    BY <1>2 DEF ScanOnce
  <2>2. e = Merge(FreshStat, a)
    BY <2>1 DEF Updated
  <2>3. a.stamp > FreshStat.stamp
    BY FreshStatType
  <2>4. e = Overwrite(FreshStat, a)
    BY <2>2, <2>3 DEF Merge
  <2>5. e = [dir |-> k = "dir", stamp |-> t, gone |-> FALSE, owner |-> n]
    BY <2>4, FreshStatType DEF Overwrite
  <2>6. e \in Stat
    BY <2>5 DEF Stat
  <2> QED
    BY <2>1, <2>5, <2>6
<1> QED
  BY <1>1, <1>2

-----------------------------------------------------------------------------
\* Type correctness.

\* What a step does to the replicas.
ReplicaStep == Running \/ \E n \in Owner, t \in 1..MaxTime : RestartReplica(n, t)

\* A step of the read leaves the replicas alone.
LEMMA StepOfReplicas ==
    ASSUME Next
    PROVE  ReplicaStep \/ UNCHANGED replicaVars
<1>1. CASE Running
  BY <1>1 DEF ReplicaStep
<1>2. CASE \E n \in Owner, t \in 1..MaxTime : Restart(n, t)
  BY <1>2 DEF ReplicaStep, Restart
<1>3. CASE Ask \/ Handle \/ Break
  BY <1>3 DEF Ask, Handle, Break, NotFound, FindDir, FindFile, OpenLocal, TooMany,
              UnknownNode, Forward
<1> QED
  BY <1>1, <1>2, <1>3 DEF Next

LEMMA ReplicasTypeStep ==
    ASSUME ReplicasTypeOK, ReplicaStep \/ UNCHANGED replicaVars
    PROVE  ReplicasTypeOK'
<1> USE ReplicasAssumption DEF ReplicasTypeOK
<1>1. CASE UNCHANGED replicaVars
  BY <1>1 DEF replicaVars
<1>2. ASSUME NEW n \in Owner, NEW m \in Owner, Meet(n, m)
      PROVE  ReplicasTypeOK'
  BY <1>2 DEF Meet
<1>3. ASSUME NEW n \in Owner, NEW m \in Owner, Push(n, m)
      PROVE  ReplicasTypeOK'
  <2>1. [from |-> n, to |-> m, files |-> scan[n].files, time |-> scan[n].time] \in Mail
    BY DEF Scan, Mail
  <2> QED
    BY <1>3, <2>1 DEF Push
<1>4. ASSUME NEW u \in mail, Create(u)
      PROVE  ReplicasTypeOK'
  <2>1. u.to \in Owner
    BY DEF Mail
  <2> QED
    BY <1>4, <2>1 DEF Create
<1>5. ASSUME NEW u \in mail, ReceiveUpdate(u)
      PROVE  ReplicasTypeOK'
  <2>1. u.to \in Owner /\ u.from \in Owner /\ u.files \in SUBSET Announcement /\ u.time \in Nat
    BY DEF Mail
  <2>2. Updated(entry[u.to], u.files) \in Stat
    BY <2>1, UpdatedEntry
  <2>3. entry' \in [Owner -> Stat]
    BY <1>5, <2>1, <2>2 DEF ReceiveUpdate
  <2>4. heard' \in [Owner -> [Owner -> Nat]]
    BY <1>5, <2>1 DEF ReceiveUpdate
  <2> QED
    BY <1>5, <2>3, <2>4 DEF ReceiveUpdate
<1>6. ASSUME NEW n \in Owner, NEW k \in Kind, ChangeDisk(n, k)
      PROVE  ReplicasTypeOK'
  <2>1. changes' \in 0..MaxChanges
    BY <1>6 DEF ChangeDisk
  <2> QED
    BY <1>6, <2>1 DEF ChangeDisk
<1>7. ASSUME NEW n \in Owner, NEW t \in 1..MaxTime, RestartReplica(n, t)
      PROVE  ReplicasTypeOK'
  <2>1. ScanOnce(n, disk[n], t) \in Scan
        /\ Updated(FreshStat, ScanOnce(n, disk[n], t).files) \in Stat
    BY ScanOnceType, FirstEntry
  <2>2. scan' \in [Owner -> Scan] /\ scan'[n] = ScanOnce(n, disk[n], t)
    BY <1>7, <2>1 DEF RestartReplica
  <2>3. entry' \in [Owner -> Stat]
    BY <1>7, <2>1, <2>2 DEF RestartReplica
  <2>4. restarts' \in 0..MaxRestarts
    BY <1>7 DEF RestartReplica
  <2>5. heard' \in [Owner -> [Owner -> Nat]]
    BY <1>7 DEF RestartReplica, Nobody
  <2>6. created' \subseteq Owner /\ mail' \subseteq Mail
    BY <1>7 DEF RestartReplica
  <2> QED
    BY <1>7, <2>2, <2>3, <2>4, <2>5, <2>6 DEF RestartReplica
<1> QED
  BY <1>1, <1>2, <1>3, <1>4, <1>5, <1>6, <1>7 DEF ReplicaStep, Running

\* The answers a read may end with.
LEMMA EndType ==
    ASSUME read \in Read, NEW answer \in {"contents", "listing", "refused", "broken"},
           End(answer)
    PROVE  read' \in Read
BY FreshStatType DEF End, Read

LEMMA ReadTypeStep ==
    ASSUME TypeOK, Next
    PROVE  read' \in Read
<1> USE FreshStatType DEF TypeOK, ReplicasTypeOK
<1>1. CASE Running /\ UNCHANGED read
  BY <1>1
<1>2. ASSUME NEW n \in Owner, NEW t \in 1..MaxTime, Restart(n, t)
      PROVE  read' \in Read
  <2>1. End("broken") \/ read' = [read EXCEPT !.settled = FALSE]
    BY <1>2 DEF Restart
  <2>2. [read EXCEPT !.settled = FALSE] \in Read
    BY DEF Read
  <2> QED
    BY <2>1, <2>2, EndType
<1>3. CASE Ask
  <2>1. Settled \in BOOLEAN
    BY DEF Settled
  <2> QED
    BY <1>3, <2>1 DEF Ask, Read
<1>4. CASE NotFound \/ FindDir
  <2>1. End("refused") \/ End("listing") \/ read' = [read EXCEPT !.slash = TRUE, !.redirN = 0]
    BY <1>4 DEF NotFound, FindDir
  <2>2. [read EXCEPT !.slash = TRUE, !.redirN = 0] \in Read
    BY DEF Read
  <2> QED
    BY <2>1, <2>2, EndType
<1>5. CASE FindFile
  <2>1. entry[read.at] \in Stat
    BY DEF Read
  <2>2. entry[read.at].stamp \in Nat
    BY <2>1 DEF Stat
  <2> QED
    BY <1>5, <2>1, <2>2 DEF FindFile, Read
<1>6. CASE OpenLocal \/ TooMany \/ UnknownNode \/ Break
  <2>1. End("contents") \/ End("refused") \/ End("broken")
    BY <1>6 DEF OpenLocal, TooMany, UnknownNode, Break
  <2> QED
    BY <2>1, EndType
<1>7. CASE Forward
  <2>1. read.at \in Owner /\ peers[read.at] \subseteq Owner
    BY DEF Read
  <2>2. read.ro.owner \in Owner
    BY <1>7, <2>1 DEF Forward
  <2> DEFINE new == [read EXCEPT !.stage = "seek", !.at = read.ro.owner,
                                 !.via = @ \cup {read.at}, !.slash = FALSE,
                                 !.redirN = @ + 1, !.ro = FreshStat]
  <2>3. read' = new
    BY <1>7 DEF Forward
  <2>4. read.redirN + 1 \in Nat /\ read.via \cup {read.at} \in SUBSET Owner
    BY DEF Read
  <2>5. new \in Read
    BY <2>2, <2>4 DEF Read
  <2> QED
    BY <2>3, <2>5
<1> QED
  BY <1>1, <1>2, <1>3, <1>4, <1>5, <1>6, <1>7 DEF Next, Handle

LEMMA TypeInit ==
    ASSUME Init
    PROVE  TypeOK
<1> USE ReplicasAssumption, FreshStatType
<1>1. ReplicasInit
  BY DEF Init
<1>2. PICK t \in [Owner -> 1..MaxTime] : scan = [n \in Owner |-> ScanOnce(n, disk[n], t[n])]
  BY <1>1 DEF ReplicasInit
<1>3. ASSUME NEW n \in Owner
      PROVE  scan[n] \in Scan /\ Updated(FreshStat, scan[n].files) \in Stat
  <2>1. disk[n] \in Kind
    BY <1>1 DEF ReplicasInit
  <2>2. t[n] \in Nat \ {0} /\ scan[n] = ScanOnce(n, disk[n], t[n])
    BY <1>2
  <2> QED
    BY <2>1, <2>2, ScanOnceType, FirstEntry
<1>4. ReplicasTypeOK
  <2>1. disk \in [Owner -> Kind] /\ scan \in [Owner -> Scan]
    BY <1>1, <1>2, <1>3 DEF ReplicasInit
  <2>2. created \subseteq Owner
    BY <1>1 DEF ReplicasInit
  <2>3. peers \in [Owner -> SUBSET Owner]
    BY <1>1 DEF ReplicasInit
  <2>4. entry \in [Owner -> Stat]
    BY <1>1, <1>3 DEF ReplicasInit
  <2>5. heard \in [Owner -> [Owner -> Nat]] /\ mail \subseteq Mail
    BY <1>1 DEF ReplicasInit, Nobody
  <2>6. changes = 0 /\ restarts = 0
    BY <1>1, Zenon DEF ReplicasInit
  <2>7. 0 \in 0..MaxChanges /\ 0 \in 0..MaxRestarts
    BY ReplicasAssumption
  <2> QED
    BY <2>1, <2>2, <2>3, <2>4, <2>5, <2>6, <2>7 DEF ReplicasTypeOK
<1>5. read \in Read
  <2>1. PICK n \in Owner, f \in {"http", "ftp"} :
          read = [stage |-> "none", face |-> f, at |-> n, via |-> {},
                  slash |-> FALSE, redirN |-> 0, ro |-> FreshStat, since |-> 0,
                  settled |-> FALSE, answer |-> "none"]
    BY DEF Init
  <2> QED
    BY <2>1 DEF Read
<1> QED
  BY <1>4, <1>5 DEF TypeOK

\* TypeOK of Proxy: the read and the replicas keep their shape.
THEOREM TypeCorrect == Spec => []TypeOK
<1>1. Init => TypeOK
  BY TypeInit
<1>2. TypeOK /\ [Next]_vars => TypeOK'
  <2> SUFFICES ASSUME TypeOK, [Next]_vars
               PROVE  TypeOK'
    OBVIOUS
  <2>1. CASE Next
    BY <2>1, StepOfReplicas, ReplicasTypeStep, ReadTypeStep DEF TypeOK
  <2>2. CASE UNCHANGED vars
    BY <2>2 DEF vars, replicaVars, TypeOK, ReplicasTypeOK
  <2> QED
    BY <2>1, <2>2
<1> QED
  BY <1>1, <1>2, PTL DEF Spec

-----------------------------------------------------------------------------
\* Who announces what.

Announced == \A n \in Owner : \A a \in scan[n].files : a.owner = n /\ a.stamp = scan[n].time

MailOwned == \A u \in mail : \A a \in u.files : a.owner = u.from

OthersOnly == \A n \in Owner : n \notin peers[n]

\* Every announcement, in a scan or under way, is made by its owner.
\* The two ways in which an owner can be asked.
OwnersAreMet ==
    \A n \in Owner : entry[n].owner \in peers[n] \cup {n, NoOwner, Multiple}

OwnFilesAreScanned ==
    \A n \in Owner : entry[n].owner = n =>
        \E a \in scan[n].files : a.stamp = entry[n].stamp /\ a.dir = entry[n].dir

Truthful == Announced /\ MailOwned /\ OthersOnly /\ OwnersAreMet /\ OwnFilesAreScanned

LEMMA InitialScan ==
    ASSUME Init, NEW n \in Owner
    PROVE  /\ scan[n] \in Scan
           /\ \A a \in scan[n].files : a.owner = n /\ a.stamp = scan[n].time
           /\ \/ scan[n].files = {} /\ entry[n] = FreshStat
              \/ /\ entry[n].owner = n /\ entry[n].stamp > 0
                 /\ \E a \in scan[n].files : a.stamp = entry[n].stamp /\ a.dir = entry[n].dir
<1>1. ReplicasInit
  BY DEF Init
<1>2. PICK t \in [Owner -> 1..MaxTime] : scan = [m \in Owner |-> ScanOnce(m, disk[m], t[m])]
  BY <1>1 DEF ReplicasInit
<1>3. disk[n] \in Kind
  BY <1>1 DEF ReplicasInit
<1>4. t[n] \in Nat \ {0} /\ scan[n] = ScanOnce(n, disk[n], t[n])
  BY <1>2, ReplicasAssumption
<1>5. entry[n] = Updated(FreshStat, scan[n].files)
  BY <1>1 DEF ReplicasInit
<1> QED
  BY <1>3, <1>4, <1>5, ScanOnceType, FirstEntry

LEMMA TruthfulInit ==
    ASSUME Init
    PROVE  Truthful
<1>1. mail = {} /\ peers = [n \in Owner |-> {}]
  BY DEF Init, ReplicasInit
<1>2. Announced /\ MailOwned /\ OthersOnly
  BY <1>1, InitialScan DEF Announced, MailOwned, OthersOnly
<1>3. OwnersAreMet
  BY InitialScan, FreshStatType DEF OwnersAreMet
<1>4. OwnFilesAreScanned
  BY InitialScan, FreshStatType, OwnerAssumption DEF OwnFilesAreScanned
<1> QED
  BY <1>2, <1>3, <1>4 DEF Truthful

LEMMA TruthfulStep ==
    ASSUME ReplicasTypeOK, Truthful, ReplicaStep \/ UNCHANGED replicaVars
    PROVE  Truthful'
<1> USE DEF Truthful, ReplicasTypeOK
<1>1. CASE UNCHANGED replicaVars
  BY <1>1 DEF replicaVars, Announced, MailOwned, OthersOnly, OwnersAreMet, OwnFilesAreScanned
<1>2. ASSUME NEW n \in Owner, NEW m \in Owner, Meet(n, m)
      PROVE  Truthful'
  <2>1. OthersOnly' /\ OwnersAreMet'
    BY <1>2 DEF Meet, OthersOnly, OwnersAreMet
  <2> QED
    BY <1>2, <2>1 DEF Meet, Announced, MailOwned, OwnFilesAreScanned
<1>3. ASSUME NEW n \in Owner, NEW m \in Owner, Push(n, m)
      PROVE  Truthful'
  <2>1. MailOwned'
    BY <1>3 DEF Push, Announced, MailOwned
  <2> QED
    BY <1>3, <2>1 DEF Push, Announced, OthersOnly, OwnersAreMet, OwnFilesAreScanned
<1>4. ASSUME NEW u \in mail, Create(u)
      PROVE  Truthful'
  BY <1>4 DEF Create, Announced, MailOwned, OthersOnly, OwnersAreMet, OwnFilesAreScanned
<1>5. ASSUME NEW u \in mail, ReceiveUpdate(u)
      PROVE  Truthful'
  <2>1. /\ u.to \in Owner /\ u.from \in Owner /\ u.from \in peers[u.to] /\ u.from # u.to
        /\ u.files \in SUBSET Announcement
    BY <1>5 DEF ReceiveUpdate, Mail, OthersOnly
  <2>2. \/ entry'[u.to] = entry[u.to]
        \/ entry'[u.to].owner \in {u.from, Multiple}
    BY <1>5, <2>1, UpdatedEntry DEF ReceiveUpdate, MailOwned
  <2>3. \A n \in Owner : n # u.to => entry'[n] = entry[n]
    BY <1>5 DEF ReceiveUpdate
  <2>4. OwnersAreMet'
    BY <1>5, <2>1, <2>2, <2>3 DEF ReceiveUpdate, OwnersAreMet
  <2>5. OwnFilesAreScanned'
    BY <1>5, <2>1, <2>2, <2>3, OwnerAssumption DEF ReceiveUpdate, OwnFilesAreScanned
  <2> QED
    BY <1>5, <2>4, <2>5 DEF ReceiveUpdate, Announced, MailOwned, OthersOnly
<1>6. ASSUME NEW n \in Owner, NEW k \in Kind, ChangeDisk(n, k)
      PROVE  Truthful'
  BY <1>6 DEF ChangeDisk, Announced, MailOwned, OthersOnly, OwnersAreMet, OwnFilesAreScanned
<1>7. ASSUME NEW n \in Owner, NEW t \in 1..MaxTime, RestartReplica(n, t)
      PROVE  Truthful'
  <2>1. t \in Nat \ {0} /\ disk[n] \in Kind
    BY ReplicasAssumption
  <2>2. /\ scan'[n] = ScanOnce(n, disk[n], t)
        /\ \A m \in Owner : m # n => scan'[m] = scan[m] /\ entry'[m] = entry[m]
                                      /\ peers'[m] = peers[m]
        /\ entry'[n] = Updated(FreshStat, scan'[n].files) /\ peers'[n] = {}
    BY <1>7 DEF RestartReplica
  <2> DEFINE s == ScanOnce(n, disk[n], t)
             e == Updated(FreshStat, s.files)
  <2> HIDE DEF s, e
  <2>3. s.time = t /\ \A a \in s.files : a.owner = n /\ a.stamp = t
    <3>1. /\ ScanOnce(n, disk[n], t).time = t
          /\ \A a \in ScanOnce(n, disk[n], t).files : a.owner = n /\ a.stamp = t
      BY <2>1, ScanOnceType
    <3> QED
      BY <3>1 DEF s
  <2>4. \/ s.files = {} /\ e = FreshStat
        \/ e.owner = n /\ \E a \in s.files : a.stamp = e.stamp /\ a.dir = e.dir
    BY <2>1, FirstEntry DEF s, e
  <2>5. scan'[n] = s /\ entry'[n] = e
    BY <2>2 DEF s, e
  <2>6. Announced'
    BY <2>2, <2>3, <2>5 DEF Announced
  <2>7. MailOwned' /\ OthersOnly'
    BY <1>7, <2>2 DEF RestartReplica, MailOwned, OthersOnly
  <2>8. \/ entry'[n].owner = NoOwner
        \/ /\ entry'[n].owner = n
           /\ \E a \in scan'[n].files : a.stamp = entry'[n].stamp /\ a.dir = entry'[n].dir
    BY <2>4, <2>5, FreshStatType
  <2>9. OwnersAreMet'
    BY <2>2, <2>8 DEF OwnersAreMet
  <2>10. OwnFilesAreScanned'
    BY <2>2, <2>8, OwnerAssumption DEF OwnFilesAreScanned
  <2> QED
    BY <2>6, <2>7, <2>9, <2>10
<1> QED
  BY <1>1, <1>2, <1>3, <1>4, <1>5, <1>6, <1>7 DEF ReplicaStep, Running

-----------------------------------------------------------------------------
\* As long as the disks do not change, whatever a node ever announces of the path
\* is what its disk has there, with scan times that do not decrease.

OnDisk == \A n \in Owner : scan[n].time > 0 /\ scan[n] = ScanOnce(n, disk[n], scan[n].time)

MailOnDisk == \A u \in mail :
    /\ u.time > 0 /\ u.time <= scan[u.from].time
    /\ u.files = ScanOnce(u.from, disk[u.from], u.time).files

\* An update heard from a peer's present life has been merged.
HeardMerged ==
    \A n, m \in Owner :
        /\ heard[n][m] <= scan[m].time
        /\ heard[n][m] = scan[m].time =>
              \A a \in scan[m].files : n \in created /\ entry[n].stamp >= a.stamp

OwnCreated == \A n \in Owner : scan[n].files # {} => n \in created

\* An entry is made by the announcement of a node that still makes it.
EntryFrom ==
    \A n \in Owner : entry[n].stamp = 0 \/
        \E m \in Owner : \E a \in scan[m].files :
            /\ entry[n].stamp <= a.stamp /\ entry[n].dir = a.dir
            /\ entry[n].owner = m \/ a.dir

Kept == MailOnDisk /\ HeardMerged /\ OwnCreated /\ EntryFrom /\ OnDisk

Merged == changes = 0 => Kept

\* What ScanOnce announces.
LEMMA ScanOnceFiles ==
    ASSUME NEW n \in Owner, NEW k \in Kind, NEW t
    PROVE  /\ ScanOnce(n, k, t).files = {} <=> k = "nothing"
           /\ \A a \in ScanOnce(n, k, t).files :
                 /\ a.stamp = t /\ a.owner = n /\ a.dir = (k = "dir")
                 /\ ScanOnce(n, k, t).files = {a}
<1> DEFINE a == [dir |-> k = "dir", stamp |-> t, owner |-> n, del |-> FALSE]
<1>1. ScanOnce(n, k, t).files = IF k = "nothing" THEN {} ELSE {a}
  BY DEF ScanOnce
<1>2. a.stamp = t /\ a.owner = n /\ a.dir = (k = "dir")
  OBVIOUS
<1> HIDE DEF a
<1> QED
  BY <1>1, <1>2

\* A node after a restart: its own announcement, or none.
LEMMA RestartedNode ==
    ASSUME ReplicasTypeOK, NEW n \in Owner, NEW t \in 1..MaxTime, RestartReplica(n, t)
    PROVE  /\ scan'[n] = ScanOnce(n, disk[n], t) /\ scan'[n].time = t
           /\ t \in Nat /\ t > 0 /\ t >= scan[n].time
           /\ peers'[n] = {} /\ heard'[n] = Nobody
           /\ \A m \in Owner : m # n => /\ scan'[m] = scan[m] /\ entry'[m] = entry[m]
                                        /\ peers'[m] = peers[m] /\ heard'[m] = heard[m]
                                        /\ m \in created' <=> m \in created
           /\ \/ /\ scan'[n].files = {} /\ entry'[n] = FreshStat
              \/ /\ n \in created' /\ entry'[n].owner = n
                 /\ \E a \in scan'[n].files : a.stamp = entry'[n].stamp
                                              /\ a.dir = entry'[n].dir
<1> USE DEF ReplicasTypeOK
<1>1. t \in Nat \ {0} /\ disk[n] \in Kind
  BY ReplicasAssumption
<1>2. scan'[n] = ScanOnce(n, disk[n], t) /\ scan'[n].time = t
  BY <1>1, ScanOnceType DEF RestartReplica
<1>3. entry'[n] = Updated(FreshStat, scan'[n].files)
  BY <1>2 DEF RestartReplica
<1>4. /\ peers'[n] = {} /\ heard'[n] = Nobody
      /\ \A m \in Owner : m # n => /\ scan'[m] = scan[m] /\ entry'[m] = entry[m]
                                   /\ peers'[m] = peers[m] /\ heard'[m] = heard[m]
                                   /\ m \in created' <=> m \in created
  BY DEF RestartReplica
<1>5. scan'[n].files # {} => n \in created'
  BY DEF RestartReplica
<1>6. \/ scan'[n].files = {} /\ entry'[n] = FreshStat
      \/ /\ entry'[n].owner = n
         /\ \E a \in scan'[n].files : a.stamp = entry'[n].stamp /\ a.dir = entry'[n].dir
  <2> DEFINE s == ScanOnce(n, disk[n], t)
             e == Updated(FreshStat, s.files)
  <2> HIDE DEF s, e
  <2>1. \/ s.files = {} /\ e = FreshStat
        \/ e.owner = n /\ \E a \in s.files : a.stamp = e.stamp /\ a.dir = e.dir
    <3> HIDE DEF ReplicasTypeOK
    <3> QED
      BY <1>1, FirstEntry, Zenon DEF s, e
  <2>2. s = scan'[n] /\ e = entry'[n]
    BY <1>2, <1>3 DEF s, e
  <2> QED
    BY <2>1, <2>2
<1>7. t >= scan[n].time
  BY DEF RestartReplica
<1> QED
  BY <1>1, <1>2, <1>4, <1>5, <1>6, <1>7

\* Scans go on announcing what they have announced, with times that do not decrease.
ScansLast ==
    \A m \in Owner :
        /\ scan'[m].time >= scan[m].time
        /\ \A a \in scan[m].files : \E b \in scan'[m].files :
              b.stamp >= a.stamp /\ b.dir = a.dir
        /\ scan[m].files = {} => scan'[m].files = {}

LEMMA ScannedAgain ==
    ASSUME ReplicasTypeOK, OnDisk,
           NEW n \in Owner, NEW t \in 1..MaxTime, RestartReplica(n, t)
    PROVE  ScansLast /\ OnDisk'
<1> USE DEF ReplicasTypeOK
<1>1. disk' = disk /\ disk[n] \in Kind /\ \A m \in Owner : scan[m].time \in Nat
  BY DEF RestartReplica, Scan
<1>2. OnDisk'
  BY <1>1, RestartedNode DEF OnDisk
<1>3. ASSUME NEW m \in Owner, m # n
      PROVE  /\ scan'[m].time >= scan[m].time
             /\ \A a \in scan[m].files : \E b \in scan'[m].files :
                   b.stamp >= a.stamp /\ b.dir = a.dir
             /\ scan[m].files = {} => scan'[m].files = {}
  <2>1. scan'[m] = scan[m]
    BY <1>3, RestartedNode
  <2>2. \A a \in scan[m].files : a.stamp \in Nat
    <3>1. scan[m].files \in SUBSET Announcement
      BY DEF Scan
    <3> QED
      BY <3>1 DEF Announcement
  <2> QED
    BY <1>1, <2>1, <2>2
<1>4. scan[n].files = {} => scan'[n].files = {}
  BY <1>1, RestartedNode, ScanOnceFiles DEF OnDisk
<1>5. ASSUME NEW a \in scan[n].files
      PROVE  \E b \in scan'[n].files : b.stamp >= a.stamp /\ b.dir = a.dir
  <2>1. a.stamp = scan[n].time /\ a.dir = (disk[n] = "dir") /\ disk[n] # "nothing"
    BY <1>1, ScanOnceFiles DEF OnDisk
  <2>2. PICK b : b \in scan'[n].files
    BY <1>1, <2>1, RestartedNode, ScanOnceFiles
  <2>3. b.stamp = t /\ b.dir = (disk[n] = "dir")
    BY <1>1, <2>2, RestartedNode, ScanOnceFiles
  <2> QED
    BY <2>1, <2>2, <2>3, RestartedNode
<1>6. scan'[n].time >= scan[n].time
  BY RestartedNode
<1> QED
  BY <1>2, <1>3, <1>4, <1>5, <1>6 DEF ScansLast

\* The counters of changes and restarts only grow.
LEMMA LastingBefore ==
    ASSUME ReplicasTypeOK, ReplicaStep \/ UNCHANGED replicaVars
    PROVE  /\ changes' = 0 => changes = 0 /\ disk' = disk
           /\ restarts' = 0 => restarts = 0 /\ scan' = scan
           /\ Lasting' => Lasting
<1> USE ReplicasAssumption DEF ReplicasTypeOK
<1>1. changes \in Nat /\ restarts \in Nat
  OBVIOUS
<1>2. ASSUME NEW n \in Owner, NEW k \in Kind, ChangeDisk(n, k)
      PROVE  changes' # 0 /\ restarts' = restarts /\ scan' = scan
  BY <1>1, <1>2 DEF ChangeDisk
<1>3. ASSUME NEW n \in Owner, NEW t \in 1..MaxTime, RestartReplica(n, t)
      PROVE  restarts' # 0 /\ changes' = changes /\ disk' = disk
  BY <1>1, <1>3 DEF RestartReplica
<1>4. CASE UNCHANGED <<changes, restarts, disk, scan>>
  BY <1>4 DEF Lasting
<1> QED
  BY <1>2, <1>3, <1>4 DEF ReplicaStep, Running, Meet, Push, Create, ReceiveUpdate,
                          replicaVars, Lasting

LEMMA MergedInit ==
    ASSUME Init
    PROVE  Merged
<1>1. ReplicasInit
  BY DEF Init
<1>2. PICK t \in [Owner -> 1..MaxTime] : scan = [m \in Owner |-> ScanOnce(m, disk[m], t[m])]
  BY <1>1 DEF ReplicasInit
<1>3. ASSUME NEW n \in Owner
      PROVE  scan[n].time \in Nat /\ scan[n].time > 0
             /\ scan[n] = ScanOnce(n, disk[n], scan[n].time)
  <2>1. t[n] \in Nat \ {0} /\ scan[n] = ScanOnce(n, disk[n], t[n])
    BY <1>2, ReplicasAssumption
  <2>2. scan[n].time = t[n]
    BY <2>1 DEF ScanOnce
  <2> QED
    BY <2>1, <2>2
<1>4. OnDisk
  BY <1>3 DEF OnDisk
<1>5. EntryFrom
  <2> SUFFICES ASSUME NEW n \in Owner, entry[n].stamp # 0
               PROVE  \E a \in scan[n].files : /\ entry[n].stamp <= a.stamp
                                               /\ entry[n].dir = a.dir
                                               /\ entry[n].owner = n \/ a.dir
    BY DEF EntryFrom
  <2>1. entry[n].owner = n /\ \A a \in scan[n].files : a.stamp = scan[n].time
    BY InitialScan, FreshStatType
  <2>2. \E a \in scan[n].files : a.stamp = entry[n].stamp /\ a.dir = entry[n].dir
    BY InitialScan, FreshStatType
  <2> QED
    BY <1>3, <2>1, <2>2
<1>6. MailOnDisk /\ OwnCreated
  BY <1>1 DEF ReplicasInit, MailOnDisk, OwnCreated
<1>7. HeardMerged
  <2>1. \A n, m \in Owner : heard[n][m] = 0
    BY <1>1 DEF ReplicasInit, Nobody
  <2> QED
    BY <1>3, <2>1 DEF HeardMerged
<1> QED
  BY <1>4, <1>5, <1>6, <1>7 DEF Merged, Kept

\* Merging an update of a disk that has not changed.
LEMMA ReceivedOnDisk ==
    ASSUME ReplicasTypeOK, Kept, NEW u \in mail, ReceiveUpdate(u)
    PROVE  /\ u.to \in Owner /\ u.from \in Owner
           /\ scan' = scan /\ mail' = mail /\ created' = created /\ disk' = disk
           /\ \A n \in Owner : n # u.to => entry'[n] = entry[n]
           /\ \A n, m \in Owner : n # u.to \/ m # u.from => heard'[n][m] = heard[n][m]
           /\ heard'[u.to][u.from] = u.time
           /\ u.files = {} \/ u.to \in created
           /\ entry'[u.to].stamp >= entry[u.to].stamp
           /\ \A a \in u.files : entry'[u.to].stamp >= a.stamp
           /\ \/ entry'[u.to] = entry[u.to]
              \/ \E a \in u.files : /\ entry'[u.to].stamp = a.stamp /\ entry'[u.to].dir = a.dir
                                    /\ entry'[u.to].owner = a.owner \/ a.dir
<1> USE DEF ReplicasTypeOK
<1>1. /\ u.to \in Owner /\ u.from \in Owner /\ u.files \in SUBSET Announcement
      /\ entry[u.to] \in Stat
      /\ u.files = ScanOnce(u.from, disk[u.from], u.time).files
  BY DEF Mail, Kept, MailOnDisk
<1>2. /\ scan' = scan /\ mail' = mail /\ created' = created /\ disk' = disk
      /\ u.files = {} \/ u.to \in created
      /\ entry'[u.to] = Updated(entry[u.to], u.files)
      /\ heard'[u.to][u.from] = u.time
      /\ \A n \in Owner : n # u.to => entry'[n] = entry[n]
      /\ \A n, m \in Owner : n # u.to \/ m # u.from => heard'[n][m] = heard[n][m]
  BY <1>1 DEF ReceiveUpdate
<1>3. \A a \in u.files : u.files = {a}
  BY <1>1, ScanOnceFiles
<1>4. Updated(entry[u.to], u.files) \in Stat
  BY <1>1, UpdatedEntry
<1>5. \/ entry'[u.to] = entry[u.to]
      \/ \E a \in u.files : /\ a.stamp > entry[u.to].stamp
                            /\ entry'[u.to].stamp = a.stamp /\ entry'[u.to].dir = a.dir
                            /\ entry'[u.to].owner = a.owner \/ a.dir
  BY <1>1, <1>2, UpdatedEntry
<1>6. \A a \in u.files : entry'[u.to].stamp >= a.stamp
  <2>1. \A a \in Announcement : u.files = {a} => entry'[u.to].stamp >= a.stamp
    BY <1>1, <1>2, UpdatedEntry
  <2> QED
    BY <1>1, <1>3, <2>1
<1>7. entry'[u.to].stamp >= entry[u.to].stamp
  <2>1. entry[u.to].stamp \in Nat /\ entry'[u.to].stamp \in Nat
    BY <1>1, <1>2, <1>4 DEF Stat
  <2> QED
    BY <1>5, <2>1
<1> QED
  BY <1>1, <1>2, <1>5, <1>6, <1>7

LEMMA MergedReceive ==
    ASSUME ReplicasTypeOK, Truthful, Kept, NEW u \in mail, ReceiveUpdate(u)
    PROVE  Kept'
<1> USE ReceivedOnDisk DEF ReplicasTypeOK
<1>1. /\ u.time \in Nat /\ scan[u.from].time \in Nat
      /\ u.time > 0 /\ u.time <= scan[u.from].time
      /\ u.files = ScanOnce(u.from, disk[u.from], u.time).files
      /\ scan[u.from].files = ScanOnce(u.from, disk[u.from], scan[u.from].time).files
      /\ disk[u.from] \in Kind
  BY DEF Mail, Scan, Kept, MailOnDisk, OnDisk
<1>2. OnDisk' /\ MailOnDisk' /\ OwnCreated'
  BY DEF Kept, OnDisk, MailOnDisk, OwnCreated
<1>3. \A n \in Owner : /\ entry[n].stamp \in Nat /\ entry'[n].stamp \in Nat
                       /\ entry'[n].stamp >= entry[n].stamp
  <2>1. ReplicasTypeOK'
    BY ReplicasTypeStep DEF ReplicaStep, Running
  <2>2. \A n \in Owner : entry[n].stamp \in Nat /\ entry'[n].stamp \in Nat
    BY <2>1 DEF Stat
  <2> QED
    BY <2>2
<1>4. HeardMerged'
  <2> SUFFICES ASSUME NEW n \in Owner, NEW m \in Owner
               PROVE  /\ heard'[n][m] <= scan[m].time
                      /\ heard'[n][m] = scan[m].time =>
                            \A a \in scan[m].files : n \in created /\ entry'[n].stamp >= a.stamp
    BY DEF HeardMerged
  <2>1. CASE n = u.to /\ m = u.from
    <3>1. heard'[n][m] = u.time
      BY <2>1
    <3>2. u.time = scan[m].time => u.files = scan[m].files
      BY <1>1, <2>1
    <3> QED
      BY <1>1, <2>1, <3>1, <3>2
  <2>2. CASE n # u.to \/ m # u.from
    <3>1. heard'[n][m] = heard[n][m]
      BY <2>2
    <3>2. \A a \in scan[m].files : a.stamp \in Nat
      <4>1. scan[m].files \in SUBSET Announcement
        BY DEF Scan
      <4> QED
        BY <4>1 DEF Announcement
    <3>3. /\ heard[n][m] <= scan[m].time
          /\ heard[n][m] = scan[m].time =>
                \A a \in scan[m].files : n \in created /\ entry[n].stamp >= a.stamp
      BY DEF Kept, HeardMerged
    <3> HIDE ReceivedOnDisk
    <3> QED
      BY <1>3, <3>1, <3>2, <3>3
  <2> QED
    BY <2>1, <2>2
<1>5. EntryFrom'
  <2>1. CASE entry'[u.to] = entry[u.to]
    <3>1. \A n \in Owner : entry'[n] = entry[n]
      BY <2>1
    <3> QED
      BY <3>1 DEF Kept, EntryFrom
  <2>2. CASE entry'[u.to] # entry[u.to]
    <3>1. PICK a \in u.files : /\ entry'[u.to].stamp = a.stamp /\ entry'[u.to].dir = a.dir
                               /\ entry'[u.to].owner = a.owner \/ a.dir
      BY <2>2
    <3>2. a.stamp = u.time /\ a.owner = u.from /\ a.dir = (disk[u.from] = "dir")
          /\ disk[u.from] # "nothing"
      BY <1>1, <3>1, ScanOnceFiles
    <3>3. PICK b : b \in scan[u.from].files
      BY <1>1, <3>2, ScanOnceFiles
    <3>4. b.stamp = scan[u.from].time /\ b.dir = (disk[u.from] = "dir")
      BY <1>1, <3>3, ScanOnceFiles
    <3>5. /\ entry'[u.to].stamp <= b.stamp /\ entry'[u.to].dir = b.dir
          /\ entry'[u.to].owner = u.from \/ b.dir
      BY <1>1, <3>1, <3>2, <3>4
    <3>6. \A n \in Owner : n # u.to => entry'[n] = entry[n]
      OBVIOUS
    <3>7. EntryFrom /\ scan' = scan /\ u.from \in Owner
      BY DEF Kept
    <3> HIDE ReceivedOnDisk
    <3>8. ASSUME NEW n \in Owner
          PROVE  entry'[n].stamp = 0 \/
                    \E m \in Owner : \E c \in scan[m].files :
                        /\ entry'[n].stamp <= c.stamp /\ entry'[n].dir = c.dir
                        /\ entry'[n].owner = m \/ c.dir
      BY <3>3, <3>5, <3>6, <3>7 DEF EntryFrom
    <3> QED
      BY <3>7, <3>8 DEF EntryFrom
  <2> QED
    BY <2>1, <2>2
<1> QED
  BY <1>2, <1>4, <1>5 DEF Kept

LEMMA MergedRestart ==
    ASSUME ReplicasTypeOK, Kept, NEW n \in Owner, NEW t \in 1..MaxTime, RestartReplica(n, t)
    PROVE  Kept'
<1> USE DEF ReplicasTypeOK
<1>1. ScansLast /\ OnDisk' /\ OnDisk
  BY ScannedAgain DEF Kept
<1>2. disk' = disk /\ mail' \subseteq mail
  BY DEF RestartReplica
<1>3. \A m \in Owner : scan[m].time \in Nat /\ scan'[m].time \in Nat
  BY RestartedNode DEF Scan
<1>4. MailOnDisk'
  <2> SUFFICES ASSUME NEW u \in mail
               PROVE  /\ u.time > 0 /\ u.time <= scan'[u.from].time
                      /\ u.files = ScanOnce(u.from, disk[u.from], u.time).files
    BY <1>2 DEF MailOnDisk
  <2>1. u.time \in Nat /\ u.from \in Owner
    BY DEF Mail
  <2>2. /\ u.time > 0 /\ u.time <= scan[u.from].time
        /\ u.files = ScanOnce(u.from, disk[u.from], u.time).files
    BY DEF Kept, MailOnDisk
  <2>3. scan'[u.from].time >= scan[u.from].time
    BY <1>1, <2>1 DEF ScansLast
  <2> QED
    BY <1>3, <2>1, <2>2, <2>3
<1>5. HeardMerged'
  <2> SUFFICES ASSUME NEW i \in Owner, NEW m \in Owner
               PROVE  /\ heard'[i][m] <= scan'[m].time
                      /\ heard'[i][m] = scan'[m].time =>
                            \A a \in scan'[m].files :
                                i \in created' /\ entry'[i].stamp >= a.stamp
    BY DEF HeardMerged
  <2>1. CASE i = n
    <3>1. heard'[i][m] = 0
      BY <2>1, RestartedNode DEF Nobody
    <3>2. scan'[m].time > 0
      BY <1>1 DEF OnDisk
    <3> QED
      BY <1>3, <3>1, <3>2
  <2>2. CASE i # n
    <3>1. heard'[i][m] = heard[i][m] /\ entry'[i] = entry[i]
          /\ (i \in created' <=> i \in created)
      BY <2>2, RestartedNode
    <3>2. /\ heard[i][m] <= scan[m].time
          /\ heard[i][m] = scan[m].time =>
                \A a \in scan[m].files : i \in created /\ entry[i].stamp >= a.stamp
      BY DEF Kept, HeardMerged
    <3>3. heard[i][m] \in Nat /\ scan'[m].time >= scan[m].time
      BY <1>1 DEF ScansLast
    <3>4. scan'[m].time = scan[m].time => scan'[m] = scan[m]
      BY <1>1, <1>2 DEF OnDisk
    <3>5. scan[m].time \in Nat /\ scan'[m].time \in Nat
      BY <1>3
    <3> HIDE DEF ReplicasTypeOK
    <3>6. heard[i][m] <= scan'[m].time
      BY <3>2, <3>3, <3>5
    <3>7. heard[i][m] = scan'[m].time => heard[i][m] = scan[m].time
      BY <3>2, <3>3, <3>5
    <3> QED
      BY <3>1, <3>2, <3>4, <3>6, <3>7
  <2> QED
    BY <2>1, <2>2
<1>6. OwnCreated'
  BY RestartedNode DEF Kept, OwnCreated
<1>7. EntryFrom'
  <2> SUFFICES ASSUME NEW i \in Owner, entry'[i].stamp # 0
               PROVE  \E m \in Owner : \E a \in scan'[m].files :
                          /\ entry'[i].stamp <= a.stamp /\ entry'[i].dir = a.dir
                          /\ entry'[i].owner = m \/ a.dir
    BY DEF EntryFrom
  <2>1. CASE i = n
    <3>1. PICK a \in scan'[n].files : a.stamp = entry'[n].stamp /\ a.dir = entry'[n].dir
      BY <2>1, RestartedNode, FreshStatType
    <3>2. entry'[n].owner = n
      BY <2>1, RestartedNode, FreshStatType
    <3>3. a.stamp = t /\ t \in Nat
      BY <3>1, RestartedNode, ScanOnceFiles
    <3> QED
      BY <2>1, <3>1, <3>2, <3>3
  <2>2. CASE i # n
    <3>1. entry'[i] = entry[i] /\ entry[i].stamp \in Nat
      BY <2>2, RestartedNode DEF Stat
    <3>2. PICK m \in Owner : \E a \in scan[m].files :
                 /\ entry[i].stamp <= a.stamp /\ entry[i].dir = a.dir
                 /\ entry[i].owner = m \/ a.dir
      BY <3>1 DEF Kept, EntryFrom
    <3>3. PICK a \in scan[m].files :
                 /\ entry[i].stamp <= a.stamp /\ entry[i].dir = a.dir
                 /\ entry[i].owner = m \/ a.dir
      BY <3>2
    <3>4. PICK b \in scan'[m].files : b.stamp >= a.stamp /\ b.dir = a.dir
      BY <1>1 DEF ScansLast
    <3>5. a.stamp = scan[m].time /\ b.stamp = scan'[m].time
      BY <1>1, <1>2, <3>3, <3>4, ScanOnceFiles DEF OnDisk
    <3> QED
      BY <1>3, <3>1, <3>3, <3>4, <3>5
  <2> QED
    BY <2>1, <2>2
<1> QED
  BY <1>1, <1>4, <1>5, <1>6, <1>7 DEF Kept

LEMMA MergedStep ==
    ASSUME ReplicasTypeOK, Truthful, Merged, ReplicaStep \/ UNCHANGED replicaVars
    PROVE  Merged'
<1> SUFFICES ASSUME changes' = 0
             PROVE  Kept'
  BY DEF Merged
<1> USE DEF ReplicasTypeOK
<1>1. changes = 0 /\ disk' = disk /\ Kept
  BY LastingBefore DEF Merged
<1>2. ASSUME NEW n \in Owner, NEW m \in Owner, Push(n, m)
      PROVE  Kept'
  <2>1. scan[n].time \in Nat /\ scan[n].time > 0
        /\ scan[n] = ScanOnce(n, disk[n], scan[n].time)
    BY <1>1 DEF Scan, Kept, OnDisk
  <2>2. MailOnDisk'
    BY <1>1, <1>2, <2>1 DEF Push, Kept, MailOnDisk
  <2> QED
    BY <1>1, <1>2, <2>2 DEF Push, Kept, HeardMerged, OwnCreated, EntryFrom, OnDisk
<1>3. ASSUME NEW u \in mail, Create(u)
      PROVE  Kept'
  BY <1>1, <1>3 DEF Create, Kept, MailOnDisk, HeardMerged, OwnCreated, EntryFrom, OnDisk
<1>4. CASE UNCHANGED <<scan, entry, mail, heard, created>>
  BY <1>1, <1>4 DEF Kept, MailOnDisk, HeardMerged, OwnCreated, EntryFrom, OnDisk
<1> QED
  BY <1>1, <1>2, <1>3, <1>4, MergedReceive, MergedRestart
     DEF ReplicaStep, Running, Meet, ChangeDisk, replicaVars

-----------------------------------------------------------------------------
\* While a node goes on announcing what it has announced, updates and entries do
\* not name an owner whose last scan is older, or found nothing.

MailCurrent == \A u \in mail : \A a \in u.files :
                   \E b \in scan[u.from].files : b.stamp >= a.stamp

OwnerCurrent == \A n, k \in Owner : entry[n].owner = k =>
                    \E a \in scan[k].files : a.stamp >= entry[n].stamp

\* A node's own announcement was merged first: others had to be newer.
OwnMerged == \A n \in Owner : scan[n].files # {} =>
                 entry[n].owner = n \/ entry[n].stamp > scan[n].time

Current == Lasting => MailCurrent /\ OwnerCurrent /\ OwnMerged

LEMMA StampsOf ==
    ASSUME NEW e \in [Owner -> Stat], NEW s \in [Owner -> Scan], NEW n \in Owner
    PROVE  /\ e[n].stamp \in Nat /\ s[n].time \in Nat
           /\ \A a \in s[n].files : a \in Announcement /\ a.stamp \in Nat
<1>1. e[n] \in Stat /\ s[n].files \in SUBSET Announcement /\ s[n].time \in Nat
  BY DEF Scan
<1> QED
  BY <1>1 DEF Stat, Announcement

LEMMA StampTypes ==
    ASSUME ReplicasTypeOK
    PROVE  \A n \in Owner : /\ entry[n].stamp \in Nat /\ scan[n].time \in Nat
                            /\ \A a \in scan[n].files : a \in Announcement /\ a.stamp \in Nat
BY StampsOf DEF ReplicasTypeOK

LEMMA StampTypesNext ==
    ASSUME ReplicasTypeOK'
    PROVE  \A n \in Owner : /\ entry'[n].stamp \in Nat /\ scan'[n].time \in Nat
                            /\ \A a \in scan'[n].files : a.stamp \in Nat
BY StampsOf DEF ReplicasTypeOK

LEMMA CurrentInit ==
    ASSUME Init
    PROVE  Current
<1>1. MailCurrent
  BY DEF Init, ReplicasInit, MailCurrent
<1>2. OwnerCurrent
  <2> SUFFICES ASSUME NEW n \in Owner, entry[n].owner \in Owner
               PROVE  \E a \in scan[entry[n].owner].files : a.stamp >= entry[n].stamp
    BY DEF OwnerCurrent
  <2>1. entry[n].owner = n /\ \E a \in scan[n].files : a.stamp = entry[n].stamp
    BY InitialScan, FreshStatType, OwnerAssumption
  <2>2. entry[n].stamp \in Nat
    BY TypeInit, StampTypes DEF TypeOK
  <2> QED
    BY <2>1, <2>2
<1>3. OwnMerged
  BY InitialScan DEF OwnMerged
<1> QED
  BY <1>1, <1>2, <1>3 DEF Current

LEMMA CurrentReceive ==
    ASSUME ReplicasTypeOK, Truthful, MailCurrent, OwnerCurrent, OwnMerged,
           NEW u \in mail, ReceiveUpdate(u)
    PROVE  (MailCurrent /\ OwnerCurrent /\ OwnMerged)'
<1> USE DEF ReplicasTypeOK
<1>1. /\ u.to \in Owner /\ u.from \in Owner /\ u.files \in SUBSET Announcement
      /\ entry[u.to] \in Stat
  BY DEF Mail
<1>2. /\ scan' = scan /\ mail' = mail
      /\ entry'[u.to] = Updated(entry[u.to], u.files)
      /\ \A n \in Owner : n # u.to => entry'[n] = entry[n]
  BY <1>1 DEF ReceiveUpdate
<1>3. CASE entry'[u.to] = entry[u.to]
  <2>1. \A n \in Owner : entry'[n] = entry[n]
    BY <1>2, <1>3
  <2> QED
    BY <1>2, <2>1 DEF MailCurrent, OwnerCurrent, OwnMerged
<1>4. CASE entry'[u.to] # entry[u.to]
  <2>1. PICK a \in u.files :
          /\ a.stamp > entry[u.to].stamp
          /\ entry'[u.to].stamp = a.stamp
          /\ entry'[u.to].owner = a.owner \/ entry'[u.to].owner = Multiple
    BY <1>1, <1>2, <1>4, UpdatedEntry
  <2>2. a.owner = u.from /\ \E b \in scan[u.from].files : b.stamp >= a.stamp
    BY DEF Truthful, MailOwned, MailCurrent
  <2>3. OwnerCurrent'
    BY <1>1, <1>2, <2>1, <2>2, OwnerAssumption DEF OwnerCurrent
  <2>4. scan[u.to].files # {} => entry'[u.to].stamp > scan[u.to].time
    <3>1. /\ a.stamp \in Nat /\ entry[u.to].stamp \in Nat /\ scan[u.to].time \in Nat
      BY <1>1, <2>1 DEF Announcement, Stat, Scan
    <3>2. scan[u.to].files # {} => entry[u.to].stamp >= scan[u.to].time
      <4>1. entry[u.to].owner = u.to => entry[u.to].stamp = scan[u.to].time
        BY <1>1 DEF Truthful, OwnFilesAreScanned, Announced
      <4> QED
        BY <1>1, <3>1, <4>1 DEF OwnMerged
    <3> QED
      BY <2>1, <3>1, <3>2
  <2>5. OwnMerged'
    BY <1>2, <2>4 DEF OwnMerged
  <2> QED
    BY <1>2, <2>3, <2>5 DEF MailCurrent
<1> QED
  BY <1>3, <1>4

LEMMA CurrentRestart ==
    ASSUME ReplicasTypeOK, ReplicasTypeOK', MailCurrent, OwnerCurrent, OwnMerged, ScansLast,
           NEW n \in Owner, NEW t \in 1..MaxTime, RestartReplica(n, t)
    PROVE  (MailCurrent /\ OwnerCurrent /\ OwnMerged)'
<1>1. MailCurrent'
  <2> SUFFICES ASSUME NEW u \in mail, NEW a \in u.files
               PROVE  \E c \in scan'[u.from].files : c.stamp >= a.stamp
    BY DEF RestartReplica, MailCurrent
  <2>1. u.from \in Owner /\ u.files \in SUBSET Announcement
    BY DEF ReplicasTypeOK, Mail
  <2>2. PICK b \in scan[u.from].files : b.stamp >= a.stamp
    BY DEF MailCurrent
  <2>3. PICK c \in scan'[u.from].files : c.stamp >= b.stamp
    BY <2>1 DEF ScansLast
  <2>4. a.stamp \in Nat /\ b.stamp \in Nat /\ c.stamp \in Nat
    BY <2>1, StampTypes, StampTypesNext DEF Announcement
  <2> QED
    BY <2>2, <2>3, <2>4
<1>2. OwnerCurrent'
  <2> SUFFICES ASSUME NEW i \in Owner, NEW k \in Owner, entry'[i].owner = k
               PROVE  \E c \in scan'[k].files : c.stamp >= entry'[i].stamp
    BY DEF OwnerCurrent
  <2>1. CASE i = n
    <3>1. k = n /\ \E c \in scan'[n].files : c.stamp = entry'[n].stamp
      BY <2>1, RestartedNode, FreshStatType, OwnerAssumption
    <3>2. entry'[n].stamp \in Nat
      BY StampTypesNext
    <3> QED
      BY <2>1, <3>1, <3>2
  <2>2. CASE i # n
    <3>1. entry'[i] = entry[i] /\ entry[i].stamp \in Nat
      BY <2>2, RestartedNode, StampTypes
    <3>2. PICK b \in scan[k].files : b.stamp >= entry[i].stamp
      BY <3>1 DEF OwnerCurrent
    <3>3. PICK c \in scan'[k].files : c.stamp >= b.stamp
      BY DEF ScansLast
    <3>4. b.stamp \in Nat /\ c.stamp \in Nat
      BY StampTypes, StampTypesNext
    <3> QED
      BY <3>1, <3>2, <3>3, <3>4
  <2> QED
    BY <2>1, <2>2
<1>3. OwnMerged'
  <2> SUFFICES ASSUME NEW i \in Owner, scan'[i].files # {}
               PROVE  entry'[i].owner = i \/ entry'[i].stamp > scan'[i].time
    BY DEF OwnMerged
  <2>1. CASE i = n
    BY <2>1, RestartedNode
  <2>2. CASE i # n
    BY <2>2, RestartedNode DEF OwnMerged
  <2> QED
    BY <2>1, <2>2
<1> QED
  BY <1>1, <1>2, <1>3

LEMMA CurrentStep ==
    ASSUME ReplicasTypeOK, Truthful, Merged, Current, ReplicaStep \/ UNCHANGED replicaVars
    PROVE  Current'
<1> SUFFICES ASSUME Lasting'
             PROVE  (MailCurrent /\ OwnerCurrent /\ OwnMerged)'
  BY DEF Current
<1>1. MailCurrent /\ OwnerCurrent /\ OwnMerged
  BY LastingBefore DEF Current
<1>2. CASE UNCHANGED <<scan, entry, mail>>
  BY <1>1, <1>2 DEF MailCurrent, OwnerCurrent, OwnMerged
<1>3. ASSUME NEW n \in Owner, NEW m \in Owner, Push(n, m)
      PROVE  (MailCurrent /\ OwnerCurrent /\ OwnMerged)'
  <2>1. \A a \in scan[n].files : a.stamp >= a.stamp
    BY StampTypes
  <2>2. MailCurrent'
    BY <1>1, <1>3, <2>1 DEF Push, MailCurrent
  <2> QED
    BY <1>1, <1>3, <2>2 DEF Push, OwnerCurrent, OwnMerged
<1>4. ASSUME NEW n \in Owner, NEW t \in 1..MaxTime, RestartReplica(n, t)
      PROVE  (MailCurrent /\ OwnerCurrent /\ OwnMerged)'
  <2>1. restarts \in Nat /\ restarts' = restarts + 1 /\ changes' = changes
    BY <1>4, ReplicasAssumption DEF RestartReplica, ReplicasTypeOK
  <2>2. changes = 0
    BY <2>1 DEF Lasting
  <2>3. ScansLast
    BY <1>4, <2>2, ScannedAgain DEF Merged, Kept
  <2>4. ReplicasTypeOK'
    BY ReplicasTypeStep
  <2> QED
    BY <1>1, <1>4, <2>3, <2>4, CurrentRestart
<1> QED
  BY <1>1, <1>2, <1>3, <1>4, CurrentReceive
     DEF ReplicaStep, Running, Meet, Create, ChangeDisk, replicaVars

-----------------------------------------------------------------------------
\* The nodes a request comes through have older and older scans, read backwards.

\* The snapshot of the entry is of a node that announces the path, newer than this
\* node's own unless it is this node's own, and no older than what was known first.
SnapshotOK ==
    /\ read.ro.owner \in Owner =>
          \E a \in scan[read.ro.owner].files : a.stamp >= read.ro.stamp
    /\ scan[read.at].files # {} =>
          read.ro.owner = read.at \/ read.ro.stamp > scan[read.at].time
    /\ read.ro.stamp >= read.since

ViaOK ==
    /\ read.via # {} => scan[read.at].files # {} /\ scan[read.at].time >= read.since
    /\ \A v \in read.via : scan[v].files # {} => scan[v].time < scan[read.at].time

Chain ==
    Lasting =>
        /\ read.stage = "none" => read.via = {}
        /\ read.stage = "open" => SnapshotOK
        /\ read.stage # "done" => ViaOK /\ read.answer = "none"
        /\ read.at \notin read.via
        /\ read.answer = "contents" => scan[read.at].time >= read.since

LEMMA ChainInit ==
    ASSUME Init
    PROVE  Chain
<1>1. read.stage = "none" /\ read.via = {} /\ read.answer = "none"
  BY DEF Init
<1> QED
  BY <1>1 DEF Chain, ViaOK

\* An answer leaves the chain of the request alone.
LEMMA ChainEnd ==
    ASSUME TypeOK, Chain, Lasting, scan' = scan,
           NEW answer \in {"contents", "listing", "refused", "broken"}, End(answer),
           answer = "contents" => scan[read.at].time >= read.since
    PROVE  Chain'
<1>1. /\ read'.stage = "done" /\ read'.answer = answer /\ read'.at = read.at
      /\ read'.via = read.via /\ read'.since = read.since
  BY DEF End, TypeOK, Read
<1> QED
  BY <1>1 DEF Chain, ViaOK

\* A restart ends the reads that a node takes part in, and the others find what
\* the node announces again.
LEMMA ChainRestart ==
    ASSUME TypeOK, TypeOK', Merged, Chain, Lasting, changes = 0,
           NEW n \in Owner, NEW t \in 1..MaxTime, Restart(n, t)
    PROVE  Chain'
<1> USE DEF TypeOK
<1>1. RestartReplica(n, t)
  BY DEF Restart
<1>2. ScansLast
  BY <1>1, ScannedAgain DEF Merged, Kept
<1>3. \A m \in Owner : scan[m].time \in Nat /\ scan'[m].time \in Nat
  BY StampTypes, StampTypesNext
<1>4. read.at \in Owner /\ read.via \subseteq Owner /\ read.since \in Nat
      /\ read.ro.stamp \in Nat
  BY DEF Read, Stat
<1>5. CASE End("broken") /\ Active
  <2>1. /\ read'.stage = "done" /\ read'.answer = "broken" /\ read'.at = read.at
        /\ read'.via = read.via
    BY <1>5 DEF End, Read
  <2> QED
    BY <2>1 DEF Chain
<1>6. CASE read' = [read EXCEPT !.settled = FALSE] /\ ~(Active /\ n \in read.via \cup {read.at})
  <2>1. /\ read'.stage = read.stage /\ read'.answer = read.answer /\ read'.at = read.at
        /\ read'.via = read.via /\ read'.since = read.since /\ read'.ro = read.ro
    BY <1>6 DEF Read
  <2>2. read.answer = "contents" => scan'[read.at].time >= read.since
    BY <1>2, <1>3, <1>4 DEF Chain, ScansLast
  <2>3. CASE ~Active
    <3>1. read.stage \in {"none", "done"}
      BY <2>3 DEF Active, Read
    <3>2. read.stage = "none" => ViaOK'
      BY <2>1 DEF Chain, ViaOK
    <3> QED
      BY <2>1, <2>2, <3>1, <3>2 DEF Chain
  <2>4. CASE Active
    <3>1. scan'[read.at] = scan[read.at] /\ \A v \in read.via : scan'[v] = scan[v]
      BY <1>1, <1>4, <1>6, <2>4, RestartedNode
    <3>2. ViaOK'
      BY <2>1, <2>4, <3>1 DEF Chain, ViaOK, Active
    <3>3. SnapshotOK => SnapshotOK'
      <4>1. ASSUME read.ro.owner \in Owner, NEW a \in scan[read.ro.owner].files,
                   a.stamp >= read.ro.stamp
            PROVE  \E c \in scan'[read.ro.owner].files : c.stamp >= read.ro.stamp
        <5>1. PICK c \in scan'[read.ro.owner].files : c.stamp >= a.stamp
          BY <1>2, <4>1 DEF ScansLast
        <5>2. a.stamp \in Nat /\ c.stamp \in Nat
          BY <4>1, StampTypes, StampTypesNext
        <5> QED
          BY <1>4, <4>1, <5>1, <5>2
      <4> QED
        BY <2>1, <3>1, <4>1 DEF SnapshotOK
    <3> QED
      BY <2>1, <2>2, <3>2, <3>3 DEF Chain
  <2> QED
    BY <2>3, <2>4
<1> QED
  BY <1>5, <1>6 DEF Restart

LEMMA ChainStep ==
    ASSUME TypeOK, Truthful, Merged, Current, Chain, TypeOK', Next
    PROVE  Chain'
<1> SUFFICES ASSUME Lasting'
             PROVE  Chain'
  BY DEF Chain
<1>0. Lasting
  BY StepOfReplicas, LastingBefore DEF TypeOK
<1>1. ASSUME NEW n \in Owner, NEW t \in 1..MaxTime, Restart(n, t)
      PROVE  Chain'
  <2>1. restarts \in Nat /\ restarts' = restarts + 1 /\ changes' = changes
    BY <1>1, ReplicasAssumption DEF Restart, RestartReplica, TypeOK, ReplicasTypeOK
  <2>2. changes = 0
    BY <2>1 DEF Lasting
  <2> QED
    BY <1>0, <1>1, <2>2, ChainRestart
<1>2. CASE Running /\ UNCHANGED read
  <2>1. scan' = scan
    BY <1>2 DEF Running, Meet, Push, Create, ReceiveUpdate, ChangeDisk
  <2> QED
    BY <1>0, <1>2, <2>1 DEF Chain, SnapshotOK, ViaOK
<1>3. CASE Ask \/ Handle \/ Break
  <2> USE DEF TypeOK
  <2>1. UNCHANGED replicaVars /\ scan' = scan
    BY <1>3 DEF Ask, Handle, Break, NotFound, FindDir, FindFile, OpenLocal, TooMany,
                UnknownNode, Forward, replicaVars
  <2>2. MailCurrent /\ OwnerCurrent /\ OwnMerged
    BY <1>0 DEF Current
  <2>3. read.at \in Owner /\ entry[read.at] \in Stat /\ scan[read.at] \in Scan
    BY DEF Read, ReplicasTypeOK
  <2>4. CASE End("listing") \/ End("refused") \/ End("broken")
    BY <1>0, <2>1, <2>4, ChainEnd
  <2>5. CASE Ask
    <3>1. /\ read.stage = "none" /\ read'.stage = "seek" /\ read'.at = read.at
          /\ read'.via = read.via /\ read'.since = read.since /\ read'.answer = read.answer
      BY <2>5 DEF Ask, Read
    <3> QED
      BY <1>0, <2>1, <3>1 DEF Chain, ViaOK
  <2>6. CASE FindDir
    <3>1. CASE read' = [read EXCEPT !.slash = TRUE, !.redirN = 0]
      <4>1. /\ read.stage = "seek" /\ read'.stage = "seek" /\ read'.at = read.at
            /\ read'.via = read.via /\ read'.since = read.since
            /\ read'.answer = read.answer
        BY <2>6, <3>1 DEF FindDir, Read
      <4> QED
        BY <1>0, <2>1, <4>1 DEF Chain, ViaOK
    <3> QED
      BY <2>4, <2>6, <3>1 DEF FindDir
  <2>7. CASE FindFile
    <3>1. /\ read.stage = "seek" /\ read'.stage = "open" /\ read'.at = read.at
          /\ read'.via = read.via /\ read'.answer = read.answer
          /\ read'.ro = entry[read.at]
          /\ read'.since = IF read.via = {} THEN entry[read.at].stamp ELSE read.since
      BY <2>7 DEF FindFile, Read
    <3>2. entry[read.at].stamp \in Nat /\ scan[read.at].time \in Nat /\ read.since \in Nat
      BY <2>3 DEF Stat, Scan, Read
    <3>3. entry[read.at].owner = read.at => entry[read.at].stamp = scan[read.at].time
      BY <2>3 DEF Truthful, OwnFilesAreScanned, Announced
    <3>4. ViaOK /\ read.answer = "none" /\ read.at \notin read.via
      BY <1>0, <3>1 DEF Chain
    <3>5. read'.ro.stamp >= read'.since
      <4>1. CASE read.via = {}
        BY <3>1, <3>2, <4>1
      <4>2. CASE read.via # {}
        <5>1. scan[read.at].files # {} /\ scan[read.at].time >= read.since
          BY <3>4, <4>2 DEF ViaOK
        <5>2. entry[read.at].owner = read.at \/ entry[read.at].stamp > scan[read.at].time
          BY <2>2, <2>3, <5>1 DEF OwnMerged
        <5> QED
          BY <3>1, <3>2, <3>3, <4>2, <5>1, <5>2
      <4> QED
        BY <4>1, <4>2
    <3>6. SnapshotOK'
      BY <2>1, <2>2, <2>3, <3>1, <3>5 DEF SnapshotOK, OwnerCurrent, OwnMerged
    <3>7. ViaOK'
      BY <2>1, <3>1, <3>4 DEF ViaOK
    <3> QED
      BY <3>1, <3>4, <3>6, <3>7 DEF Chain
  <2>8. CASE OpenLocal
    <3>1. SnapshotOK /\ read.ro.owner = read.at
      BY <1>0, <2>8 DEF OpenLocal, Chain
    <3>2. PICK a \in scan[read.at].files : a.stamp >= read.ro.stamp
      BY <2>3, <3>1 DEF SnapshotOK
    <3>3. a.stamp = scan[read.at].time /\ a.stamp \in Nat
      BY <2>3, <3>2, StampTypes DEF Truthful, Announced
    <3>4. End("contents") \/ End("refused")
      BY <2>8 DEF OpenLocal
    <3>5. read.ro.stamp \in Nat /\ read.since \in Nat
      BY DEF Read, Stat
    <3>6. scan[read.at].time >= read.since
      BY <3>1, <3>2, <3>3, <3>5 DEF SnapshotOK
    <3> QED
      BY <1>0, <2>1, <2>4, <3>4, <3>6, ChainEnd
  <2>9. CASE Forward
    <3> DEFINE k == read.ro.owner
    <3>1. /\ read.stage = "open" /\ k # read.at /\ read'.stage = "seek" /\ read'.at = k
          /\ read'.via = read.via \cup {read.at} /\ read'.since = read.since
          /\ read'.answer = read.answer
      BY <2>9 DEF Forward, Read
    <3>2. k \in Owner /\ SnapshotOK /\ ViaOK /\ read.answer = "none"
      BY <1>0, <2>3, <2>9, <3>1 DEF Forward, Chain, ReplicasTypeOK
    <3>3. PICK a \in scan[k].files : a.stamp >= read.ro.stamp
      BY <3>2 DEF SnapshotOK
    <3>4. /\ a.stamp = scan[k].time /\ scan[k].time \in Nat /\ scan[read.at].time \in Nat
          /\ read.ro.stamp \in Nat /\ read.since \in Nat
      BY <2>3, <3>2, <3>3, StampTypes DEF Truthful, Announced, Read, Stat
    <3>5. scan[k].files # {} /\ scan[k].time >= read.ro.stamp
      BY <3>3, <3>4
    <3>6. scan[read.at].files # {} => scan[read.at].time < scan[k].time
      BY <3>1, <3>2, <3>4, <3>5 DEF SnapshotOK
    <3>7. ASSUME NEW v \in read.via, scan[v].files # {}
          PROVE  scan[v].time < scan[k].time
      <4>1. scan[v].time < scan[read.at].time /\ scan[read.at].files # {}
        BY <3>2, <3>7 DEF ViaOK
      <4>2. scan[v].time \in Nat
        BY StampTypes DEF Read
      <4> QED
        BY <3>4, <3>6, <4>1, <4>2
    <3>8. scan[k].time >= read.since
      BY <3>2, <3>4, <3>5 DEF SnapshotOK
    <3>9. ViaOK'
      BY <2>1, <3>1, <3>5, <3>6, <3>7, <3>8 DEF ViaOK
    <3>10. k \notin read.via \cup {read.at}
      BY <3>1, <3>4, <3>5, <3>7
    <3> QED
      BY <3>1, <3>2, <3>9, <3>10 DEF Chain
  <2> QED
    BY <1>3, <2>4, <2>5, <2>6, <2>7, <2>8, <2>9
       DEF Handle, NotFound, TooMany, UnknownNode, Break
<1> QED
  BY <1>1, <1>2, <1>3 DEF Next

-----------------------------------------------------------------------------
\* Once every node has merged every scan, and the newest announcements are of
\* files, every entry names one of their owners, who names itself.

AllMerged ==
    \A n, m \in Owner :
        /\ n # m => m \in peers[n]
        /\ \A a \in scan[m].files : n \in created /\ entry[n].stamp >= a.stamp

AllAgree ==
    \A n \in Owner : /\ n \in created /\ ~entry[n].dir /\ entry[n].owner \in Newest
                     /\ n \in Newest => entry[n].owner = n
                     /\ entry[n].owner # n => entry[n].owner \in peers[n]

NewestAreFiles == Newest # {} /\ \A n \in Newest : disk[n] = "file"

\* What was heard last of every peer is what the peer has found in this life.
LEMMA SettledMerged ==
    ASSUME ReplicasTypeOK, Truthful, Current, Merged, changes = 0, Settled
    PROVE  AllMerged
<1>1. Kept /\ OwnMerged
  BY DEF Merged, Current, Lasting
<1>2. ASSUME NEW n \in Owner, NEW m \in Owner, NEW a \in scan[m].files
      PROVE  n \in created /\ entry[n].stamp >= a.stamp
  <2>1. CASE n # m
    BY <1>1, <1>2, <2>1 DEF Settled, Kept, HeardMerged
  <2>2. CASE n = m
    <3>1. /\ a.stamp = scan[n].time /\ scan[n].time \in Nat /\ entry[n].stamp \in Nat
      BY <1>2, <2>2, StampTypes DEF Truthful, Announced
    <3>2. entry[n].owner = n => entry[n].stamp = scan[n].time
      BY DEF Truthful, OwnFilesAreScanned, Announced
    <3>3. entry[n].owner = n \/ entry[n].stamp > scan[n].time
      BY <1>1, <1>2, <2>2 DEF OwnMerged
    <3> QED
      BY <1>1, <1>2, <2>2, <3>1, <3>2, <3>3 DEF Kept, OwnCreated
  <2> QED
    BY <2>1, <2>2
<1> QED
  BY <1>2 DEF AllMerged, Settled

LEMMA MergedAgree ==
    ASSUME ReplicasTypeOK, Truthful, Current, Merged, changes = 0, AllMerged, NewestAreFiles
    PROVE  AllAgree
<1> USE DEF ReplicasTypeOK
<1>1. Kept /\ OnDisk /\ OwnMerged
  BY DEF Merged, Kept, Current, Lasting
<1>2. \A n \in Owner : \A a \in scan[n].files :
          /\ a.stamp \in Nat /\ a.stamp > 0 /\ a.owner = n /\ a.stamp = scan[n].time
          /\ a.dir = (disk[n] = "dir")
  BY <1>1, StampTypes, ScanOnceFiles DEF OnDisk
<1>3. PICK k \in Owner : \E a \in scan[k].files :
          \A m \in Owner : \A b \in scan[m].files : a.stamp >= b.stamp
  BY DEF NewestAreFiles, Newest
<1>4. PICK a \in scan[k].files :
          \A m \in Owner : \A b \in scan[m].files : a.stamp >= b.stamp
  BY <1>3
<1>5. \A n \in Owner : n \in created /\ entry[n].stamp >= a.stamp /\ entry[n].stamp \in Nat
  BY StampTypes DEF AllMerged
<1>6. ASSUME NEW n \in Owner
      PROVE  ~entry[n].dir /\ entry[n].owner \in Newest /\ (n \in Newest => entry[n].owner = n)
  <2>1. entry[n].stamp # 0
    BY <1>2, <1>5
  <2>2. PICK m \in Owner : \E b \in scan[m].files :
            /\ entry[n].stamp <= b.stamp /\ entry[n].dir = b.dir
            /\ entry[n].owner = m \/ b.dir
    BY <1>1, <2>1 DEF Kept, EntryFrom
  <2>3. PICK b \in scan[m].files :
            /\ entry[n].stamp <= b.stamp /\ entry[n].dir = b.dir
            /\ entry[n].owner = m \/ b.dir
    BY <2>2
  <2>4. b.stamp \in Nat /\ a.stamp \in Nat /\ b.stamp >= a.stamp
    BY <1>2, <1>5, <2>3
  <2>5. m \in Newest
    <3>1. \A j \in Owner : \A c \in scan[j].files : b.stamp >= c.stamp
      BY <1>2, <1>4, <2>4
    <3> QED
      BY <3>1 DEF Newest
  <2>6. disk[m] = "file"
    BY <2>5 DEF NewestAreFiles
  <2>7. b.dir = FALSE
    BY <1>2, <2>6
  <2>8. entry[n].owner = m /\ ~entry[n].dir
    BY <2>3, <2>7
  <2>9. ASSUME n \in Newest, entry[n].owner # n PROVE FALSE
    <3>1. PICK c \in scan[n].files :
              \A j \in Owner : \A d \in scan[j].files : c.stamp >= d.stamp
      BY <2>9 DEF Newest
    <3>2. c.stamp = scan[n].time /\ c.stamp \in Nat /\ c.stamp >= b.stamp
      BY <1>2, <3>1
    <3>3. entry[n].stamp > scan[n].time
      BY <1>1, <2>9, <3>1 DEF OwnMerged
    <3>4. entry[n].stamp \in Nat /\ entry[n].stamp <= b.stamp
      BY <1>5, <2>3
    <3> QED
      BY <2>4, <3>2, <3>3, <3>4
  <2> QED
    BY <2>5, <2>8, <2>9
<1>7. Newest \subseteq Owner
  BY DEF Newest
<1>8. \A n \in Owner : entry[n].owner # n => entry[n].owner \in peers[n]
  BY <1>6, <1>7 DEF AllMerged
<1> QED
  BY <1>5, <1>6, <1>8 DEF AllAgree

\* Nothing undoes a merge but a restart or a new scan.
LEMMA StaysMerged ==
    ASSUME ReplicasTypeOK, AllMerged, Running
    PROVE  /\ AllMerged' /\ Newest' = Newest
           /\ \A n \in Owner : peers[n] \subseteq peers'[n]
<1> USE DEF ReplicasTypeOK
<1>1. scan' = scan /\ created \subseteq created'
  BY DEF Running, Meet, Push, Create, ReceiveUpdate, ChangeDisk
<1>2. Newest' = Newest
  BY <1>1 DEF Newest
<1>3. \A n \in Owner : peers[n] \subseteq peers'[n]
  BY DEF Running, Meet, Push, Create, ReceiveUpdate, ChangeDisk
<1>4. ReplicasTypeOK'
  BY ReplicasTypeStep DEF ReplicaStep
<1>5. \A n \in Owner : entry'[n].stamp >= entry[n].stamp
  <2>1. ASSUME NEW u \in mail, ReceiveUpdate(u), NEW n \in Owner
        PROVE  entry'[n].stamp >= entry[n].stamp
    <3>1. u.to \in Owner /\ u.files \in SUBSET Announcement /\ entry[u.to] \in Stat
      BY DEF Mail
    <3>2. entry'[n] = entry[n] \/ (n = u.to /\ entry'[n] = Updated(entry[u.to], u.files))
      BY <2>1, <3>1 DEF ReceiveUpdate
    <3>3. entry[n].stamp \in Nat /\ entry'[n].stamp \in Nat
      BY <1>4, StampTypes, StampTypesNext
    <3>4. entry'[n] = entry[n] \/ entry'[n].stamp > entry[n].stamp
      BY <3>1, <3>2, UpdatedEntry
    <3> QED
      BY <3>3, <3>4
  <2>2. ASSUME entry' = entry, NEW n \in Owner
        PROVE  entry'[n].stamp >= entry[n].stamp
    BY <2>2, StampTypes
  <2> QED
    BY <2>1, <2>2 DEF Running, Meet, Push, Create, ChangeDisk
<1>6. AllMerged'
  <2> SUFFICES ASSUME NEW n \in Owner, NEW m \in Owner
               PROVE  /\ n # m => m \in peers'[n]
                      /\ \A a \in scan'[m].files :
                            n \in created' /\ entry'[n].stamp >= a.stamp
    BY DEF AllMerged
  <2>1. \A a \in scan[m].files : n \in created /\ entry[n].stamp >= a.stamp /\ a.stamp \in Nat
    BY StampTypes DEF AllMerged
  <2>2. entry[n].stamp \in Nat /\ entry'[n].stamp \in Nat
    BY <1>4, StampTypes, StampTypesNext
  <2> HIDE DEF ReplicasTypeOK
  <2>3. \A a \in scan[m].files : entry'[n].stamp >= a.stamp
    BY <1>5, <2>1, <2>2
  <2> QED
    BY <1>1, <1>3, <2>1, <2>3 DEF AllMerged
<1> QED
  BY <1>2, <1>3, <1>6

\* A read asked for when everything is settled goes to an owner of the newest
\* file in at most one hop, while the disks stay as they are and no node restarts.
Undisturbed == read.settled /\ changes = 0 /\ read.answer # "broken"

Served ==
    Undisturbed =>
        /\ AllMerged
        /\ NewestAreFiles =>
             /\ read.stage = "none" => read.redirN = 0
             /\ read.stage = "seek" => read.redirN = 0 \/ read.at \in Newest
             /\ read.stage = "open" =>
                   /\ read.ro.owner \in Newest
                   /\ read.ro.owner # read.at =>
                         read.redirN = 0 /\ read.ro.owner \in peers[read.at]
             /\ read.stage = "done" => read.answer = "contents" /\ read.at \in Newest

Unasked ==
    /\ read.stage = "none" => ~read.settled /\ read.redirN = 0
    /\ read.stage # "done" => read.answer = "none"

LEMMA ServedInit ==
    ASSUME Init
    PROVE  Served /\ Unasked
<1>1. ~read.settled /\ read.redirN = 0 /\ read.answer = "none"
  BY DEF Init
<1> QED
  BY <1>1 DEF Served, Unasked, Undisturbed

LEMMA ServedStep ==
    ASSUME TypeOK, Truthful, Current, Merged, Served, Unasked, Next
    PROVE  Served' /\ Unasked'
<1> USE DEF TypeOK
<1>0. changes' = 0 => changes = 0 /\ disk' = disk
  BY StepOfReplicas, LastingBefore
<1>1. CASE Running /\ UNCHANGED read
  <2>1. Unasked'
    BY <1>1 DEF Unasked
  <2> SUFFICES ASSUME Undisturbed' PROVE Served'
    BY <2>1 DEF Served
  <2>2. Undisturbed /\ changes = 0 /\ disk' = disk
    BY <1>0, <1>1 DEF Undisturbed
  <2>3. /\ AllMerged' /\ Newest' = Newest
        /\ \A n \in Owner : peers[n] \subseteq peers'[n]
    BY <1>1, <2>2, StaysMerged DEF Served
  <2>4. NewestAreFiles' => NewestAreFiles
    BY <2>2, <2>3 DEF NewestAreFiles
  <2>5. read.at \in Owner
    BY DEF Read
  <2> QED
    BY <1>1, <2>2, <2>3, <2>4, <2>5 DEF Served
<1>2. ASSUME NEW n \in Owner, NEW t \in 1..MaxTime, Restart(n, t)
      PROVE  Served' /\ Unasked'
  <2>1. CASE End("broken") /\ Active
    <3>1. read'.stage = "done" /\ read'.answer = "broken"
      BY <2>1 DEF End, Read
    <3> QED
      BY <3>1 DEF Served, Unasked, Undisturbed
  <2>2. CASE read' = [read EXCEPT !.settled = FALSE]
    <3>1. /\ read'.stage = read.stage /\ read'.answer = read.answer
          /\ read'.redirN = read.redirN /\ ~read'.settled
      BY <2>2 DEF Read
    <3> QED
      BY <3>1 DEF Served, Unasked, Undisturbed
  <2> QED
    BY <1>2, <2>1, <2>2 DEF Restart
<1>3. CASE Ask \/ Handle \/ Break
  <2>1. UNCHANGED replicaVars
    BY <1>3 DEF Ask, Handle, Break, NotFound, FindDir, FindFile, OpenLocal, TooMany,
                UnknownNode, Forward
  <2>2. /\ AllMerged' = AllMerged /\ Newest' = Newest /\ NewestAreFiles' = NewestAreFiles
        /\ changes' = changes /\ peers' = peers
    BY <2>1 DEF replicaVars, AllMerged, Newest, NewestAreFiles
  <2>3. CASE Ask
    <3>1. /\ read.stage = "none" /\ read'.stage = "seek" /\ read'.settled = Settled
          /\ read'.redirN = read.redirN /\ read'.answer = read.answer
      BY <2>3 DEF Ask, Read
    <3>2. Undisturbed' => AllMerged
      BY <2>2, <3>1, SettledMerged DEF Undisturbed
    <3> QED
      BY <2>2, <3>1, <3>2 DEF Served, Unasked, Undisturbed
  <2>4. CASE Handle \/ Break
    <3>1. read.stage \in {"seek", "open"} /\ read'.stage # "none" /\ read'.settled = read.settled
          /\ read.answer = "none"
      BY <2>4 DEF Handle, Break, NotFound, FindDir, FindFile, OpenLocal, TooMany,
                  UnknownNode, Forward, End, Active, Read, Unasked
    <3>2. Unasked'
      <4>1. read'.stage = "done" \/ read'.answer = read.answer
        BY <2>4 DEF Handle, Break, NotFound, FindDir, FindFile, OpenLocal, TooMany,
                    UnknownNode, Forward, End, Read
      <4> QED
        BY <3>1, <4>1 DEF Unasked
    <3> SUFFICES ASSUME Undisturbed, NewestAreFiles, read'.answer # "broken"
                 PROVE  /\ read'.stage = "seek" => read'.redirN = 0 \/ read'.at \in Newest
                        /\ read'.stage = "open" =>
                              /\ read'.ro.owner \in Newest
                              /\ read'.ro.owner # read'.at =>
                                    read'.redirN = 0 /\ read'.ro.owner \in peers[read'.at]
                        /\ read'.stage = "done" =>
                              read'.answer = "contents" /\ read'.at \in Newest
      BY <2>2, <3>1, <3>2 DEF Served, Undisturbed
    <3>3. AllAgree
      BY MergedAgree DEF Served, Undisturbed
    <3>4. read.at \in Owner
      BY DEF Read
    <3>5. CASE NotFound \/ FindDir
      BY <3>3, <3>4, <3>5 DEF NotFound, FindDir, AllAgree
    <3>6. CASE FindFile
      <4>1. /\ read.stage = "seek" /\ read'.stage = "open" /\ read'.ro = entry[read.at]
            /\ read'.at = read.at /\ read'.redirN = read.redirN
        BY <3>6 DEF FindFile, Read
      <4> QED
        BY <3>3, <3>4, <4>1 DEF AllAgree, Served
    <3>7. CASE OpenLocal
      <4>1. read.stage = "open" /\ read.at \in Newest /\ disk[read.at] = "file"
        BY <3>7 DEF OpenLocal, Served, NewestAreFiles
      <4>2. read'.stage = "done" /\ read'.answer = "contents" /\ read'.at = read.at
        BY <3>7, <4>1 DEF OpenLocal, End, Read
      <4> QED
        BY <4>1, <4>2
    <3>8. CASE TooMany \/ UnknownNode
      BY <3>8 DEF TooMany, UnknownNode, Served, MaxRedirectDepth
    <3>9. CASE Forward
      <4>1. /\ read.ro.owner \in Newest
            /\ read'.stage = "seek" /\ read'.at = read.ro.owner
        BY <3>9 DEF Forward, Served, Read
      <4> QED
        BY <4>1
    <3>10. CASE Break
      <4>1. read'.answer = "broken"
        BY <3>10 DEF Break, End, Read
      <4> QED
        BY <4>1
    <3> QED
      BY <2>4, <3>5, <3>6, <3>7, <3>8, <3>9, <3>10 DEF Handle
  <2> QED
    BY <1>3, <2>3, <2>4
<1> QED
  BY <1>1, <1>2, <1>3 DEF Next

-----------------------------------------------------------------------------
\* The theorems.

IInv == TypeOK /\ Truthful /\ Merged /\ Current /\ Chain /\ Served /\ Unasked

LEMMA Inductive == Spec => []IInv
<1>1. Init => IInv
  BY TypeInit, TruthfulInit, MergedInit, CurrentInit, ChainInit, ServedInit DEF IInv
<1>2. IInv /\ [Next]_vars => IInv'
  <2> SUFFICES ASSUME IInv, [Next]_vars
               PROVE  IInv'
    OBVIOUS
  <2>1. CASE Next
    <3>1. ReplicaStep \/ UNCHANGED replicaVars
      BY <2>1, StepOfReplicas
    <3>2. TypeOK'
      BY <2>1, <3>1, ReplicasTypeStep, ReadTypeStep DEF IInv, TypeOK
    <3>3. Truthful' /\ Merged' /\ Current'
      BY <3>1, TruthfulStep, MergedStep, CurrentStep DEF IInv, TypeOK
    <3>4. Chain'
      BY <2>1, <3>2, ChainStep DEF IInv
    <3>5. Served' /\ Unasked'
      BY <2>1, ServedStep DEF IInv
    <3> QED
      BY <3>2, <3>3, <3>4, <3>5 DEF IInv
  <2>2. CASE UNCHANGED vars
    <3>1. UNCHANGED replicaVars /\ UNCHANGED read
      BY <2>2 DEF vars
    <3>2. Truthful' /\ Merged' /\ Current'
      BY <3>1, TruthfulStep, MergedStep, CurrentStep DEF IInv, TypeOK
    <3>3. TypeOK'
      BY <3>1, ReplicasTypeStep DEF IInv, TypeOK
    <3>4. Chain'
      BY <3>1 DEF IInv, Chain, Lasting, SnapshotOK, ViaOK, replicaVars
    <3>5. Served' /\ Unasked'
      BY <3>1 DEF IInv, Served, Unasked, Undisturbed, NewestAreFiles, Newest, AllMerged,
                  replicaVars
    <3> QED
      BY <3>2, <3>3, <3>4, <3>5 DEF IInv
  <2> QED
    BY <2>1, <2>2
<1> QED
  BY <1>1, <1>2, PTL DEF Spec

\* OwnersCanBeAsked: however often nodes restart and updates are delayed or
\* repeated, ReceiveUpdate lets nobody into the tree who is not in Peers, and a node
\* takes itself for the owner only of what its last scan found.
THEOREM OwnersAnswer == Spec => []OwnersCanBeAsked
<1>1. IInv => OwnersCanBeAsked
  BY DEF IInv, Truthful, OwnersAreMet, OwnFilesAreScanned, OwnersCanBeAsked
<1> QED
  BY <1>1, Inductive, PTL

\* NoRedirectLoop: in a cluster of any size, with any delays, and whatever the
\* limit, OpenRead does not pass a read back to a node it has come through, be
\* it that nodes restart any number of times or that the disks change.
THEOREM NoLoop == Spec => []NoRedirectLoop
<1>1. IInv => NoRedirectLoop
  BY DEF IInv, Chain, NoRedirectLoop
<1> QED
  BY <1>1, Inductive, PTL

\* NeverOlderCopy: the contents OpenRead returns are of a scan that is not older
\* than what the node that was asked had merged, also if nodes have restarted.
THEOREM NoOlderCopy == Spec => []NeverOlderCopy
<1>1. IInv => NeverOlderCopy
  BY DEF IInv, Chain, NeverOlderCopy
<1> QED
  BY <1>1, Inductive, PTL

\* ReadableOnceSettled: for any number of nodes and of restarts before, once every
\* node has merged every scan, a file is served by an owner of its newest copy
\* whoever is asked: not refused for want of an entry, an owner that is known, or
\* redirects, and no update of an earlier life changes that.
THEOREM SettledIsReadable == Spec => []ReadableOnceSettled
<1>1. IInv => ReadableOnceSettled
  BY DEF IInv, Served, Undisturbed, NewestAreFiles, ReadableOnceSettled
<1> QED
  BY <1>1, Inductive, PTL

-----------------------------------------------------------------------------
\* Proxy implements Exchange.

\* Scans have been made, so that LastFullUpdateReceived is set with the first update.
Timed == (\A n \in Owner : scan[n].time > 0) /\ \A u \in mail : u.time > 0

OnTheWay == {<<u.from, u.to>> : u \in mail}

Heard == [n \in Owner |-> {m \in Owner : heard[n][m] # 0}]

LEMMA InitExchange == Init => Timed /\ X!Init
<1> SUFFICES ASSUME Init PROVE Timed /\ X!Init
  OBVIOUS
<1>1. PICK t \in [Owner -> 1..MaxTime] : scan = [n \in Owner |-> ScanOnce(n, disk[n], t[n])]
  BY DEF Init, ReplicasInit
<1>2. \A n \in Owner : scan[n].time > 0
  <2> SUFFICES ASSUME NEW n \in Owner PROVE scan[n].time > 0
    OBVIOUS
  <2>1. t[n] \in Nat /\ t[n] > 0
    BY <1>1, ReplicasAssumption
  <2>2. scan[n] = ScanOnce(n, disk[n], t[n])
    BY <1>1
  <2> QED
    BY <2>1, <2>2 DEF ScanOnce
<1>3. mail = {} /\ peers = [n \in Owner |-> {}] /\ \A n, m \in Owner : heard[n][m] = 0
  BY DEF Init, ReplicasInit, Nobody
<1>4. OnTheWay = {} /\ Heard = [n \in Owner |-> {}]
  BY <1>3 DEF OnTheWay, Heard
<1> QED
  BY <1>2, <1>3, <1>4 DEF Timed, X!Init, OnTheWay, Heard

LEMMA StepExchange ==
    ASSUME ReplicasTypeOK, Timed, ReplicaStep \/ UNCHANGED replicaVars
    PROVE  Timed' /\ [X!Next]_(X!vars)
<1> USE DEF ReplicasTypeOK
<1> DEFINE Goal == Timed' /\ [X!Next]_(X!vars)
<1>1. ASSUME UNCHANGED <<scan, mail, peers, heard>> PROVE Goal
  BY <1>1 DEF Timed, X!vars
<1>2. ASSUME NEW n \in Owner, NEW m \in Owner, Meet(n, m) PROVE Goal
  <2>1. X!Meet(n, m)
    BY <1>2 DEF Meet, X!Meet
  <2> QED
    BY <1>2, <2>1 DEF Meet, Timed, X!Next
<1>3. ASSUME NEW n \in Owner, NEW m \in Owner, Push(n, m) PROVE Goal
  <2> DEFINE u == [from |-> n, to |-> m, files |-> scan[n].files, time |-> scan[n].time]
  <2>1. mail' = mail \cup {u} /\ u.from = n /\ u.to = m /\ u.time = scan[n].time
    BY <1>3 DEF Push
  <2> HIDE DEF u
  <2>2. OnTheWay' = OnTheWay \cup {<<n, m>>}
    BY <2>1 DEF OnTheWay
  <2>3. X!Push(n, m)
    BY <1>3, <2>2 DEF Push, X!Push, OnTheWay
  <2>4. Timed'
    BY <1>3, <2>1 DEF Push, Timed
  <2> QED
    BY <2>3, <2>4 DEF X!Next
<1>4. ASSUME NEW u \in mail, Create(u) PROVE Goal
  BY <1>1, <1>4 DEF Create
<1>5. ASSUME NEW u \in mail, ReceiveUpdate(u) PROVE Goal
  <2> DEFINE n == u.from
             m == u.to
  <2>1. n \in Owner /\ m \in Owner /\ u.time # 0 /\ <<n, m>> \in OnTheWay
    BY DEF Mail, Timed, OnTheWay
  <2>2. /\ UNCHANGED <<scan, mail, peers>> /\ n \in peers[m]
        /\ heard' = [heard EXCEPT ![m][n] = u.time]
    BY <1>5 DEF ReceiveUpdate
  <2> HIDE DEF n, m
  <2>3. \A k, l \in Owner : heard'[k][l] = IF k = m /\ l = n THEN u.time ELSE heard[k][l]
    BY <2>1, <2>2
  <2>4. \A k \in Owner : {l \in Owner : heard'[k][l] # 0} =
            IF k = m THEN {l \in Owner : heard[k][l] # 0} \cup {n}
                     ELSE {l \in Owner : heard[k][l] # 0}
    BY <2>1, <2>3
  <2>5. Heard' = [Heard EXCEPT ![m] = @ \cup {n}]
    BY <2>4 DEF Heard
  <2>6. OnTheWay' = OnTheWay
    BY <2>2 DEF OnTheWay
  <2>7. X!Receive(n, m)
    BY <2>1, <2>2, <2>5, <2>6 DEF X!Receive, OnTheWay, Heard
  <2>8. Timed'
    BY <2>2 DEF Timed
  <2> QED
    BY <2>1, <2>7, <2>8 DEF X!Next
<1>6. ASSUME NEW n \in Owner, NEW k \in Kind, ChangeDisk(n, k) PROVE Goal
  BY <1>1, <1>6 DEF ChangeDisk
<1>7. ASSUME NEW n \in Owner, NEW t \in 1..MaxTime, RestartReplica(n, t) PROVE Goal
  <2>1. /\ peers' = [peers EXCEPT ![n] = {}]
        /\ heard' = [heard EXCEPT ![n] = Nobody]
        /\ mail' = {u \in mail : u.to # n}
        /\ scan' = [scan EXCEPT ![n] = ScanOnce(n, disk[n], t)]
    BY <1>7 DEF RestartReplica
  <2>2. \A k \in Owner : scan'[k].time > 0
    BY <2>1, ReplicasAssumption DEF ScanOnce, Timed
  <2>3. Timed'
    BY <2>1, <2>2 DEF Timed
  <2>4. OnTheWay' = {e \in OnTheWay : e[2] # n}
    BY <2>1 DEF OnTheWay
  <2>5. \A k \in Owner : {l \in Owner : heard'[k][l] # 0} =
            IF k = n THEN {} ELSE {l \in Owner : heard[k][l] # 0}
    BY <2>1 DEF Nobody
  <2>6. Heard' = [Heard EXCEPT ![n] = {}]
    BY <2>5 DEF Heard
  <2>7. X!Restart(n)
    BY <2>1, <2>4, <2>6 DEF X!Restart, OnTheWay, Heard
  <2> QED
    BY <2>3, <2>7 DEF X!Next
<1>8. CASE UNCHANGED replicaVars
  BY <1>1, <1>8 DEF replicaVars
<1> QED
  BY <1>2, <1>3, <1>4, <1>5, <1>6, <1>7, <1>8 DEF ReplicaStep, Running

\* With any number of nodes, restarts and copies of updates, and reads beside them,
\* the replicas push and merge no more than Exchange allows, to which Cluster keeps,
\* too, with greetings and pushes in their single steps.
THEOREM ExchangeRefined == Spec => ImplementsExchange
<1>1. Init => TypeOK /\ Timed /\ X!Init
  BY TypeInit, InitExchange
<1>2. TypeOK /\ Timed /\ [Next]_vars => Timed' /\ [X!Next]_(X!vars)
  <2> SUFFICES ASSUME TypeOK, Timed, [Next]_vars
               PROVE  ReplicaStep \/ UNCHANGED replicaVars
    BY StepExchange DEF TypeOK
  <2>1. CASE UNCHANGED vars
    BY <2>1 DEF vars
  <2> QED
    BY <2>1, StepOfReplicas
<1> QED
  BY <1>1, <1>2, TypeCorrect, PTL DEF Spec, ImplementsExchange, X!Spec
=============================================================================
