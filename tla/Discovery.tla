----------------------------- MODULE Discovery -----------------------------
(***************************************************************************)
(* How zfs-pay finds the bay of each leaf vdev.  One discovery asks zpool  *)
(* (with one command, or with two whose outputs it pairs by position),     *)
(* then lsblk, symbolic links and udev for the identity of each disk, then *)
(* the enclosure backends in priority order for the slot that shows this   *)
(* identity.  Each source is read at an instant of its own while pools and *)
(* drives may change.  "status", "locate" and the automation start here.   *)
(*                                                                         *)
(* Kernel names belong to whole drives: a partition stands for its parent  *)
(* disk (blockIndex.physical).  Identities are compared normalised.        *)
(***************************************************************************)
EXTENDS Integers, Sequences

CONSTANTS
    Guid, Drive,
    DriveOf,     \* [Guid -> Drive]: a vdev stays on its drive; drives may be shared
    Node,        \* kernel names of whole disks, such as /dev/sda
    Place,       \* where a drive may sit
    Controller,  \* the places StorCLI lists
    Enclosure,   \* the places the kernel links to an SES slot
    Enabled,     \* the backends that are installed and enabled
    Label,       \* serial numbers and WWNs
    Printed,     \* [Drive -> SUBSET {"serial", "wwn"}]: what lsblk prints; udev knows all
    Shape,       \* classes of pool, role, state, error counters and depth
    Layout,      \* what "zpool status" may list: sequences of a guid and a shape
    Start,       \* the wirings at the start: node, place and path of each drive
    Identities,  \* which identities the drives may have
    None, Limit

Trouble == {"hotplug", "pool", "command", "backend"}
NoneOr(S) == S \cup {None}
(* A path is a link named by its drive (by-id), a link to a slot (by-path, *)
(* by-vdev), or a kernel name.                                             *)
Path == Drive \cup Place \cup Node
Backend == <<"storcli", "ses", "ledctl">>
Key == ({"storcli", "ses"} \X Place) \cup ({"ledctl"} \X Node)
Identity == [serial : NoneOr(Label), wwn : NoneOr(Label)]
Unknown == [serial |-> None, wwn |-> None]
Wiring == [node : [Node -> NoneOr(Drive)], place : [Drive -> NoneOr(Place)],
           name : [Guid -> Path]]

Injective(f) == \A x, y \in DOMAIN f : f[x] = f[y] /\ f[x] # None => x = y

ASSUME DriveAssumption ==
    /\ DriveOf \in [Guid -> Drive]
    /\ Printed \in [Drive -> SUBSET {"serial", "wwn"}]
    /\ Identities \subseteq [Drive -> Identity]
    /\ Drive \cap Node = {}
ASSUME PlaceAssumption ==
    /\ Place \cap (Drive \cup Node) = {}
    /\ Controller \subseteq Place /\ Enclosure \subseteq Place
ASSUME NoneAssumption == None \notin Guid \cup Drive \cup Node \cup Place \cup Label \cup Key
ASSUME LayoutAssumption == Layout \subseteq Seq([guid : Guid, shape : Shape])
(* A drive has one name and one place.  A by-id link is that of the vdev's *)
(* own drive; a kernel name or a slot is the one the drive had when ZFS    *)
(* opened it last, and may be free, or another drive's, by now.            *)
ASSUME StartAssumption ==
    /\ Start \subseteq Wiring
    /\ \A s \in Start :
          /\ Injective(s.node) /\ Injective(s.place)
          /\ \A g \in Guid : s.name[g] \in Drive => s.name[g] = DriveOf[g]
ASSUME LimitAssumption == Limit \in [Trouble -> Nat]

VARIABLES
    node,    \* [Node -> NoneOr(Drive)]: the block devices
    place,   \* [Drive -> NoneOr(Place)]: the drives in the enclosures
    name,    \* [Guid -> Path]: the path ZFS has for each vdev
    pool,    \* Layout: what zpool lists
    idOf,    \* [Drive -> Identity]
    pc,      \* the next step of the discovery
    snapG,   \* the output of the fallback's first command
    snapP,   \* the output of its second one
    leaves,  \* zfs.Leaf: a sequence of guid and path
    blk,     \* lsblk's snapshot of node
    cursor,  \* the next disk to resolve, or the next backend
    dev,     \* [DOMAIN leaves -> NoneOr(Node)]: ParentDevice
    ident,   \* [DOMAIN leaves -> Identity]
    bay,     \* [DOMAIN leaves -> NoneOr(Key)]
    been,    \* history: which drives have had each kernel name and place
    told,    \* history: the paths ZFS has had for each vdev
    budget   \* [Trouble -> Nat]: what Limit leaves

world  == <<node, place, name, pool>>
result == <<dev, ident, bay>>
vars   == <<world, idOf, pc, snapG, snapP, leaves, blk, cursor, result, been, told, budget>>

(* Which drive has each kernel name, and sits in each place.               *)
Present(nd, pl) == {<<n, nd[n]>> : n \in {m \in Node : nd[m] # None}}
                       \cup {<<pl[d], d>> : d \in {e \in Drive : pl[e] # None}}
Had(x, d) == <<x, d>> \in been

Init ==
    /\ \E s \in Start : node = s.node /\ place = s.place /\ name = s.name
    /\ pool \in Layout
    /\ idOf \in Identities
    /\ pc = "status"
    /\ snapG = <<>> /\ snapP = <<>> /\ leaves = <<>>
    /\ blk = [n \in Node |-> None]
    /\ cursor = 1
    /\ dev = <<>> /\ ident = <<>> /\ bay = <<>>
    /\ been = Present(node, place)
    /\ told = {<<g, name[g]>> : g \in Guid}
    /\ budget = Limit

Spend(k) == /\ budget[k] > 0
            /\ budget' = [budget EXCEPT ![k] = @ - 1]

-----------------------------------------------------------------------------
(* The machine: drives come and go, and the kernel reuses their names.     *)

Plugged(d) == \E n \in Node : node[n] = d

Remember == /\ been' = been \cup Present(node', place')
            /\ told' = told \cup {<<g, name'[g]>> : g \in Guid}

process == <<pc, snapG, snapP, leaves, blk, cursor, result>>

(* A drive dies in its place, or is pulled.                                *)
Unplug(n) ==
    /\ node[n] # None
    /\ Spend("hotplug")
    /\ place' \in {place, [place EXCEPT ![node[n]] = None]}
    /\ node' = [node EXCEPT ![n] = None]
    /\ UNCHANGED <<name, pool, idOf, process>>
    /\ Remember

(* The paths when ZFS has opened drive d at its new name and place.        *)
Reopened(d, n, p) ==
    [g \in Guid |-> IF DriveOf[g] # d THEN name[g]
                    ELSE IF name[g] \in Node THEN n
                    ELSE IF name[g] \in Place THEN p ELSE name[g]]

(* A drive comes (back) at a free kernel name; ZFS opens it, or does not.  *)
Plug(d, n, p) ==
    /\ ~Plugged(d) /\ node[n] = None
    /\ place[d] = p \/ (place[d] = None /\ \A e \in Drive : place[e] # p)
    /\ Spend("hotplug")
    /\ node' = [node EXCEPT ![n] = d]
    /\ place' = [place EXCEPT ![d] = p]
    /\ name' \in {name, Reopened(d, n, p)}
    /\ Remember
    /\ UNCHANGED <<pool, idOf, process>>

(* attach, detach, replace, offline, errors counted, import and export.    *)
ChangePool(layout) ==
    /\ layout # pool
    /\ Spend("pool")
    /\ pool' = layout
    /\ UNCHANGED <<node, place, name, idOf, process, been, told>>

-----------------------------------------------------------------------------
(* zfs.Provider.Discover.                                                  *)

Outside == UNCHANGED <<world, idOf, been, told>>
Goto(step) == pc' = step /\ cursor' = 1

(* ParseStatus: each leaf vdev, in the order zpool lists them, and its     *)
(* path; zpool may print none for an absent one.                           *)
Shown(i, hidden) == IF pool[i].guid \in hidden THEN None ELSE name[pool[i].guid]
Absent == {g \in Guid : ~Plugged(DriveOf[g])}

(* Every leaf starts without identity and bay.                             *)
Begin(list) ==
    /\ leaves' = list
    /\ dev' = [i \in DOMAIN list |-> None]
    /\ ident' = [i \in DOMAIN list |-> Unknown]
    /\ bay' = [i \in DOMAIN list |-> None]

(* zpool status -g -p -c upath: guids and paths in one output.             *)
ReadStatus ==
    /\ pc = "status"
    /\ \E hidden \in SUBSET Absent :
          Begin([i \in DOMAIN pool |-> [guid |-> pool[i].guid, path |-> Shown(i, hidden)]])
    /\ Goto("lsblk")
    /\ Outside /\ UNCHANGED <<snapG, snapP, blk, budget>>

(* The script is missing, the command fails or its output is malformed.    *)
StatusFails ==
    /\ pc = "status"
    /\ Spend("command")
    /\ Goto("guids")
    /\ Outside /\ UNCHANGED <<snapG, snapP, leaves, blk, result>>

(* zpool status -g -p.                                                     *)
ReadGuids ==
    /\ pc = "guids"
    /\ snapG' = pool
    /\ Goto("paths")
    /\ Outside /\ UNCHANGED <<snapP, leaves, blk, result, budget>>

(* Wrong on purpose: only the number of leaves is compared.                *)
AgreeInLength(g, p) == Len(g) = Len(p)
(* MergeSnapshots pairs by position what agrees in everything but names.   *)
Agree(g, p) == /\ Len(g) = Len(p)
               /\ \A i \in DOMAIN g : g[i].shape = p[i].shape

(* zpool status -P -p, and MergeSnapshots.                                 *)
ReadPaths ==
    /\ pc = "paths"
    /\ snapP' = pool
    /\ \/ /\ Agree(snapG, pool)
          /\ \E hidden \in SUBSET Absent :
                Begin([i \in DOMAIN pool |-> [guid |-> snapG[i].guid, path |-> Shown(i, hidden)]])
          /\ Goto("lsblk")
       \/ /\ ~Agree(snapG, pool)
          /\ Goto("failed")
          /\ UNCHANGED <<leaves, result>>
    /\ Outside /\ UNCHANGED <<snapG, blk, budget>>

FallbackFails ==
    /\ pc \in {"guids", "paths"}
    /\ Spend("command")
    /\ Goto("failed")
    /\ Outside /\ UNCHANGED <<snapG, snapP, leaves, blk, result>>

-----------------------------------------------------------------------------
(* BlockProvider.Resolve, called by Discoverer.Discover.                   *)

ReadBlocks ==
    /\ pc = "lsblk"
    /\ blk' = node
    /\ Goto("resolve")
    /\ Outside /\ UNCHANGED <<snapG, snapP, leaves, result, budget>>

(* Without lsblk no disk has an identity; the discovery goes on.           *)
BlocksFail ==
    /\ pc = "lsblk"
    /\ Spend("command")
    /\ Goto("map")
    /\ Outside /\ UNCHANGED <<snapG, snapP, leaves, blk, result>>

Working == cursor \in DOMAIN leaves

(* EvalSymlinks follows a link as it is now; a kernel name is its own.     *)
LinkedTo(path, n) == path # None /\ node[n] # None /\ path \in {node[n], place[node[n]]}
Target(path) == IF path \in Node THEN path
                ELSE IF \E n \in Node : LinkedTo(path, n)
                     THEN CHOOSE n \in Node : LinkedTo(path, n) ELSE None

LsblkOf(d) == [serial |-> IF "serial" \in Printed[d] THEN idOf[d].serial ELSE None,
               wwn    |-> IF "wwn" \in Printed[d] THEN idOf[d].wwn ELSE None]
Complete(id) == id.serial # None /\ id.wwn # None

Found(n) == n # None /\ blk[n] # None

(* Identities are kept by path: vdevs of one path have one identity, such  *)
(* as a spare that pools share.                                            *)
Entries == {i \in DOMAIN leaves : leaves[i].path = leaves[cursor].path}
Give(f, x) == [i \in DOMAIN leaves |-> IF i \in Entries THEN x ELSE f[i]]

(* One leaf is looked up in lsblk's output; what lsblk lacks is left to    *)
(* udev.                                                                   *)
Resolve ==
    /\ pc = "resolve" /\ Working
    /\ LET n == Target(leaves[cursor].path)
       IN \/ /\ Found(n)
             /\ dev' = Give(dev, n)
             /\ ident' = Give(ident, LsblkOf(blk[n]))
             /\ IF Complete(LsblkOf(blk[n]))
                THEN pc' = pc /\ cursor' = cursor + 1
                ELSE pc' = "udev" /\ cursor' = cursor
          \/ /\ ~Found(n)
             /\ pc' = pc /\ cursor' = cursor + 1
             /\ UNCHANGED <<dev, ident>>
    /\ Outside /\ UNCHANGED <<snapG, snapP, leaves, blk, bay, budget>>

Fill(id, more) == [serial |-> IF id.serial # None THEN id.serial ELSE more.serial,
                   wwn    |-> IF id.wwn # None THEN id.wwn ELSE more.wwn]

(* udevadm knows the drive that has the kernel name now.                   *)
Udev ==
    /\ pc = "udev"
    /\ LET d == node[dev[cursor]]
       IN ident' = IF d = None THEN ident
                   ELSE Give(ident, Fill(ident[cursor], idOf[d]))
    /\ pc' = "resolve" /\ cursor' = cursor + 1
    /\ Outside /\ UNCHANGED <<snapG, snapP, leaves, blk, dev, bay, budget>>

UdevFails ==
    /\ pc = "udev"
    /\ Spend("command")
    /\ pc' = "resolve" /\ cursor' = cursor + 1
    /\ Outside /\ UNCHANGED <<snapG, snapP, leaves, blk, result>>

Resolved ==
    /\ pc = "resolve" /\ ~Working
    /\ Goto("map")
    /\ Outside /\ UNCHANGED <<snapG, snapP, leaves, blk, result, budget>>

-----------------------------------------------------------------------------
(* enclosure.Service.Map.  A slot shows the identity of a drive: StorCLI   *)
(* reads it from the drive, the other two backends give each disk of the   *)
(* inventory its own back, at the place its kernel name leads to now.      *)

Slot(key, id, of) == [key |-> key, serial |-> id.serial, wwn |-> id.wwn, of |-> of]

(* Wrong on purpose: drives that sit in none of its slots are listed too.  *)
StorcliDrives == Drive
InController == {d \in Drive : place[d] \in Controller}
StorcliSlots == {Slot(<<"storcli", place[d]>>, idOf[d], d) : d \in InController}
SesSlots == {Slot(<<"ses", place[node[dev[i]]]>>, ident[i], i) :
                i \in {j \in DOMAIN leaves : /\ dev[j] # None /\ node[dev[j]] # None
                                             /\ place[node[dev[j]]] \in Enclosure}}
LedctlSlots == {Slot(<<"ledctl", dev[i]>>, ident[i], i) : i \in {j \in DOMAIN leaves : dev[j] # None}}
Slots(b) == CASE b = "storcli" -> StorcliSlots [] b = "ses" -> SesSlots [] b = "ledctl" -> LedctlSlots

Sole(S) == \E s \in S : S = {s}

(* Wrong on purpose: a missing serial number matches a missing one.        *)
MatchesUnknown(id, S) == {s \in S : s.serial = id.serial}
(* matchSlots: by serial number, several by WWN; without one, by WWN.      *)
Matches(id, S) ==
    LET same == {s \in S : s.serial = id.serial}
        wwns == {s \in S : s.wwn = id.wwn}
    IN IF id.serial # None
       THEN IF ~Sole(same) /\ id.wwn # None /\ same \cap wwns # {} THEN same \cap wwns ELSE same
       ELSE IF id.wwn # None THEN wwns ELSE {}

(* Wrong on purpose: a later backend overrides an earlier one.             *)
AssignLast(i, S) == IF Sole(Matches(ident[i], S))
                    THEN (CHOOSE s \in Matches(ident[i], S) : TRUE).key ELSE bay[i]
(* A disk that has no bay yet gets that of the only slot that matches.     *)
Assign(i, S) == IF bay[i] = None /\ Sole(Matches(ident[i], S))
                THEN (CHOOSE s \in Matches(ident[i], S) : TRUE).key ELSE bay[i]

Advance == IF cursor < Len(Backend) THEN pc' = pc /\ cursor' = cursor + 1
           ELSE Goto("done")

MapBackend ==
    /\ pc = "map" /\ Backend[cursor] \in Enabled
    /\ bay' = [i \in DOMAIN leaves |-> Assign(i, Slots(Backend[cursor]))]
    /\ Advance
    /\ Outside /\ UNCHANGED <<snapG, snapP, leaves, blk, dev, ident, budget>>

(* List fails: the tool is missing, disabled, or does not answer.          *)
BackendFails ==
    /\ pc = "map"
    /\ IF Backend[cursor] \in Enabled THEN Spend("backend") ELSE UNCHANGED budget
    /\ Advance
    /\ Outside /\ UNCHANGED <<snapG, snapP, leaves, blk, result>>

-----------------------------------------------------------------------------
Step == \/ ReadStatus \/ ReadGuids \/ ReadPaths
        \/ ReadBlocks \/ Resolve \/ Udev \/ Resolved
        \/ MapBackend
Fault == StatusFails \/ FallbackFails \/ BlocksFail \/ UdevFails \/ BackendFails
World == \/ \E n \in Node : Unplug(n)
         \/ \E d \in Drive, n \in Node, p \in Place : Plug(d, n, p)
         \/ \E layout \in Layout : ChangePool(layout)

Next == Step \/ Fault \/ World
Spec == Init /\ [][Next]_vars

-----------------------------------------------------------------------------
TypeOK ==
    /\ node \in [Node -> NoneOr(Drive)]
    /\ place \in [Drive -> NoneOr(Place)]
    /\ name \in [Guid -> Path]
    /\ pool \in Layout
    /\ idOf \in [Drive -> Identity]
    /\ pc \in {"status", "guids", "paths", "lsblk", "resolve", "udev", "map", "done", "failed"}
    /\ snapG \in Layout \cup {<<>>}
    /\ snapP \in Layout \cup {<<>>}
    /\ leaves \in Seq([guid : Guid, path : NoneOr(Path)])
    /\ blk \in [Node -> NoneOr(Drive)]
    /\ cursor \in Nat \ {0}
    /\ dev \in [DOMAIN leaves -> NoneOr(Node)]
    /\ ident \in [DOMAIN leaves -> Identity]
    /\ bay \in [DOMAIN leaves -> NoneOr(Key)]
    /\ been \subseteq (Node \cup Place) \X Drive
    /\ told \subseteq Guid \X Path
    /\ budget \in [Trouble -> Nat]

(* The four ways in which a discovery may take one drive for another.      *)
(* A kernel name has named two drives since the discovery began.           *)
Renamed == \E n \in Node, d, e \in Drive : Had(n, d) /\ Had(n, e) /\ d # e
(* Two fallback outputs agree in everything but the vdevs they list.       *)
Shapes(list) == [i \in DOMAIN list |-> list[i].shape]
Disguised == snapP # snapG /\ Shapes(snapP) = Shapes(snapG)
(* A path of vdev g is the kernel name, or the slot, of another drive.     *)
Astray(g) == \E x \in told : x[1] = g /\ \E d \in Drive \ {DriveOf[g]} : Had(x[2], d)
(* Another drive has the serial number, or the WWN, of this one.           *)
Unshared(d) == \A e \in Drive \ {d} :
                  /\ idOf[d].serial # None => idOf[e].serial # idOf[d].serial
                  /\ idOf[d].wwn # None => idOf[e].wwn # idOf[d].wwn

(* A bay is reported for a vdev only if the vdev's own drive was in that   *)
(* bay at some instant of the discovery, whatever fails, whatever drives   *)
(* come and go between the commands, whatever changes in the pools, and    *)
(* wherever the paths of other vdevs lead, unless one of the four above    *)
(* happens (Service.Map on what Discoverer.Discover joined, which names    *)
(* the bay of every LED command the program makes).                        *)
Confused(g) == Astray(g) \/ ~Unshared(DriveOf[g])
OwnBay ==
    ~Renamed /\ ~Disguised =>
       \A i \in DOMAIN bay :
          bay[i] # None /\ ~Confused(leaves[i].guid)
             => Had(bay[i][2], DriveOf[leaves[i].guid])

(* Two vdevs are reported in one bay only if they are on one drive, with   *)
(* the same exceptions (enclosure.go:52, one match or no bay).             *)
UniqueBay ==
    ~Renamed /\ ~Disguised =>
       \A i, j \in DOMAIN bay :
          /\ bay[i] # None /\ bay[i] = bay[j]
          /\ ~Confused(leaves[i].guid) /\ ~Confused(leaves[j].guid)
          => DriveOf[leaves[i].guid] = DriveOf[leaves[j].guid]

(* When nothing fails or changes, a vdev whose path leads to a drive gets  *)
(* the bay of the first backend that can see this drive, unless another    *)
(* path leads there or another drive has its numbers; one whose path leads *)
(* nowhere gets none.  For an absent vdev zpool may print no path.         *)
(* (enclosure.go:36, priority order.)                                      *)
Reached(path) == IF Target(path) # None THEN node[Target(path)] ELSE None
NodeOf(d) == CHOOSE n \in Node : node[n] = d
HomeBefore(c, d) ==
    IF d = None \/ idOf[d] = Unknown THEN None
    ELSE IF c > 1 /\ "storcli" \in Enabled /\ place[d] \in Controller THEN <<"storcli", place[d]>>
    ELSE IF c > 2 /\ "ses" \in Enabled /\ place[d] \in Enclosure THEN <<"ses", place[d]>>
    ELSE IF c > 3 /\ "ledctl" \in Enabled THEN <<"ledctl", NodeOf(d)>>
    ELSE None
FirstHome(d) == HomeBefore(Len(Backend) + 1, d)
Alone(i) == \A j \in DOMAIN leaves : Reached(leaves[j].path) = Reached(leaves[i].path) => i = j
Clear(i) == Reached(leaves[i].path) # None => Alone(i) /\ Unshared(Reached(leaves[i].path))
Calm == budget = Limit
CalmDiscoveryIsExact ==
    pc = "done" /\ Calm =>
       \A i \in DOMAIN leaves : Clear(i) =>
          \/ bay[i] = FirstHome(Reached(name[leaves[i].guid]))
          \/ bay[i] = None /\ leaves[i].guid \in Absent


(* internal/zfs/status.go:268: a topology change between the two commands  *)
(* of the fallback is rejected rather than guessed.                        *)
ChangeIsRejected ==
    pc \notin {"status", "guids", "paths", "failed"} /\ snapP # <<>> =>
       \A i \in DOMAIN leaves : snapP[i].guid = leaves[i].guid

-----------------------------------------------------------------------------
(* Why OwnBay, UniqueBay and CalmDiscoveryIsExact hold.                    *)

History == /\ Present(node, place) \subseteq been
           /\ \A n \in Node : blk[n] # None => Had(n, blk[n])
           /\ Injective(node) /\ Injective(place)
           /\ \A g \in Guid : <<g, name[g]>> \in told
           /\ \A x \in told : x[2] \in Drive => x[2] = DriveOf[x[1]]

(* Where the cursor is, and that nothing is known before zpool answered.   *)
Cursor == /\ pc \in {"status", "guids", "paths"} => leaves = <<>>
          /\ pc = "udev" => /\ cursor \in DOMAIN leaves /\ dev[cursor] # None
                            /\ \A i \in Entries : dev[i] = dev[cursor]
          /\ pc = "map" => cursor \in DOMAIN Backend

(* The path of a disk is one of its vdev; what is known of the disk is of  *)
(* one drive, to which this path leads, or led.                            *)
Of(id, d) == id.serial \in {None, idOf[d].serial} /\ id.wwn \in {None, idOf[d].wwn}
IsDrive(i, d) == /\ leaves[i].path = d \/ Had(leaves[i].path, d)
                 /\ Had(dev[i], d)
                 /\ Of(ident[i], d)
Grounded ==
    /\ ~Disguised => \A i \in DOMAIN leaves :
          leaves[i].path # None => <<leaves[i].guid, leaves[i].path>> \in told
    /\ ~Renamed => \A i \in DOMAIN leaves :
          IF dev[i] = None THEN ident[i] = Unknown ELSE \E d \in Drive : IsDrive(i, d)

(* A backend that has not been asked yet has given no bay.                 *)
AskedOnce ==
    \A i \in DOMAIN bay : bay[i] # None =>
       /\ pc \in {"map", "done"}
       /\ pc = "map" => \E b \in 1 .. cursor - 1 : bay[i][1] = Backend[b]

(* Each trouble is paid for, so a calm discovery has had none.             *)
Spent == \A k \in Trouble : budget[k] <= Limit[k]

(* What a calm discovery knows of a disk before it, and after it, is known.*)
Blank(i) == dev[i] = None /\ ident[i] = Unknown
Learned(i) == LET path == leaves[i].path
              IN IF Reached(path) = None THEN Blank(i)
                 ELSE dev[i] = Target(path) /\ ident[i] = idOf[Reached(path)]
LearnedSoFar(i) == Learned(i) \/ (i >= cursor /\ Blank(i))

(* What a calm discovery has found at each step: the paths are those ZFS   *)
(* has; the disks before the cursor are known; the backends before it have *)
(* given the bays.                                                         *)
PathsNamed ==
    \A i \in DOMAIN leaves : \/ leaves[i].path = name[leaves[i].guid]
                             \/ leaves[i].path = None /\ leaves[i].guid \in Absent
DisksLearned ==
    /\ pc \in {"resolve", "udev"} => blk = node
    /\ pc = "lsblk" => cursor = 1
    /\ pc \in {"lsblk", "resolve"} => \A i \in DOMAIN leaves : LearnedSoFar(i)
    /\ pc = "udev" =>
          LET path == leaves[cursor].path
          IN /\ Reached(path) # None /\ ident[cursor] = LsblkOf(Reached(path))
             /\ \A i \in Entries : dev[i] = Target(path)
             /\ \A i \in DOMAIN leaves \ Entries : LearnedSoFar(i)
    /\ pc \in {"map", "done"} => \A i \in DOMAIN leaves : Learned(i)
BaysGiven ==
    pc \in {"map", "done"} =>
       \A i \in DOMAIN leaves : Clear(i) =>
          LET d == Reached(leaves[i].path)
          IN bay[i] = IF pc = "map" THEN HomeBefore(cursor, d) ELSE FirstHome(d)
CalmProgress ==
    Calm => pc \notin {"guids", "paths", "failed"} /\ PathsNamed /\ DisksLearned /\ BaysGiven

IInv == /\ TypeOK /\ History /\ Cursor /\ Grounded /\ AskedOnce /\ OwnBay /\ UniqueBay
        /\ Spent /\ CalmProgress
=============================================================================
