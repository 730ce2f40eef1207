-------------------------- MODULE DiscoveryProofs --------------------------
(* Proofs about Discovery, for any drives, pools, places and identities.   *)
EXTENDS Discovery, TLAPS

LEMMA SpendType ==
    ASSUME budget \in [Trouble -> Nat], NEW k \in Trouble, Spend(k)
    PROVE  budget' \in [Trouble -> Nat]
BY DEF Spend

(* What zpool lists is a layout: its elements are known vdevs.             *)
LEMMA LayoutElements ==
    ASSUME NEW list \in Layout \cup {<<>>}
    PROVE  /\ Len(list) \in Nat /\ DOMAIN list = 1 .. Len(list)
           /\ \A i \in DOMAIN list : list[i].guid \in Guid
<1> DEFINE Entry == [guid : Guid, shape : Shape]
<1>0. Layout \subseteq Seq(Entry)
  BY LayoutAssumption
<1> HIDE DEF Entry
<1>1. list \in Seq(Entry)
  <2>1. CASE list \in Layout
    BY <1>0, <2>1
  <2>2. CASE list = <<>>
    BY <2>2
  <2>3. QED
    BY <2>1, <2>2
<1>2. Len(list) \in Nat /\ DOMAIN list = 1 .. Len(list)
  BY <1>1
<1>3. \A i \in DOMAIN list : list[i] \in Entry
  BY <1>1
<1>4. QED
  BY <1>2, <1>3 DEF Entry

LEMMA LeavesType ==
    ASSUME NEW n \in Nat, NEW f \in [1 .. n -> [guid : Guid, path : NoneOr(Path)]]
    PROVE  f \in Seq([guid : Guid, path : NoneOr(Path)])
<1> DEFINE Entry == [guid : Guid, path : NoneOr(Path)]
<1>1. f \in [1 .. n -> Entry]
  OBVIOUS
<1> HIDE DEF Entry
<1>2. f \in Seq(Entry)
  BY <1>1
<1>3. QED
  BY <1>2 DEF Entry

(* An index of leaves is an index of every list of results.                *)
LEMMA Indices ==
    ASSUME TypeOK
    PROVE  /\ DOMAIN leaves \subseteq Nat
           /\ DOMAIN dev = DOMAIN leaves /\ DOMAIN ident = DOMAIN leaves
           /\ DOMAIN bay = DOMAIN leaves
           /\ \A i \in DOMAIN leaves :
                 /\ leaves[i].guid \in Guid /\ leaves[i].path \in NoneOr(Path)
                 /\ DriveOf[leaves[i].guid] \in Drive
<1> DEFINE Entry == [guid : Guid, path : NoneOr(Path)]
<1>1. leaves \in Seq(Entry)
  BY DEF TypeOK
<1> HIDE DEF Entry
<1>2. DOMAIN leaves \subseteq Nat /\ \A i \in DOMAIN leaves : leaves[i] \in Entry
  BY <1>1
<1>3. DOMAIN dev = DOMAIN leaves /\ DOMAIN ident = DOMAIN leaves /\ DOMAIN bay = DOMAIN leaves
  BY DEF TypeOK
<1>4. QED
  BY <1>2, <1>3, DriveAssumption DEF Entry

-----------------------------------------------------------------------------
(* A slot that a backend lists has a key of this backend.                  *)
LEMMA SlotKeys ==
    ASSUME TypeOK, NEW b \in {"storcli", "ses", "ledctl"}, NEW s \in Slots(b)
    PROVE  s.key \in Key /\ s.key[1] = b
<1> USE PlaceAssumption, NoneAssumption, Indices DEF TypeOK, Slots, Slot, Key, NoneOr
<1>1. CASE b = "storcli"
  BY <1>1 DEF StorcliSlots, InController
<1>2. CASE b = "ses"
  BY <1>2 DEF SesSlots
<1>3. CASE b = "ledctl"
  BY <1>3 DEF LedctlSlots
<1>4. QED
  BY <1>1, <1>2, <1>3

LEMMA MatchIsSlot ==
    ASSUME NEW id, NEW S PROVE Matches(id, S) \subseteq S
BY DEF Matches

(* The bay given to a disk is the one it had, or that of the only match.   *)
LEMMA Assigned ==
    ASSUME NEW i, NEW S
    PROVE  \/ Assign(i, S) = bay[i]
           \/ bay[i] = None /\ \E s \in Matches(ident[i], S) : Assign(i, S) = s.key
<1>1. CASE bay[i] = None /\ Sole(Matches(ident[i], S))
  <2>1. PICK s \in Matches(ident[i], S) : Matches(ident[i], S) = {s}
    BY <1>1 DEF Sole
  <2>2. (CHOOSE t \in Matches(ident[i], S) : TRUE) \in Matches(ident[i], S)
    BY <2>1
  <2>3. QED
    BY <1>1, <2>2 DEF Assign
<1>2. CASE ~(bay[i] = None /\ Sole(Matches(ident[i], S)))
  BY <1>2 DEF Assign
<1>3. QED
  BY <1>1, <1>2
-----------------------------------------------------------------------------
(* A drive's present kernel name, and its present place, are ones it has   *)
(* had.                                                                    *)
LEMMA PresentIsPast ==
    ASSUME TypeOK, History
    PROVE  /\ \A n \in Node : node[n] # None => Had(n, node[n])
           /\ \A d \in Drive : place[d] # None => Had(place[d], d)
<1>1. ASSUME NEW n \in Node, node[n] # None PROVE Had(n, node[n])
  <2>1. <<n, node[n]>> \in Present(node, place)
    BY <1>1 DEF Present
  <2>2. QED
    BY <2>1 DEF History, Had
<1>2. ASSUME NEW d \in Drive, place[d] # None PROVE Had(place[d], d)
  <2>1. <<place[d], d>> \in Present(node, place)
    BY <1>2 DEF Present
  <2>2. QED
    BY <2>1 DEF History, Had
<1>3. QED
  BY <1>1, <1>2

(* While no kernel name names two drives, it names the one it named.       *)
LEMMA OneDrivePerName ==
    ASSUME ~Renamed, NEW n \in Node, NEW d \in Drive, NEW e \in Drive, Had(n, d), Had(n, e)
    PROVE  d = e
BY DEF Renamed

(* What was found for a vdev that is not confused is its own drive.        *)
LEMMA FoundIsOwn ==
    ASSUME TypeOK, History, Grounded, ~Renamed, ~Disguised,
           NEW i \in DOMAIN leaves, ~Confused(leaves[i].guid), dev[i] # None
    PROVE  IsDrive(i, DriveOf[leaves[i].guid])
<1>1. PICK d \in Drive : IsDrive(i, d)
  BY DEF Grounded
<1>2. leaves[i].guid \in Guid /\ leaves[i].path \in NoneOr(Path) /\ d # None
  BY Indices, NoneAssumption
<1>3. leaves[i].path # None
  BY <1>1, <1>2, NoneAssumption DEF IsDrive, Had, TypeOK
<1>4. <<leaves[i].guid, leaves[i].path>> \in told
  BY <1>3 DEF Grounded
<1>5. CASE leaves[i].path = d
  BY <1>1, <1>4, <1>5 DEF History
<1>6. CASE Had(leaves[i].path, d)
  <2>1. ~Astray(leaves[i].guid)
    BY DEF Confused
  <2>2. d = DriveOf[leaves[i].guid]
    BY <1>4, <1>6, <2>1 DEF Astray
  <2>3. QED
    BY <1>1, <2>2
<1>7. QED
  BY <1>1, <1>5, <1>6 DEF IsDrive

(* Two identities have a number in common.                                 *)
Common(x, y) == \/ x.serial # None /\ y.serial = x.serial
                \/ x.wwn # None /\ y.wwn = x.wwn

(* The drive that has a number of a disk that is not confused is the       *)
(* vdev's own.                                                             *)
LEMMA SameIdentity ==
    ASSUME TypeOK, History, Grounded, ~Renamed, ~Disguised,
           NEW i \in DOMAIN leaves, ~Confused(leaves[i].guid),
           NEW e \in Drive, Common(ident[i], idOf[e])
    PROVE  e = DriveOf[leaves[i].guid]
<1> DEFINE d == DriveOf[leaves[i].guid]
<1>1. d \in Drive
  BY Indices
<1>2. dev[i] # None
  BY DEF Grounded, Common, Unknown
<1>3. Of(ident[i], d)
  BY <1>2, FoundIsOwn DEF IsDrive
<1> HIDE DEF d
<1>4. Unshared(d)
  BY DEF d, Confused
<1>5. e = d
  BY <1>1, <1>3, <1>4 DEF Unshared, Of, Common
<1>6. QED
  BY <1>5 DEF d

(* What a match has in common with the disk it matches.                    *)
LEMMA MatchAgrees ==
    ASSUME NEW id, NEW S, NEW s \in Matches(id, S)
    PROVE  Common(id, s)
BY DEF Matches, Common

(* The bay key of b that drive d has now or, for ledctl, has had.          *)
Holds(d, key) == \/ key[1] = "ledctl" /\ key[2] \in Node /\ Had(key[2], d)
                 \/ key[1] # "ledctl" /\ key[2] \in Place /\ place[d] = key[2]

(* A slot that matches a disk is a bay of the disk's own drive, wherever   *)
(* the disk that shows this slot was found.                                *)
LEMMA SlotIsOwn ==
    ASSUME TypeOK, History, Grounded, ~Renamed, ~Disguised,
           NEW i \in DOMAIN leaves, ~Confused(leaves[i].guid),
           NEW b \in {"storcli", "ses", "ledctl"}, NEW s \in Matches(ident[i], Slots(b))
    PROVE  /\ Had(s.key[2], DriveOf[leaves[i].guid])
           /\ Holds(DriveOf[leaves[i].guid], s.key)
<1> DEFINE d == DriveOf[leaves[i].guid]
<1> USE DEF NoneOr
<1>1. d \in Drive
  BY Indices
<1>2. s \in Slots(b) /\ Common(ident[i], s)
  BY MatchIsSlot, MatchAgrees
<1>3. ASSUME NEW j \in DOMAIN leaves, s.serial = ident[j].serial, s.wwn = ident[j].wwn
      PROVE  dev[j] \in Node /\ Had(dev[j], d)
  <2>1. dev[j] # None
    BY <1>2, <1>3 DEF Grounded, Common, Unknown
  <2>2. PICK e \in Drive : IsDrive(j, e)
    BY <2>1 DEF Grounded
  <2>3. Common(ident[i], idOf[e])
    BY <1>2, <1>3, <2>2 DEF Common, IsDrive, Of
  <2>4. e = d
    BY <2>3, SameIdentity
  <2>5. QED
    BY <1>3, <2>1, <2>2, <2>4 DEF IsDrive, TypeOK
<1>4. CASE b = "storcli"
  <2>1. PICK e \in InController : s = Slot(<<"storcli", place[e]>>, idOf[e], e)
    BY <1>2, <1>4 DEF Slots, StorcliSlots
  <2>2. e \in Drive /\ place[e] \in Controller
    BY DEF InController
  <2>3. s.serial = idOf[e].serial /\ s.wwn = idOf[e].wwn /\ s.key = <<"storcli", place[e]>>
    BY <2>1 DEF Slot
  <2>4. e = d
    BY <1>2, <2>2, <2>3, SameIdentity DEF Common
  <2>5. place[d] \in Place /\ place[d] # None
    BY <2>2, <2>4, PlaceAssumption, NoneAssumption
  <2>6. QED
    BY <1>1, <2>3, <2>4, <2>5, PresentIsPast DEF Holds
<1>5. CASE b = "ses"
  <2>1. PICK j \in DOMAIN leaves :
           /\ dev[j] # None /\ node[dev[j]] # None /\ place[node[dev[j]]] \in Enclosure
           /\ s = Slot(<<"ses", place[node[dev[j]]]>>, ident[j], j)
    BY <1>2, <1>5 DEF Slots, SesSlots
  <2>2. s.serial = ident[j].serial /\ s.wwn = ident[j].wwn /\ s.key = <<"ses", place[node[dev[j]]]>>
    BY <2>1 DEF Slot
  <2>3. dev[j] \in Node /\ Had(dev[j], d)
    BY <1>3, <2>2
  <2>4. node[dev[j]] \in Drive /\ Had(dev[j], node[dev[j]])
    BY <2>1, <2>3, PresentIsPast DEF TypeOK
  <2>5. node[dev[j]] = d
    BY <1>1, <2>3, <2>4, OneDrivePerName
  <2>6. place[d] \in Place /\ place[d] # None
    BY <2>1, <2>5, PlaceAssumption, NoneAssumption
  <2>7. QED
    BY <1>1, <2>2, <2>5, <2>6, PresentIsPast DEF Holds
<1>6. CASE b = "ledctl"
  <2>1. PICK j \in DOMAIN leaves : dev[j] # None /\ s = Slot(<<"ledctl", dev[j]>>, ident[j], j)
    BY <1>2, <1>6 DEF Slots, LedctlSlots
  <2>2. s.serial = ident[j].serial /\ s.wwn = ident[j].wwn /\ s.key = <<"ledctl", dev[j]>>
    BY <2>1 DEF Slot
  <2>3. dev[j] \in Node /\ Had(dev[j], d)
    BY <1>3, <2>2
  <2>4. QED
    BY <2>2, <2>3 DEF Holds
<1>7. QED
  BY <1>4, <1>5, <1>6

(* Two drives do not hold one key.                                         *)
LEMMA OneHolder ==
    ASSUME TypeOK, History, ~Renamed, NEW d \in Drive, NEW e \in Drive, NEW key,
           Holds(d, key), Holds(e, key)
    PROVE  d = e
BY NoneAssumption, OneDrivePerName DEF Holds, History, Injective, TypeOK

-----------------------------------------------------------------------------
(* TypeOK is kept.                                                         *)
LEMMA BeginType ==
    ASSUME NEW list, list \in Seq([guid : Guid, path : NoneOr(Path)]), Begin(list)
    PROVE  /\ leaves' \in Seq([guid : Guid, path : NoneOr(Path)])
           /\ dev' \in [DOMAIN leaves' -> NoneOr(Node)]
           /\ ident' \in [DOMAIN leaves' -> Identity]
           /\ bay' \in [DOMAIN leaves' -> NoneOr(Key)]
<1> USE DEF NoneOr
<1>1. leaves' = list
  BY DEF Begin
<1>2. Unknown \in Identity
  BY DEF Unknown, Identity
<1>3. QED
  BY <1>1, <1>2 DEF Begin

(* The list ReadStatus and ReadPaths begin with.                           *)
LEMMA ListType ==
    ASSUME TypeOK, NEW g \in Layout \cup {<<>>}, DOMAIN g = DOMAIN pool, NEW hidden
    PROVE  [i \in DOMAIN pool |-> [guid |-> g[i].guid, path |-> Shown(i, hidden)]]
              \in Seq([guid : Guid, path : NoneOr(Path)])
<1>1. Len(pool) \in Nat /\ DOMAIN pool = 1 .. Len(pool) /\ \A i \in DOMAIN pool : pool[i].guid \in Guid
  BY LayoutElements DEF TypeOK
<1>2. \A i \in DOMAIN pool : g[i].guid \in Guid
  BY LayoutElements
<1>3. \A i \in DOMAIN pool : Shown(i, hidden) \in NoneOr(Path)
  BY <1>1 DEF Shown, TypeOK, NoneOr
<1>4. QED
  BY <1>1, <1>2, <1>3, LeavesType

(* A path leads to a kernel name: itself, or the one it is linked to.      *)
LEMMA TargetType ==
    ASSUME TypeOK, NEW path
    PROVE  /\ Target(path) \in NoneOr(Node)
           /\ path \in Node => Target(path) = path
           /\ path \notin Node /\ Target(path) # None => LinkedTo(path, Target(path))
           /\ Target(None) = None
<1>1. Target(None) = None
  BY NoneAssumption DEF Target, LinkedTo
<1>2. CASE path \in Node
  BY <1>1, <1>2 DEF Target, NoneOr
<1>3. CASE path \notin Node /\ \E n \in Node : LinkedTo(path, n)
  <2>1. Target(path) = CHOOSE n \in Node : LinkedTo(path, n)
    BY <1>3 DEF Target
  <2>2. Target(path) \in Node /\ LinkedTo(path, Target(path))
    BY <1>3, <2>1
  <2>3. QED
    BY <1>1, <1>3, <2>2 DEF NoneOr
<1>4. CASE path \notin Node /\ ~\E n \in Node : LinkedTo(path, n)
  BY <1>1, <1>4 DEF Target, NoneOr
<1>5. QED
  BY <1>2, <1>3, <1>4

LEMMA IdentityType ==
    ASSUME TypeOK, NEW d \in Drive
    PROVE  /\ LsblkOf(d) \in Identity
           /\ \A id \in Identity : Fill(id, idOf[d]) \in Identity
BY DEF TypeOK, LsblkOf, Fill, Identity, NoneOr

LEMMA BackendType ==
    ASSUME NEW c \in DOMAIN Backend
    PROVE  Backend[c] \in {"storcli", "ses", "ledctl"}
BY DEF Backend

LEMMA BayType ==
    ASSUME TypeOK, NEW b \in {"storcli", "ses", "ledctl"}, NEW i \in DOMAIN leaves
    PROVE  Assign(i, Slots(b)) \in NoneOr(Key)
<1>1. bay[i] \in NoneOr(Key)
  BY DEF TypeOK
<1>2. \A s \in Matches(ident[i], Slots(b)) : s.key \in Key
  BY MatchIsSlot, SlotKeys
<1>3. QED
  BY <1>1, <1>2, Assigned DEF NoneOr

LEMMA TypeStep == TypeOK /\ Cursor /\ [Next]_vars => TypeOK'
<1> SUFFICES ASSUME TypeOK, Cursor, [Next]_vars PROVE TypeOK'
  OBVIOUS
<1> USE DEF Outside, Goto, world, result, process
<1>1. CASE ReadStatus
  <2>1. PICK hidden \in SUBSET Absent :
           Begin([i \in DOMAIN pool |-> [guid |-> pool[i].guid, path |-> Shown(i, hidden)]])
    BY <1>1 DEF ReadStatus
  <2>2. [i \in DOMAIN pool |-> [guid |-> pool[i].guid, path |-> Shown(i, hidden)]]
           \in Seq([guid : Guid, path : NoneOr(Path)])
    BY ListType DEF TypeOK
  <2>3. /\ leaves' \in Seq([guid : Guid, path : NoneOr(Path)])
        /\ dev' \in [DOMAIN leaves' -> NoneOr(Node)]
        /\ ident' \in [DOMAIN leaves' -> Identity]
        /\ bay' \in [DOMAIN leaves' -> NoneOr(Key)]
    BY <2>1, <2>2, BeginType
  <2>4. QED
    BY <1>1, <2>3 DEF ReadStatus, TypeOK
<1>2. CASE ReadPaths
  <2>1. pool \in Layout /\ snapG \in Layout \cup {<<>>}
    BY DEF TypeOK
  <2>2. CASE Agree(snapG, pool)
    <3>1. DOMAIN snapG = DOMAIN pool
      BY <2>1, <2>2, LayoutElements DEF Agree
    <3>2. PICK hidden \in SUBSET Absent :
             Begin([i \in DOMAIN pool |-> [guid |-> snapG[i].guid, path |-> Shown(i, hidden)]])
      BY <1>2, <2>2 DEF ReadPaths
    <3>3. [i \in DOMAIN pool |-> [guid |-> snapG[i].guid, path |-> Shown(i, hidden)]]
             \in Seq([guid : Guid, path : NoneOr(Path)])
      BY <2>1, <3>1, ListType
    <3>4. /\ leaves' \in Seq([guid : Guid, path : NoneOr(Path)])
          /\ dev' \in [DOMAIN leaves' -> NoneOr(Node)]
          /\ ident' \in [DOMAIN leaves' -> Identity]
          /\ bay' \in [DOMAIN leaves' -> NoneOr(Key)]
      BY <3>2, <3>3, BeginType
    <3>5. QED
      BY <1>2, <2>1, <2>2, <3>4 DEF ReadPaths, TypeOK
  <2>3. CASE ~Agree(snapG, pool)
    BY <1>2, <2>3 DEF ReadPaths, TypeOK
  <2>4. QED
    BY <2>2, <2>3
<1>3. CASE Resolve
  <2> DEFINE n == Target(leaves[cursor].path)
  <2>1. n \in NoneOr(Node)
    BY TargetType
  <2>2. CASE Found(n)
    <3>1. n \in Node /\ blk[n] \in Drive
      BY <2>1, <2>2 DEF Found, TypeOK, NoneOr
    <3>2. LsblkOf(blk[n]) \in Identity
      BY <3>1, IdentityType
    <3>3. dev' \in [DOMAIN leaves -> NoneOr(Node)] /\ ident' \in [DOMAIN leaves -> Identity]
      BY <1>3, <2>2, <3>1, <3>2 DEF Resolve, Give, TypeOK, NoneOr
    <3>4. QED
      BY <1>3, <2>2, <3>3 DEF Resolve, TypeOK
  <2>3. CASE ~Found(n)
    BY <1>3, <2>3 DEF Resolve, TypeOK
  <2>4. QED
    BY <2>2, <2>3
<1>4. CASE Udev
  <2>1. cursor \in DOMAIN leaves /\ dev[cursor] \in Node
    BY <1>4 DEF Udev, Cursor, TypeOK, NoneOr
  <2>2. ident' \in [DOMAIN leaves -> Identity]
    BY <1>4, <2>1, IdentityType DEF Udev, Give, TypeOK, NoneOr
  <2>3. QED
    BY <1>4, <2>2 DEF Udev, TypeOK
<1>5. CASE MapBackend
  <2>1. Backend[cursor] \in {"storcli", "ses", "ledctl"}
    BY <1>5, BackendType DEF MapBackend, Cursor
  <2>2. bay' \in [DOMAIN leaves -> NoneOr(Key)]
    BY <1>5, <2>1, BayType DEF MapBackend
  <2>3. QED
    BY <1>5, <2>2 DEF MapBackend, Advance, TypeOK
<1>6. CASE ReadGuids \/ ReadBlocks \/ Resolved
  BY <1>6 DEF ReadGuids, ReadBlocks, Resolved, TypeOK
<1>7. CASE Fault
  <2>1. budget' \in [Trouble -> Nat]
    BY <1>7, SpendType
    DEF Fault, StatusFails, FallbackFails, BlocksFail, UdevFails, BackendFails, Trouble, TypeOK
  <2>2. QED
    BY <1>7, <2>1 DEF Fault, StatusFails, FallbackFails, BlocksFail, UdevFails, BackendFails,
                      Advance, TypeOK
<1>8. CASE World
  <2>1. budget' \in [Trouble -> Nat]
    BY <1>8, SpendType DEF World, Unplug, Plug, ChangePool, Trouble, TypeOK
  <2>2. ASSUME Remember, node' \in [Node -> NoneOr(Drive)], place' \in [Drive -> NoneOr(Place)],
               name' \in [Guid -> Path]
        PROVE  been' \subseteq (Node \cup Place) \X Drive /\ told' \subseteq Guid \X Path
    BY <2>2 DEF Remember, Present, TypeOK, NoneOr
  <2>3. ASSUME NEW n \in Node, Unplug(n) PROVE TypeOK'
    <3>1. node' \in [Node -> NoneOr(Drive)] /\ place' \in [Drive -> NoneOr(Place)]
      BY <2>3 DEF Unplug, TypeOK, NoneOr
    <3>2. QED
      BY <2>1, <2>2, <2>3, <3>1 DEF Unplug, process, result, TypeOK
  <2>4. ASSUME NEW d \in Drive, NEW n \in Node, NEW p \in Place, Plug(d, n, p) PROVE TypeOK'
    <3>1. node' \in [Node -> NoneOr(Drive)] /\ place' \in [Drive -> NoneOr(Place)]
      BY <2>4 DEF Plug, TypeOK, NoneOr
    <3>2. name' \in [Guid -> Path]
      BY <2>4 DEF Plug, Reopened, TypeOK, Path
    <3>3. QED
      BY <2>1, <2>2, <2>4, <3>1, <3>2 DEF Plug, process, result, TypeOK
  <2>5. ASSUME NEW layout \in Layout, ChangePool(layout) PROVE TypeOK'
    BY <2>1, <2>5 DEF ChangePool, TypeOK
  <2>6. QED
    BY <1>8, <2>3, <2>4, <2>5 DEF World
<1>9. CASE UNCHANGED vars
  BY <1>9 DEF vars, TypeOK
<1>10. QED
  BY <1>1, <1>2, <1>3, <1>4, <1>5, <1>6, <1>7, <1>8, <1>9 DEF Next, Step

-----------------------------------------------------------------------------
(* History, Cursor, Grounded and AskedOnce are kept.                       *)

(* History is not rewritten, and no drive changes its identity.            *)
LEMMA HistoryGrows ==
    ASSUME [Next]_vars
    PROVE  /\ been \subseteq been' /\ told \subseteq told' /\ idOf' = idOf
           /\ ~Renamed' => ~Renamed
           /\ \A g : ~Confused(g)' => ~Confused(g)
<1>1. been \subseteq been' /\ told \subseteq told' /\ idOf' = idOf
  BY DEF Next, Step, Fault, World, Outside, Remember, vars,
         ReadStatus, ReadGuids, ReadPaths, ReadBlocks, Resolve, Udev, Resolved, MapBackend,
         StatusFails, FallbackFails, BlocksFail, UdevFails, BackendFails, Unplug, Plug, ChangePool
<1>2. ~Renamed' => ~Renamed
  BY <1>1 DEF Renamed, Had
<1>3. ASSUME NEW g PROVE ~Confused(g)' => ~Confused(g)
  <2>1. Unshared(DriveOf[g])' <=> Unshared(DriveOf[g])
    BY <1>1 DEF Unshared
  <2>2. Astray(g) => Astray(g)'
    BY <1>1 DEF Astray, Had
  <2>3. QED
    BY <2>1, <2>2 DEF Confused
<1>4. QED
  BY <1>1, <1>2, <1>3

LEMMA HistoryStep == TypeOK /\ History /\ [Next]_vars => History'
<1> SUFFICES ASSUME TypeOK, History, [Next]_vars PROVE History'
  OBVIOUS
<1> USE DEF Had
<1>1. been \subseteq been' /\ told \subseteq told'
  BY HistoryGrows
<1>2. CASE UNCHANGED <<node, place, name, been, told, blk>>
  BY <1>2 DEF History, Present, Injective
<1>3. CASE ReadBlocks
  <2>1. \A n \in Node : node[n] # None => Had(n, node[n])
    BY PresentIsPast
  <2>2. QED
    BY <1>3, <2>1 DEF ReadBlocks, Outside, world, History, Present, Injective
<1>4. ASSUME Remember, blk' = blk, Injective(node'), Injective(place'),
             \A g \in Guid : name'[g] \in Drive => name'[g] = DriveOf[g]
      PROVE  History'
  <2>1. Present(node, place)' \subseteq been' /\ \A g \in Guid : <<g, name'[g]>> \in told'
    BY <1>4 DEF Remember, Present
  <2>2. \A x \in told' : x[2] \in Drive => x[2] = DriveOf[x[1]]
    BY <1>4 DEF Remember, History
  <2>3. \A n \in Node : blk'[n] # None => <<n, blk'[n]>> \in been'
    BY <1>1, <1>4 DEF History
  <2>4. Injective(node)' /\ Injective(place)'
    BY <1>4 DEF Injective
  <2>5. QED
    BY <2>1, <2>2, <2>3, <2>4 DEF History
<1>5. ASSUME NEW n \in Node, Unplug(n) PROVE History'
  <2>1. Injective(node')
    BY <1>5 DEF Unplug, History, Injective, TypeOK
  <2>2. Injective(place')
    <3>1. node[n] \in Drive /\ Injective(place)
      BY <1>5 DEF Unplug, History, TypeOK, NoneOr
    <3>2. Injective([place EXCEPT ![node[n]] = None])
      BY <3>1 DEF Injective, TypeOK
    <3>3. QED
      BY <1>5, <3>1, <3>2 DEF Unplug
  <2>3. \A g \in Guid : name'[g] \in Drive => name'[g] = DriveOf[g]
    BY <1>5 DEF Unplug, History
  <2>4. QED
    BY <1>4, <1>5, <2>1, <2>2, <2>3 DEF Unplug, process
<1>6. ASSUME NEW d \in Drive, NEW n \in Node, NEW p \in Place, Plug(d, n, p) PROVE History'
  <2>1. Injective(node')
    BY <1>6 DEF Plug, Plugged, History, Injective, TypeOK
  <2>2. Injective(place')
    BY <1>6 DEF Plug, History, Injective, TypeOK
  <2>3. \A g \in Guid : name'[g] \in Drive => name'[g] = DriveOf[g]
    <3>1. \A g \in Guid : name[g] \in Drive => name[g] = DriveOf[g]
      BY DEF History
    <3>2. QED
      BY <1>6, <3>1, DriveAssumption, PlaceAssumption DEF Plug, Reopened
  <2>4. QED
    BY <1>4, <1>6, <2>1, <2>2, <2>3 DEF Plug, process
<1>7. ASSUME NEW layout \in Layout, ChangePool(layout) PROVE History'
  BY <1>2, <1>7 DEF ChangePool, process
<1>8. QED
  BY <1>2, <1>3, <1>5, <1>6, <1>7
  DEF Next, Step, Fault, World, Outside, world, vars,
      ReadStatus, ReadGuids, ReadPaths, Resolve, Udev, Resolved, MapBackend,
      StatusFails, FallbackFails, BlocksFail, UdevFails, BackendFails

LEMMA CursorStep == TypeOK /\ Cursor /\ [Next]_vars => Cursor'
<1> SUFFICES ASSUME TypeOK, Cursor, [Next]_vars PROVE Cursor'
  OBVIOUS
<1> USE DEF Cursor, Goto, result, process, Backend
<1>1. CASE Resolve
  <2> DEFINE n == Target(leaves[cursor].path)
  <2>1. CASE Found(n)
    <3>1. n # None /\ cursor \in Entries /\ \A i \in Entries : dev'[i] = n
      BY <1>1, <2>1 DEF Resolve, Found, Working, Give, Entries
    <3>2. cursor' = cursor => Entries' = Entries
      BY <1>1 DEF Resolve, Entries
    <3>3. QED
      BY <1>1, <3>1, <3>2 DEF Resolve, Working
  <2>2. CASE ~Found(n)
    BY <1>1, <2>2 DEF Resolve
  <2>3. QED
    BY <2>1, <2>2
<1>2. CASE MapBackend \/ BackendFails
  BY <1>2 DEF MapBackend, BackendFails, Advance, TypeOK
<1>3. CASE Step /\ ~Resolve /\ ~MapBackend
  BY <1>3 DEF Step, ReadStatus, ReadGuids, ReadPaths, ReadBlocks, Udev, Resolved
<1>4. CASE Fault /\ ~BackendFails
  BY <1>4 DEF Fault, StatusFails, FallbackFails, BlocksFail, UdevFails
<1>5. CASE World \/ UNCHANGED vars
  BY <1>5 DEF World, Unplug, Plug, ChangePool, vars, Entries
<1>6. QED
  BY <1>1, <1>2, <1>3, <1>4, <1>5 DEF Next

(* With a list of paths that ZFS has, everything is grounded: nothing else *)
(* is known yet.                                                           *)
LEMMA BeginGrounded ==
    ASSUME NEW list, Begin(list),
           \/ Disguised'
           \/ \A i \in DOMAIN list : \/ list[i].path = None
                                     \/ <<list[i].guid, list[i].path>> \in told'
    PROVE  Grounded'
<1>1. leaves' = list /\ \A i \in DOMAIN list : dev'[i] = None /\ ident'[i] = Unknown
  BY DEF Begin
<1>2. QED
  BY <1>1 DEF Grounded

LEMMA ShownTold ==
    ASSUME TypeOK, History, told \subseteq told', NEW i \in DOMAIN pool, NEW hidden
    PROVE  Shown(i, hidden) = None \/ <<pool[i].guid, Shown(i, hidden)>> \in told'
<1>1. pool[i].guid \in Guid
  BY LayoutElements DEF TypeOK
<1>2. QED
  BY <1>1 DEF Shown, History

(* A disk of the inventory that keeps what is known of it stays grounded.  *)
LEMMA GroundedStep == TypeOK /\ History /\ Cursor /\ Grounded /\ [Next]_vars => Grounded'
<1> SUFFICES ASSUME TypeOK, History, Cursor, Grounded, [Next]_vars PROVE Grounded'
  OBVIOUS
<1> USE DEF result
<1>1. been \subseteq been' /\ told \subseteq told' /\ idOf' = idOf /\ (~Renamed' => ~Renamed)
  BY HistoryGrows
<1>2. ASSUME leaves' = leaves, UNCHANGED <<snapG, snapP>>,
             ~Renamed => \A i \in DOMAIN leaves :
                IF dev'[i] = None THEN ident'[i] = Unknown ELSE \E d \in Drive : IsDrive(i, d)'
      PROVE  Grounded'
  BY <1>1, <1>2 DEF Grounded, Disguised
<1>3. ASSUME leaves' = leaves, NEW i \in DOMAIN leaves, dev'[i] = dev[i], ident'[i] = ident[i],
             NEW d \in Drive, IsDrive(i, d)
      PROVE  IsDrive(i, d)'
  BY <1>1, <1>3 DEF IsDrive, Of, Had
<1>4. CASE UNCHANGED <<leaves, dev, ident, snapG, snapP>>
  BY <1>2, <1>3, <1>4 DEF Grounded
<1>5. CASE leaves' = <<>>
  BY <1>5 DEF Grounded
<1>6. CASE ReadStatus
  <2> DEFINE list(hidden) == [i \in DOMAIN pool |-> [guid |-> pool[i].guid, path |-> Shown(i, hidden)]]
  <2>1. PICK hidden \in SUBSET Absent : Begin(list(hidden))
    BY <1>6 DEF ReadStatus
  <2>2. \A i \in DOMAIN list(hidden) : \/ list(hidden)[i].path = None
                                       \/ <<list(hidden)[i].guid, list(hidden)[i].path>> \in told'
    BY <1>1, ShownTold
  <2> HIDE DEF list
  <2>3. QED
    BY <2>1, <2>2, BeginGrounded
<1>7. CASE ReadPaths /\ Agree(snapG, pool)
  <2> DEFINE list(hidden) == [i \in DOMAIN pool |-> [guid |-> snapG[i].guid, path |-> Shown(i, hidden)]]
  <2>1. PICK hidden \in SUBSET Absent : Begin(list(hidden))
    BY <1>7 DEF ReadPaths
  <2>2. Disguised' \/ snapG = pool
    <3>1. snapG' = snapG /\ snapP' = pool
      BY <1>7 DEF ReadPaths
    <3>2. DOMAIN snapG = DOMAIN pool
      BY <1>7, LayoutElements DEF Agree, TypeOK
    <3>3. Shapes(pool) = Shapes(snapG)
      BY <1>7, <3>2 DEF Agree, Shapes
    <3>4. QED
      BY <3>1, <3>3 DEF Disguised, Shapes
  <2>3. CASE snapG = pool
    <3>1. \A i \in DOMAIN list(hidden) : \/ list(hidden)[i].path = None
                                         \/ <<list(hidden)[i].guid, list(hidden)[i].path>> \in told'
      BY <1>1, <2>3, ShownTold
    <3> HIDE DEF list
    <3>2. QED
      BY <2>1, <3>1, BeginGrounded
  <2> HIDE DEF list
  <2>4. QED
    BY <2>1, <2>2, <2>3, BeginGrounded
<1>8. CASE Resolve /\ Found(Target(leaves[cursor].path))
  <2> DEFINE path == leaves[cursor].path
             n == Target(path)
  <2>1. /\ UNCHANGED <<leaves, snapG, snapP>>
        /\ dev' = Give(dev, n) /\ ident' = Give(ident, LsblkOf(blk[n]))
    BY <1>8 DEF Resolve
  <2> SUFFICES ASSUME ~Renamed, NEW i \in DOMAIN leaves
               PROVE  IF dev'[i] = None THEN ident'[i] = Unknown ELSE \E e \in Drive : IsDrive(i, e)'
    BY <1>2, <2>1
  <2>2. n \in Node /\ \E d \in Drive : blk[n] = d /\ Had(n, d)
    BY <1>8, TargetType DEF Found, NoneOr, TypeOK, History
  <2> PICK d \in Drive : blk[n] = d /\ Had(n, d)
    BY <2>2
  <2>3. path = d \/ Had(path, d)
    <3>1. CASE path \in Node
      BY <2>2, <3>1, TargetType
    <3>2. CASE path \notin Node
      <4>1. LinkedTo(path, n)
        BY <1>8, <3>2, TargetType DEF Found
      <4>2. node[n] # None /\ path # None /\ path \in {node[n], place[node[n]]}
        BY <4>1 DEF LinkedTo
      <4>3. node[n] \in Drive /\ Had(n, node[n])
        BY <2>2, <4>2, PresentIsPast DEF TypeOK, NoneOr
      <4>4. node[n] = d
        BY <2>2, <4>3, OneDrivePerName
      <4>5. QED
        BY <2>2, <4>2, <4>4, PresentIsPast
    <3>3. QED
      BY <3>1, <3>2
  <2>4. CASE i \in Entries
    <3>1. leaves[i].path = path /\ dev'[i] = n /\ ident'[i] = LsblkOf(d)
      BY <2>1, <2>4 DEF Give, Entries
    <3>2. Of(LsblkOf(d), d)
      BY DEF Of, LsblkOf
    <3>3. IsDrive(i, d)'
      BY <1>1, <2>1, <2>2, <2>3, <3>1, <3>2 DEF IsDrive, Of, Had
    <3>4. QED
      BY <1>8, <2>2, <3>1, <3>3 DEF Found
  <2>5. CASE i \notin Entries
    <3>1. dev'[i] = dev[i] /\ ident'[i] = ident[i]
      BY <2>1, <2>5 DEF Give
    <3>2. QED
      BY <1>3, <2>1, <3>1 DEF Grounded
  <2>6. QED
    BY <2>4, <2>5
<1>9. CASE Udev /\ ident' # ident
  <2> DEFINE n == dev[cursor]
  <2>1. /\ UNCHANGED <<leaves, dev, snapG, snapP>>
        /\ node[n] # None /\ ident' = Give(ident, Fill(ident[cursor], idOf[node[n]]))
    BY <1>9 DEF Udev
  <2> SUFFICES ASSUME ~Renamed, NEW i \in DOMAIN leaves
               PROVE  IF dev'[i] = None THEN ident'[i] = Unknown ELSE \E e \in Drive : IsDrive(i, e)'
    BY <1>2, <2>1
  <2>2. cursor \in DOMAIN leaves /\ n \in Node /\ n # None /\ \A j \in Entries : dev[j] = n
    BY <1>9 DEF Udev, Cursor, TypeOK, NoneOr
  <2>3. PICK d \in Drive : IsDrive(cursor, d)
    BY <2>2 DEF Grounded
  <2>4. node[n] = d
    <3>1. node[n] \in Drive /\ Had(n, node[n]) /\ Had(n, d)
      BY <2>1, <2>2, <2>3, PresentIsPast DEF TypeOK, NoneOr, IsDrive
    <3>2. QED
      BY <2>2, <3>1, OneDrivePerName
  <2>5. CASE i \in Entries
    <3>1. leaves[i].path = leaves[cursor].path /\ dev[i] = n
      BY <2>2, <2>5 DEF Entries
    <3>2. ident'[i] = Fill(ident[cursor], idOf[d])
      BY <2>1, <2>4, <2>5 DEF Give
    <3>3. Of(Fill(ident[cursor], idOf[d]), d)
      BY <2>3 DEF IsDrive, Of, Fill
    <3>4. IsDrive(i, d)'
      BY <1>1, <2>1, <2>3, <3>1, <3>2, <3>3 DEF IsDrive, Of, Had
    <3>5. QED
      BY <2>1, <2>2, <3>1, <3>4
  <2>6. CASE i \notin Entries
    <3>1. dev'[i] = dev[i] /\ ident'[i] = ident[i]
      BY <2>1, <2>6 DEF Give
    <3>2. QED
      BY <1>3, <2>1, <3>1 DEF Grounded
  <2>7. QED
    BY <2>5, <2>6
<1>10. QED
  <2>1. CASE Step
    BY <2>1, <1>4, <1>5, <1>6, <1>7, <1>8, <1>9
    DEF Step, Cursor, ReadStatus, ReadGuids, ReadPaths, ReadBlocks, Resolve, Udev, Resolved, MapBackend
  <2>2. CASE Fault
    BY <2>2, <1>4 DEF Fault, StatusFails, FallbackFails, BlocksFail, UdevFails, BackendFails
  <2>3. CASE World \/ UNCHANGED vars
    BY <2>3, <1>4 DEF World, Unplug, Plug, ChangePool, process, vars
  <2>4. QED
    BY <2>1, <2>2, <2>3 DEF Next

LEMMA AskedOnceStep == TypeOK /\ Cursor /\ AskedOnce /\ [Next]_vars => AskedOnce'
<1> SUFFICES ASSUME TypeOK, Cursor, AskedOnce, [Next]_vars PROVE AskedOnce'
  OBVIOUS
<1> USE DEF AskedOnce, Goto, result, process
<1>1. CASE MapBackend
  <2>1. cursor \in DOMAIN Backend /\ cursor \in Nat /\ Backend[cursor] \in {"storcli", "ses", "ledctl"}
    BY <1>1, BackendType DEF MapBackend, Cursor, TypeOK
  <2>2. ASSUME NEW i \in DOMAIN bay', bay'[i] # None
        PROVE  \E b \in 1 .. cursor : bay'[i][1] = Backend[b]
    <3>1. i \in DOMAIN leaves /\ i \in DOMAIN bay /\ bay'[i] = Assign(i, Slots(Backend[cursor]))
      BY <1>1, <2>2, Indices DEF MapBackend
    <3>2. CASE bay'[i] = bay[i]
      <4>1. PICK b \in 1 .. cursor - 1 : bay[i][1] = Backend[b]
        BY <1>1, <2>2, <3>1, <3>2 DEF MapBackend
      <4>2. QED
        BY <2>1, <3>2, <4>1
    <3>3. CASE bay'[i] # bay[i]
      <4>1. bay'[i][1] = Backend[cursor]
        BY <2>1, <3>1, <3>3, Assigned, MatchIsSlot, SlotKeys
      <4>2. cursor \in 1 .. cursor
        BY <2>1 DEF Backend
      <4>3. QED
        BY <4>1, <4>2
    <3>4. QED
      BY <3>2, <3>3
  <2>3. QED
    BY <1>1, <2>1, <2>2 DEF MapBackend, Advance
<1>2. CASE BackendFails
  <2>1. cursor \in Nat /\ bay' = bay
    BY <1>2 DEF BackendFails, TypeOK
  <2>2. QED
    BY <1>2, <2>1 DEF BackendFails, Advance
<1>3. CASE ReadStatus \/ (ReadPaths /\ Agree(snapG, pool))
  BY <1>3 DEF ReadStatus, ReadPaths, Begin
<1>4. CASE Step /\ ~MapBackend /\ ~ReadStatus /\ ~(ReadPaths /\ Agree(snapG, pool))
  BY <1>4 DEF Step, ReadGuids, ReadPaths, ReadBlocks, Resolve, Udev, Resolved
<1>5. CASE Fault /\ ~BackendFails
  BY <1>5 DEF Fault, StatusFails, FallbackFails, BlocksFail, UdevFails
<1>6. CASE World \/ UNCHANGED vars
  BY <1>6 DEF World, Unplug, Plug, ChangePool, vars
<1>7. QED
  BY <1>1, <1>2, <1>3, <1>4, <1>5, <1>6 DEF Next

-----------------------------------------------------------------------------
(* OwnBay and UniqueBay are kept.                                          *)

(* A step other than MapBackend gives no bay.                              *)
LEMMA BaysKept ==
    ASSUME TypeOK, Cursor, [Next]_vars, ~MapBackend
    PROVE  \/ \A i \in DOMAIN bay' : bay'[i] = None
           \/ UNCHANGED <<bay, leaves, snapG, snapP>>
           \/ DOMAIN bay' = {}
<1> USE DEF result, process
<1>1. CASE ReadStatus \/ (ReadPaths /\ Agree(snapG, pool))
  BY <1>1 DEF ReadStatus, ReadPaths, Begin
<1>2. CASE ReadGuids \/ (ReadPaths /\ ~Agree(snapG, pool))
  <2>1. bay' = bay /\ leaves = <<>> /\ DOMAIN bay = DOMAIN leaves
    BY <1>2, Indices DEF ReadGuids, ReadPaths, Cursor
  <2>2. QED
    BY <2>1
<1>3. CASE ReadBlocks \/ Resolve \/ Udev \/ Resolved
  BY <1>3 DEF ReadBlocks, Resolve, Udev, Resolved
<1>4. CASE Fault
  BY <1>4 DEF Fault, StatusFails, FallbackFails, BlocksFail, UdevFails, BackendFails
<1>5. CASE World \/ UNCHANGED vars
  BY <1>5 DEF World, Unplug, Plug, ChangePool, vars
<1>6. QED
  BY <1>1, <1>2, <1>3, <1>4, <1>5 DEF Next, Step

(* A disk keeps its bay, or gets one that its own drive holds.             *)
LEMMA NewBay ==
    ASSUME TypeOK, History, Cursor, Grounded, AskedOnce, MapBackend, ~Renamed, ~Disguised,
           NEW i \in DOMAIN leaves, ~Confused(leaves[i].guid), bay'[i] # None
    PROVE  \/ bay'[i] = bay[i] /\ bay'[i][1] # Backend[cursor]
           \/ /\ bay'[i][1] = Backend[cursor]
              /\ Had(bay'[i][2], DriveOf[leaves[i].guid])
              /\ Holds(DriveOf[leaves[i].guid], bay'[i])
<1>1. cursor \in DOMAIN Backend /\ Backend[cursor] \in {"storcli", "ses", "ledctl"}
  BY BackendType DEF MapBackend, Cursor
<1>2. bay'[i] = Assign(i, Slots(Backend[cursor])) /\ i \in DOMAIN bay
  BY Indices DEF MapBackend
<1>3. CASE bay'[i] = bay[i]
  <2>1. PICK b \in 1 .. cursor - 1 : bay[i][1] = Backend[b]
    BY <1>2, <1>3 DEF AskedOnce, MapBackend
  <2>2. Backend[b] # Backend[cursor]
    BY <1>1, <2>1 DEF Backend
  <2>3. QED
    BY <1>3, <2>1, <2>2
<1>4. CASE bay'[i] # bay[i]
  <2>1. PICK s \in Matches(ident[i], Slots(Backend[cursor])) : bay'[i] = s.key
    BY <1>2, <1>4, Assigned
  <2>2. s.key[1] = Backend[cursor]
    BY <1>1, <2>1, MatchIsSlot, SlotKeys
  <2>3. QED
    BY <1>1, <2>1, <2>2, SlotIsOwn
<1>5. QED
  BY <1>3, <1>4

LEMMA BayStep ==
    TypeOK /\ History /\ Cursor /\ Grounded /\ AskedOnce /\ OwnBay /\ UniqueBay /\ [Next]_vars
       => OwnBay' /\ UniqueBay'
<1> SUFFICES ASSUME TypeOK, History, Cursor, Grounded, AskedOnce, OwnBay, UniqueBay, [Next]_vars
             PROVE  OwnBay' /\ UniqueBay'
  OBVIOUS
<1>1. been \subseteq been' /\ (~Renamed' => ~Renamed) /\ \A g : ~Confused(g)' => ~Confused(g)
  BY HistoryGrows
<1>2. CASE MapBackend
  <2>1. leaves' = leaves /\ DOMAIN bay' = DOMAIN leaves /\ been' = been
    BY <1>2 DEF MapBackend, Outside
  <2>2. Disguised' = Disguised /\ Renamed' = Renamed
    BY <1>2, <2>1 DEF MapBackend, Disguised, Shapes, Renamed, Had
  <2> SUFFICES ASSUME ~Renamed, ~Disguised PROVE OwnBay' /\ UniqueBay'
    BY <2>2 DEF OwnBay, UniqueBay
  <2>3. DOMAIN bay = DOMAIN leaves
    BY Indices
  <2>4. ASSUME NEW i \in DOMAIN leaves, bay'[i] # None, ~Confused(leaves[i].guid)
        PROVE  Had(bay'[i][2], DriveOf[leaves[i].guid])
    BY <1>2, <2>3, <2>4, NewBay DEF OwnBay
  <2>5. ASSUME NEW i \in DOMAIN leaves, NEW j \in DOMAIN leaves, bay'[i] # None, bay'[i] = bay'[j],
               ~Confused(leaves[i].guid), ~Confused(leaves[j].guid)
        PROVE  DriveOf[leaves[i].guid] = DriveOf[leaves[j].guid]
    <3>1. CASE bay'[i][1] = Backend[cursor]
      <4>1. Holds(DriveOf[leaves[i].guid], bay'[i]) /\ Holds(DriveOf[leaves[j].guid], bay'[i])
        BY <1>2, <2>5, <3>1, NewBay
      <4>2. QED
        BY <4>1, OneHolder, Indices
    <3>2. CASE bay'[i][1] # Backend[cursor]
      <4>1. bay'[i] = bay[i] /\ bay'[j] = bay[j]
        BY <1>2, <2>5, <3>2, NewBay
      <4>2. QED
        BY <2>3, <2>5, <4>1 DEF UniqueBay
    <3>3. QED
      BY <3>1, <3>2
  <2>6. OwnBay'
    BY <1>1, <2>1, <2>4 DEF OwnBay, Had
  <2>7. UniqueBay'
    BY <1>1, <2>1, <2>5 DEF UniqueBay
  <2>8. QED
    BY <2>6, <2>7
<1>3. CASE ~MapBackend
  <2>1. CASE DOMAIN bay' = {} \/ \A i \in DOMAIN bay' : bay'[i] = None
    BY <2>1 DEF OwnBay, UniqueBay
  <2>2. CASE UNCHANGED <<bay, leaves, snapG, snapP>>
    <3>1. Disguised' = Disguised
      BY <2>2 DEF Disguised, Shapes
    <3>2. OwnBay'
      BY <1>1, <2>2, <3>1 DEF OwnBay, Had
    <3>3. UniqueBay'
      BY <1>1, <2>2, <3>1 DEF UniqueBay
    <3>4. QED
      BY <3>2, <3>3
  <2>3. QED
    BY <1>3, <2>1, <2>2, BaysKept
<1>4. QED
  BY <1>2, <1>3

-----------------------------------------------------------------------------
(* CalmProgress is kept.                                                   *)

LEMMA SpentStep == TypeOK /\ Spent /\ [Next]_vars => Spent' /\ (Calm' => Calm)
<1> SUFFICES ASSUME TypeOK, Spent, [Next]_vars PROVE Spent' /\ (Calm' => Calm)
  OBVIOUS
<1> USE LimitAssumption DEF Spent, Calm, TypeOK
<1>1. ASSUME NEW k \in Trouble, Spend(k) PROVE Spent' /\ ~Calm'
  BY <1>1 DEF Spend
<1>2. CASE UNCHANGED budget
  BY <1>2
<1>3. CASE Step \/ UNCHANGED vars
  BY <1>2, <1>3 DEF Step, vars, ReadStatus, ReadGuids, ReadPaths, ReadBlocks, Resolve, Udev, Resolved,
                    MapBackend
<1>4. CASE Fault
  BY <1>1, <1>2, <1>4 DEF Fault, Trouble, StatusFails, FallbackFails, BlocksFail, UdevFails, BackendFails
<1>5. CASE World
  BY <1>1, <1>5 DEF World, Trouble, Unplug, Plug, ChangePool
<1>6. QED
  BY <1>3, <1>4, <1>5 DEF Next

(* While all is calm, each step is one of the discovery, of which only a   *)
(* disabled backend fails, and the machine stays as it is.                 *)
LEMMA CalmStep ==
    ASSUME TypeOK, Spent, [Next]_vars, Calm'
    PROVE  /\ Calm
           /\ \/ Step
              \/ pc = "map" /\ Backend[cursor] \notin Enabled /\ BackendFails
              \/ UNCHANGED vars
           /\ UNCHANGED <<world, idOf>>
<1>1. ASSUME NEW k \in Trouble, Spend(k) PROVE FALSE
  BY <1>1, LimitAssumption DEF Spend, Spent, Calm, TypeOK
<1>2. Calm
  BY SpentStep
<1>3. \/ Step \/ UNCHANGED vars
      \/ pc = "map" /\ Backend[cursor] \notin Enabled /\ BackendFails
  <2>1. ~World
    BY <1>1 DEF World, Trouble, Unplug, Plug, ChangePool
  <2>2. ~StatusFails /\ ~FallbackFails /\ ~BlocksFail /\ ~UdevFails
    BY <1>1 DEF Trouble, StatusFails, FallbackFails, BlocksFail, UdevFails
  <2>3. BackendFails => pc = "map" /\ Backend[cursor] \notin Enabled
    BY <1>1 DEF Trouble, BackendFails
  <2>4. Step \/ Fault \/ UNCHANGED vars
    BY <2>1 DEF Next
  <2>5. Fault => BackendFails
    BY <2>2 DEF Fault
  <2>6. QED
    BY <2>3, <2>4, <2>5
<1>4. UNCHANGED <<world, idOf>>
  BY <1>3 DEF Step, vars, Outside, ReadStatus, ReadGuids, ReadPaths, ReadBlocks, Resolve, Udev,
              Resolved, MapBackend, BackendFails
<1>5. QED
  BY <1>2, <1>3, <1>4

(* The drive that a path leads to, and its kernel name.                    *)
LEMMA ReachedType ==
    ASSUME TypeOK, History, NEW path
    PROVE  /\ Reached(path) \in NoneOr(Drive)
           /\ Reached(path) # None => /\ Target(path) \in Node
                                      /\ node[Target(path)] = Reached(path)
                                      /\ NodeOf(Reached(path)) = Target(path)
<1>1. Reached(path) \in NoneOr(Drive)
  BY TargetType DEF Reached, TypeOK, NoneOr
<1>2. ASSUME Reached(path) # None
      PROVE  /\ Target(path) \in Node
             /\ node[Target(path)] = Reached(path)
             /\ NodeOf(Reached(path)) = Target(path)
  <2>1. Target(path) \in Node /\ node[Target(path)] = Reached(path)
    BY <1>2, TargetType DEF Reached, NoneOr
  <2>2. \A n \in Node : node[n] = Reached(path) => n = Target(path)
    BY <1>2, <2>1 DEF History, Injective, TypeOK
  <2>3. QED
    BY <2>1, <2>2 DEF NodeOf
<1>3. QED
  BY <1>1, <1>2

(* Nothing is known of a disk without identity, so no slot is its own.     *)
LEMMA UnknownMatchesNone ==
    ASSUME NEW S PROVE Matches(Unknown, S) = {}
BY DEF Matches, Unknown

(* When the slots that share a number with an identity are one slot, or    *)
(* none, and show all of it, they are the matches.                         *)
LEMMA OnlyMatch ==
    ASSUME NEW id \in Identity, id # Unknown, NEW S, NEW T \in SUBSET S, T = {} \/ Sole(T),
           \A t \in T : t.serial = id.serial /\ t.wwn = id.wwn,
           \A s \in S : \/ id.serial # None /\ s.serial = id.serial
                        \/ id.wwn # None /\ s.wwn = id.wwn
                        => s \in T
    PROVE  Matches(id, S) = T
<1>1. id.serial # None \/ id.wwn # None
  BY DEF Identity, Unknown
<1> DEFINE same == {s \in S : s.serial = id.serial}
           wwns == {s \in S : s.wwn = id.wwn}
<1>2. T \subseteq same /\ T \subseteq wwns
  OBVIOUS
<1>3. CASE id.serial # None
  <2>1. same = T
    BY <1>2, <1>3
  <2>2. Matches(id, S) = IF ~Sole(same) /\ id.wwn # None /\ same \cap wwns # {}
                         THEN same \cap wwns ELSE same
    BY <1>3 DEF Matches
  <2>3. same \cap wwns = T
    BY <1>2, <2>1
  <2>4. QED
    BY <2>1, <2>2, <2>3
<1>4. CASE id.serial = None
  <2>1. wwns = T
    BY <1>1, <1>2, <1>4
  <2>2. QED
    BY <1>1, <1>4, <2>1 DEF Matches
<1>5. QED
  BY <1>3, <1>4

(* The bay backend b has for drive d, enabled or not.                      *)
Home(b, d) == CASE b = "storcli" -> IF place[d] \in Controller THEN <<"storcli", place[d]>> ELSE None
                [] b = "ses" -> IF place[d] \in Enclosure THEN <<"ses", place[d]>> ELSE None
                [] b = "ledctl" -> <<"ledctl", NodeOf(d)>>

(* The homes in the order of the backends.                                 *)
LEMMA NextHome ==
    ASSUME TypeOK, NEW c \in DOMAIN Backend, NEW d \in Drive
    PROVE  /\ HomeBefore(1, d) = None
           /\ idOf[d] = Unknown => HomeBefore(c, d) = None /\ HomeBefore(c + 1, d) = None
           /\ Backend[c] \notin Enabled \/ HomeBefore(c, d) # None
                 => HomeBefore(c + 1, d) = HomeBefore(c, d)
           /\ idOf[d] # Unknown /\ Backend[c] \in Enabled /\ HomeBefore(c, d) = None
                 => HomeBefore(c + 1, d) = Home(Backend[c], d)
<1>1. c \in {1, 2, 3} /\ Backend[1] = "storcli" /\ Backend[2] = "ses" /\ Backend[3] = "ledctl"
  BY DEF Backend
<1>2. /\ place[d] \in Controller => <<"storcli", place[d]>> # None
      /\ place[d] \in Enclosure => <<"ses", place[d]>> # None
      /\ d # None
  BY PlaceAssumption, NoneAssumption DEF Key
<1>3. CASE c = 1
  BY <1>1, <1>2, <1>3 DEF HomeBefore, Home
<1>4. CASE c = 2
  BY <1>1, <1>2, <1>4 DEF HomeBefore, Home
<1>5. CASE c = 3
  BY <1>1, <1>2, <1>5 DEF HomeBefore, Home
<1>6. QED
  BY <1>1, <1>3, <1>4, <1>5

(* The matches are the slot at this home, or none without one.             *)
OnlyAt(home, matches) == \/ home = None /\ matches = {}
                         \/ \E s : matches = {s} /\ s.key = home

(* When every disk is known, the slots with the identity of a drive that   *)
(* has a vdev, and its numbers, to itself are its own.                     *)
LEMMA OwnSlots ==
    ASSUME TypeOK, History, \A j \in DOMAIN leaves : Learned(j),
           NEW i \in DOMAIN leaves, Clear(i), NEW d \in Drive, d = Reached(leaves[i].path),
           idOf[d] # Unknown, NEW b \in {"storcli", "ses", "ledctl"}
    PROVE  OnlyAt(Home(b, d), Matches(ident[i], Slots(b)))
<1>1. ident[i] = idOf[d] /\ idOf[d] \in Identity /\ dev[i] = NodeOf(d)
  BY ReachedType, NoneAssumption DEF Learned, TypeOK
<1>2. NodeOf(d) \in Node /\ node[NodeOf(d)] = d /\ dev[i] # None /\ d # None
  BY <1>1, ReachedType, NoneAssumption
<1> Alone(i) /\ Unshared(d)
  BY <1>2 DEF Clear
<1>3. ASSUME NEW e \in Drive,
             \/ idOf[d].serial # None /\ idOf[e].serial = idOf[d].serial
             \/ idOf[d].wwn # None /\ idOf[e].wwn = idOf[d].wwn
      PROVE  e = d
  BY <1>3 DEF Unshared
<1>4. ASSUME NEW j \in DOMAIN leaves,
             \/ idOf[d].serial # None /\ ident[j].serial = idOf[d].serial
             \/ idOf[d].wwn # None /\ ident[j].wwn = idOf[d].wwn
      PROVE  j = i
  <2>1. Reached(leaves[j].path) \in Drive /\ ident[j] = idOf[Reached(leaves[j].path)]
    BY <1>4, ReachedType DEF Learned, Blank, Unknown, NoneOr
  <2>2. Reached(leaves[j].path) = d
    BY <1>3, <1>4, <2>1
  <2>3. QED
    BY <2>2 DEF Alone
<1>5. CASE b = "storcli"
  <2> DEFINE own == Slot(<<"storcli", place[d]>>, idOf[d], d)
             T == IF d \in InController THEN {own} ELSE {}
  <2>1. T \subseteq Slots(b)
    BY <1>5 DEF Slots, StorcliSlots
  <2>2. ASSUME NEW s \in Slots(b),
               \/ idOf[d].serial # None /\ s.serial = idOf[d].serial
               \/ idOf[d].wwn # None /\ s.wwn = idOf[d].wwn
        PROVE  s \in T
    <3>1. PICK e \in InController : s = Slot(<<"storcli", place[e]>>, idOf[e], e)
      BY <1>5, <2>2 DEF Slots, StorcliSlots
    <3>2. e = d
      BY <1>3, <2>2, <3>1 DEF Slot, InController
    <3>3. QED
      BY <3>1, <3>2
  <2>3. Matches(idOf[d], Slots(b)) = T
    <3>1. \A t \in T : t.serial = idOf[d].serial /\ t.wwn = idOf[d].wwn
      BY DEF Slot
    <3>2. T = {} \/ Sole(T)
      BY DEF Sole
    <3> HIDE DEF T
    <3>3. QED
      BY <1>1, <2>1, <2>2, <3>1, <3>2, OnlyMatch
  <2>4. Home(b, d) = IF d \in InController THEN own.key ELSE None
    BY <1>5 DEF Home, InController, Slot
  <2>5. QED
    BY <1>1, <2>3, <2>4 DEF OnlyAt
<1>6. CASE b = "ses"
  <2> DEFINE own == Slot(<<"ses", place[node[dev[i]]]>>, ident[i], i)
             T == IF place[d] \in Enclosure THEN {own} ELSE {}
  <2>1. T \subseteq Slots(b)
    BY <1>1, <1>2, <1>6, NoneAssumption DEF Slots, SesSlots
  <2>2. ASSUME NEW s \in Slots(b),
               \/ idOf[d].serial # None /\ s.serial = idOf[d].serial
               \/ idOf[d].wwn # None /\ s.wwn = idOf[d].wwn
        PROVE  s \in T
    <3>1. PICK j \in DOMAIN leaves :
             /\ place[node[dev[j]]] \in Enclosure
             /\ s = Slot(<<"ses", place[node[dev[j]]]>>, ident[j], j)
      BY <1>6, <2>2 DEF Slots, SesSlots
    <3>2. j = i
      BY <1>4, <2>2, <3>1 DEF Slot
    <3>3. QED
      BY <1>1, <1>2, <3>1, <3>2
  <2>3. Matches(idOf[d], Slots(b)) = T
    <3>1. \A t \in T : t.serial = idOf[d].serial /\ t.wwn = idOf[d].wwn
      BY <1>1 DEF Slot
    <3>2. T = {} \/ Sole(T)
      BY DEF Sole
    <3> HIDE DEF T
    <3>3. QED
      BY <1>1, <2>1, <2>2, <3>1, <3>2, OnlyMatch
  <2>4. Home(b, d) = IF place[d] \in Enclosure THEN own.key ELSE None
    BY <1>1, <1>2, <1>6 DEF Home, Slot
  <2>5. QED
    BY <1>1, <2>3, <2>4 DEF OnlyAt
<1>7. CASE b = "ledctl"
  <2> DEFINE own == Slot(<<"ledctl", dev[i]>>, ident[i], i)
  <2>1. {own} \subseteq Slots(b)
    BY <1>2, <1>7 DEF Slots, LedctlSlots
  <2>2. ASSUME NEW s \in Slots(b),
               \/ idOf[d].serial # None /\ s.serial = idOf[d].serial
               \/ idOf[d].wwn # None /\ s.wwn = idOf[d].wwn
        PROVE  s \in {own}
    <3>1. PICK j \in DOMAIN leaves : s = Slot(<<"ledctl", dev[j]>>, ident[j], j)
      BY <1>7, <2>2 DEF Slots, LedctlSlots
    <3>2. j = i
      BY <1>4, <2>2, <3>1 DEF Slot
    <3>3. QED
      BY <3>1, <3>2
  <2>3. Matches(idOf[d], Slots(b)) = {own}
    <3>1. own.serial = idOf[d].serial /\ own.wwn = idOf[d].wwn
      BY <1>1 DEF Slot
    <3>2. Sole({own})
      BY DEF Sole
    <3> HIDE DEF own
    <3>3. QED
      BY <1>1, <2>1, <2>2, <3>1, <3>2, OnlyMatch
  <2>4. Home(b, d) = own.key
    BY <1>1, <1>7 DEF Home, Slot
  <2>5. QED
    BY <1>1, <2>3, <2>4 DEF OnlyAt
<1>8. QED
  BY <1>5, <1>6, <1>7

(* What a calm step leaves of the machine gives every drive the same name, *)
(* identity and home as before.                                            *)
LEMMA SameMachine ==
    ASSUME UNCHANGED <<world, idOf>>
    PROVE  /\ \A d : LsblkOf(d)' = LsblkOf(d) /\ (Unshared(d)' <=> Unshared(d))
           /\ \A path : Target(path)' = Target(path) /\ Reached(path)' = Reached(path)
           /\ \A c, d : HomeBefore(c, d)' = HomeBefore(c, d)
           /\ Absent' = Absent
<1> USE DEF world
<1>1. \A d : LsblkOf(d)' = LsblkOf(d) /\ (Unshared(d)' <=> Unshared(d))
  BY DEF LsblkOf, Unshared
<1>2. \A path : Target(path)' = Target(path)
  BY DEF Target, LinkedTo
<1>3. \A path : Reached(path)' = Reached(path)
  BY <1>2 DEF Reached
<1>4. \A c, d : HomeBefore(c, d)' = HomeBefore(c, d)
  BY DEF HomeBefore, NodeOf
<1>5. Absent' = Absent
  BY DEF Absent, Plugged
<1>6. QED
  BY <1>1, <1>2, <1>3, <1>4, <1>5

(* The backend whose turn it is, or its failure when it is disabled, takes *)
(* a vdev that is clear from one home of its drive to the next.            *)
LEMMA BayFound ==
    ASSUME TypeOK, History, Cursor, \A j \in DOMAIN leaves : Learned(j), pc = "map",
           NEW i \in DOMAIN leaves, Clear(i), NEW d, d = Reached(leaves[i].path),
           bay[i] = HomeBefore(cursor, d),
           \/ MapBackend
           \/ Backend[cursor] \notin Enabled /\ BackendFails
    PROVE  bay'[i] = HomeBefore(cursor + 1, d)
<1>1. cursor \in DOMAIN Backend /\ Backend[cursor] \in {"storcli", "ses", "ledctl"} /\ DOMAIN bay = DOMAIN leaves
  BY BackendType, Indices DEF Cursor
<1>5. d = None \/ d \in Drive
  BY ReachedType DEF NoneOr
<1>6. \A c : HomeBefore(c, None) = None
  BY DEF HomeBefore
<1>2. CASE Backend[cursor] \notin Enabled /\ BackendFails
  BY <1>5, <1>6, <1>1, <1>2, NextHome DEF BackendFails, result
<1>3. CASE MapBackend
  <2> DEFINE S == Slots(Backend[cursor])
  <2>1. bay'[i] = Assign(i, S) /\ Backend[cursor] \in Enabled
    BY <1>3 DEF MapBackend
  <2>2. CASE bay[i] # None
    BY <1>5, <1>6, <1>1, <2>1, <2>2, NextHome DEF Assign
  <2>3. CASE bay[i] = None /\ (d = None \/ idOf[d] = Unknown)
    <3>1. ident[i] = Unknown
      BY <2>3 DEF Learned, Blank
    <3>2. ~Sole(Matches(ident[i], S))
      BY <3>1, UnknownMatchesNone DEF Sole
    <3>3. QED
      BY <1>5, <1>6, <1>1, <2>1, <2>3, <3>2, NextHome DEF Assign
  <2>4. CASE bay[i] = None /\ d # None /\ idOf[d] # Unknown
    <3>1. HomeBefore(cursor + 1, d) = Home(Backend[cursor], d)
      BY <1>5, <1>6, <1>1, <2>1, <2>4, NextHome
    <3> DEFINE M == Matches(ident[i], S)
    <3>2. OnlyAt(Home(Backend[cursor], d), M)
      BY <1>5, <1>6, <1>1, <2>4, OwnSlots
    <3>3. Assign(i, S) = IF Sole(M) THEN (CHOOSE s \in M : TRUE).key ELSE None
      BY <2>4 DEF Assign
    <3> HIDE DEF M
    <3>4. CASE M = {}
      BY <2>1, <3>1, <3>2, <3>3, <3>4 DEF Sole, OnlyAt
    <3>5. CASE M # {}
      <4>1. PICK s : M = {s} /\ s.key = Home(Backend[cursor], d)
        BY <3>2, <3>5 DEF OnlyAt
      <4>2. Sole(M) /\ (CHOOSE t \in M : TRUE) = s
        BY <4>1 DEF Sole
      <4>3. QED
        BY <2>1, <3>1, <3>3, <4>1, <4>2
    <3>6. QED
      BY <3>4, <3>5
  <2>5. QED
    BY <2>2, <2>3, <2>4
<1>4. QED
  BY <1>2, <1>3

LEMMA CalmProgressStep ==
    TypeOK /\ History /\ Cursor /\ AskedOnce /\ Spent /\ CalmProgress /\ [Next]_vars => CalmProgress'
<1> SUFFICES ASSUME TypeOK, History, Cursor, AskedOnce, Spent, CalmProgress, [Next]_vars, Calm'
             PROVE  CalmProgress'
  BY DEF CalmProgress
<1>1. Calm /\ UNCHANGED <<world, idOf>>
  BY CalmStep
<1>2. /\ \A d : LsblkOf(d)' = LsblkOf(d) /\ (Unshared(d)' <=> Unshared(d))
      /\ \A path : Target(path)' = Target(path) /\ Reached(path)' = Reached(path)
      /\ \A c, d : HomeBefore(c, d)' = HomeBefore(c, d) /\ FirstHome(d)' = FirstHome(d)
      /\ Absent' = Absent
  BY <1>1, SameMachine DEF FirstHome
<1>3. PathsNamed /\ DisksLearned /\ BaysGiven /\ pc \notin {"guids", "paths", "failed"}
  BY <1>1 DEF CalmProgress
<1>4. DOMAIN leaves \subseteq Nat /\ (pc = "udev" => cursor \in DOMAIN leaves)
  BY Indices DEF Cursor
<1>5. leaves' = leaves => PathsNamed'
  BY <1>1, <1>2, <1>3 DEF PathsNamed, world
<1>6. CASE ReadStatus
  <2>1. PICK hidden \in SUBSET Absent :
           Begin([i \in DOMAIN pool |-> [guid |-> pool[i].guid, path |-> Shown(i, hidden)]])
    BY <1>6 DEF ReadStatus
  <2>2. PathsNamed'
    BY <1>1, <1>2, <2>1 DEF PathsNamed, Begin, Shown, world
  <2>3. \A i \in DOMAIN leaves' : dev'[i] = None /\ ident'[i] = Unknown
    BY <2>1 DEF Begin
  <2>4. pc' = "lsblk" /\ cursor' = 1
    BY <1>6 DEF ReadStatus, Goto
  <2>5. \A i \in DOMAIN leaves' : LearnedSoFar(i)'
    <3>1. \A i \in DOMAIN leaves' : i >= 1
      BY <2>1, LayoutElements DEF Begin, TypeOK
    <3>2. QED
      BY <2>3, <2>4, <3>1 DEF LearnedSoFar, Blank
  <2>6. DisksLearned' /\ BaysGiven'
    BY <2>4, <2>5 DEF DisksLearned, BaysGiven
  <2>7. QED
    BY <2>2, <2>4, <2>6 DEF CalmProgress
<1>7. CASE ReadGuids \/ ReadPaths
  BY <1>3, <1>7 DEF ReadGuids, ReadPaths
<1>8. CASE ReadBlocks
  <2>1. /\ UNCHANGED <<leaves, dev, ident, idOf, node>> /\ blk' = node
        /\ pc = "lsblk" /\ pc' = "resolve" /\ cursor' = cursor
    BY <1>1, <1>3, <1>8 DEF ReadBlocks, Goto, result, world, DisksLearned
  <2>2. \A i \in DOMAIN leaves : LearnedSoFar(i)'
    BY <1>2, <1>3, <2>1 DEF DisksLearned, LearnedSoFar, Learned, Blank
  <2>3. PathsNamed' /\ DisksLearned' /\ BaysGiven'
    BY <1>5, <2>1, <2>2 DEF DisksLearned, BaysGiven
  <2>4. QED
    BY <2>1, <2>3 DEF CalmProgress
<1>9. CASE Resolve
  <2> DEFINE path == leaves[cursor].path
             n == Target(path)
  <2>1. cursor \in DOMAIN leaves /\ cursor \in Entries
    BY <1>9 DEF Resolve, Working, Entries
  <2>2. blk = node /\ \A i \in DOMAIN leaves : LearnedSoFar(i)
    BY <1>3, <1>9 DEF Resolve, DisksLearned
  <2>3. UNCHANGED <<leaves, blk, idOf, node>> /\ DOMAIN dev = DOMAIN leaves /\ DOMAIN ident = DOMAIN leaves
    BY <1>1, <1>9, Indices DEF Resolve, world
  <2>4. \A i \in Entries : i \in DOMAIN leaves /\ leaves[i].path = path
    BY DEF Entries
  <2>5. CASE Found(n)
    <3>1. n # None /\ blk[n] = Reached(path) /\ Reached(path) # None
      BY <2>2, <2>5 DEF Found, Reached
    <3> PICK d \in Drive : d = Reached(path)
      BY <3>1, ReachedType DEF NoneOr
    <3>2. dev' = Give(dev, n) /\ ident' = Give(ident, LsblkOf(d))
      BY <1>9, <2>5, <3>1 DEF Resolve
    <3>3. \A i \in Entries : dev'[i] = n /\ ident'[i] = LsblkOf(d)
      BY <2>4, <3>2 DEF Give
    <3>4. \A i \in DOMAIN leaves \ Entries : dev'[i] = dev[i] /\ ident'[i] = ident[i]
      BY <3>2 DEF Give
    <3>5. CASE Complete(LsblkOf(d))
      <4>1. LsblkOf(d) = idOf[d]
        BY <3>5 DEF Complete, LsblkOf, TypeOK, Identity
      <4>2. pc' = "resolve" /\ cursor' = cursor + 1
        BY <1>9, <2>5, <3>1, <3>5 DEF Resolve
      <4>3. ASSUME NEW i \in DOMAIN leaves PROVE LearnedSoFar(i)'
        <5>1. CASE i \in Entries
          BY <1>2, <2>3, <2>4, <3>1, <3>3, <4>1, <5>1 DEF LearnedSoFar, Learned
        <5>2. CASE i \notin Entries
          <6>1. i # cursor /\ i \in Nat /\ cursor \in Nat
            BY <1>4, <2>1, <5>2
          <6>2. QED
            BY <1>2, <2>2, <2>3, <3>4, <4>2, <5>2, <6>1 DEF LearnedSoFar, Learned, Blank
        <5>3. QED
          BY <5>1, <5>2
      <4>4. PathsNamed' /\ DisksLearned' /\ BaysGiven'
        BY <1>5, <2>2, <2>3, <4>2, <4>3 DEF DisksLearned, BaysGiven
      <4>5. QED
        BY <4>2, <4>4 DEF CalmProgress
    <3>6. CASE ~Complete(LsblkOf(d))
      <4>1. pc' = "udev" /\ cursor' = cursor
        BY <1>9, <2>5, <3>1, <3>6 DEF Resolve
      <4>2. \A i \in DOMAIN leaves \ Entries : LearnedSoFar(i)'
        BY <1>2, <2>2, <2>3, <3>4, <4>1 DEF LearnedSoFar, Learned, Blank
      <4>3. Entries' = Entries
        BY <2>3, <4>1 DEF Entries
      <4>4. /\ Reached(path) # None /\ ident'[cursor] = LsblkOf(Reached(path))
            /\ \A i \in Entries : dev'[i] = n
        BY <2>1, <3>1, <3>3
      <4>5. DisksLearned'
        BY <1>2, <2>2, <2>3, <4>1, <4>2, <4>3, <4>4 DEF DisksLearned
      <4>6. PathsNamed' /\ BaysGiven'
        BY <1>5, <2>3, <4>1 DEF BaysGiven
      <4>7. QED
        BY <4>1, <4>5, <4>6 DEF CalmProgress
    <3>7. QED
      BY <3>5, <3>6
  <2>6. CASE ~Found(n)
    <3>1. Reached(path) = None
      BY <2>2, <2>6 DEF Found, Reached
    <3>2. pc' = "resolve" /\ cursor' = cursor + 1 /\ UNCHANGED <<dev, ident>>
      BY <1>9, <2>6 DEF Resolve
    <3>3. Learned(cursor)
      BY <2>1, <2>2, <3>1 DEF LearnedSoFar, Learned
    <3>4. ASSUME NEW i \in DOMAIN leaves PROVE LearnedSoFar(i)'
      <4>1. Learned(i) \/ (i >= cursor + 1 /\ Blank(i))
        BY <1>4, <2>1, <2>2, <3>3 DEF LearnedSoFar
      <4>2. QED
        BY <1>2, <2>3, <3>2, <4>1 DEF LearnedSoFar, Learned, Blank
    <3>5. PathsNamed' /\ DisksLearned' /\ BaysGiven'
      BY <1>5, <2>2, <2>3, <3>2, <3>4 DEF DisksLearned, BaysGiven
    <3>6. QED
      BY <3>2, <3>5 DEF CalmProgress
  <2>7. QED
    BY <2>5, <2>6
<1>10. CASE Udev
  <2> DEFINE path == leaves[cursor].path
  <2>1. /\ blk = node /\ Reached(path) # None /\ ident[cursor] = LsblkOf(Reached(path))
        /\ \A i \in Entries : dev[i] = Target(path)
        /\ \A i \in DOMAIN leaves \ Entries : LearnedSoFar(i)
    BY <1>3, <1>10 DEF Udev, DisksLearned
  <2> PICK d \in Drive : d = Reached(path)
    BY <2>1, ReachedType DEF NoneOr
  <2>2. /\ UNCHANGED <<leaves, blk, dev, idOf, node>> /\ DOMAIN ident = DOMAIN leaves
        /\ pc' = "resolve" /\ cursor' = cursor + 1
    BY <1>1, <1>10, Indices DEF Udev, world
  <2>3. /\ cursor \in DOMAIN leaves /\ cursor \in Entries
        /\ \A i \in Entries : i \in DOMAIN leaves /\ leaves[i].path = path
    BY <1>4, <1>10 DEF Udev, Entries
  <2>4. node[dev[cursor]] = d /\ d # None
    BY <2>1, <2>3, ReachedType
  <2>5. Fill(ident[cursor], idOf[d]) = idOf[d]
    <3>1. idOf[d] \in Identity
      BY DEF TypeOK
    <3>2. QED
      BY <2>1, <3>1 DEF Fill, LsblkOf, Identity
  <2>6. ident' = Give(ident, idOf[d])
    BY <1>10, <2>4, <2>5 DEF Udev
  <2>7. ASSUME NEW i \in DOMAIN leaves PROVE LearnedSoFar(i)'
    <3>1. CASE i \in Entries
      <4>1. ident'[i] = idOf[d] /\ dev'[i] = Target(path)
        BY <2>1, <2>2, <2>3, <2>6, <3>1 DEF Give
      <4>2. QED
        BY <1>2, <2>1, <2>2, <2>3, <3>1, <4>1 DEF LearnedSoFar, Learned
    <3>2. CASE i \notin Entries
      <4>1. ident'[i] = ident[i] /\ i # cursor /\ i \in Nat /\ cursor \in Nat
        BY <1>4, <2>3, <2>6, <3>2 DEF Give
      <4>2. QED
        BY <1>2, <2>1, <2>2, <3>2, <4>1 DEF LearnedSoFar, Learned, Blank
    <3>3. QED
      BY <3>1, <3>2
  <2>8. PathsNamed' /\ DisksLearned' /\ BaysGiven'
    BY <1>5, <2>1, <2>2, <2>7 DEF DisksLearned, BaysGiven
  <2>9. QED
    BY <2>2, <2>8 DEF CalmProgress
<1>11. CASE Resolved
  <2>1. \A i \in DOMAIN leaves : LearnedSoFar(i)
    BY <1>3, <1>11 DEF Resolved, DisksLearned
  <2>2. /\ UNCHANGED <<leaves, dev, ident, bay, idOf, node>> /\ DOMAIN bay = DOMAIN leaves
        /\ pc' = "map" /\ cursor' = 1
    BY <1>1, <1>11, Indices DEF Resolved, Goto, result, world
  <2>3. \A i \in DOMAIN leaves : Learned(i)
    <3>1. \A i \in DOMAIN leaves : i < cursor
      <4> DEFINE Entry == [guid : Guid, path : NoneOr(Path)]
      <4>1. leaves \in Seq(Entry)
        BY DEF TypeOK
      <4> HIDE DEF Entry
      <4>2. DOMAIN leaves = 1 .. Len(leaves) /\ Len(leaves) \in Nat
        BY <4>1
      <4>3. cursor \in Nat \ {0} /\ cursor \notin DOMAIN leaves
        BY <1>11 DEF Resolved, Working, TypeOK
      <4>4. QED
        BY <4>2, <4>3
    <3>2. DOMAIN leaves \subseteq Nat /\ cursor \in Nat
      BY Indices DEF TypeOK
    <3>3. QED
      BY <2>1, <3>1, <3>2 DEF LearnedSoFar
  <2>4. \A i \in DOMAIN leaves : Learned(i)' /\ bay'[i] = None
    BY <1>2, <1>11, <2>2, <2>3 DEF Resolved, Learned, Blank, AskedOnce
  <2>5. \A d : HomeBefore(1, d)' = None
    BY <1>2 DEF HomeBefore
  <2>6. PathsNamed' /\ DisksLearned' /\ BaysGiven'
    BY <1>5, <2>2, <2>4, <2>5 DEF DisksLearned, BaysGiven
  <2>7. QED
    BY <2>2, <2>6 DEF CalmProgress
<1>12. CASE MapBackend \/ (pc = "map" /\ Backend[cursor] \notin Enabled /\ BackendFails)
  <2>1. pc = "map" /\ cursor \in {1, 2, 3} /\ Len(Backend) = 3 /\ DOMAIN bay = DOMAIN leaves
    BY <1>12, Indices DEF MapBackend, Cursor, Backend
  <2>2. /\ \A i \in DOMAIN leaves : Learned(i)
        /\ \A i \in DOMAIN leaves : Clear(i) => bay[i] = HomeBefore(cursor, Reached(leaves[i].path))
    BY <1>3, <2>1 DEF DisksLearned, BaysGiven
  <2>3. UNCHANGED <<leaves, dev, ident, idOf, node>>
    BY <1>1, <1>12 DEF MapBackend, BackendFails, result, world
  <2>4. \/ pc' = "map" /\ cursor' = cursor + 1 /\ cursor # 3
        \/ pc' = "done" /\ cursor = 3
    BY <1>12, <2>1 DEF MapBackend, BackendFails, Advance, Goto
  <2>5. ASSUME NEW i \in DOMAIN leaves, Clear(i)
        PROVE  bay'[i] = HomeBefore(cursor + 1, Reached(leaves[i].path))
    BY <1>12, <2>1, <2>2, <2>5, BayFound
  <2>6. \A i \in DOMAIN leaves : Learned(i)'
    BY <1>2, <2>2, <2>3 DEF Learned, Blank
  <2>7. \A i \in DOMAIN leaves : Clear(i)' <=> Clear(i)
    BY <1>2, <2>3 DEF Clear, Alone
  <2>8. BaysGiven'
    <3> SUFFICES ASSUME NEW i \in DOMAIN leaves, Clear(i)
                 PROVE  bay'[i] = IF pc' = "map" THEN HomeBefore(cursor', Reached(leaves[i].path))
                                  ELSE FirstHome(Reached(leaves[i].path))
      BY <1>2, <2>3, <2>7 DEF BaysGiven
    <3>1. QED
      BY <2>1, <2>4, <2>5 DEF FirstHome
  <2>9. PathsNamed' /\ DisksLearned'
    BY <1>5, <2>3, <2>4, <2>6 DEF DisksLearned
  <2>10. QED
    BY <2>4, <2>8, <2>9 DEF CalmProgress
<1>13. CASE UNCHANGED vars
  <2>1. UNCHANGED <<leaves, pc, cursor, blk, dev, ident, bay, idOf, node>>
    BY <1>13 DEF vars, world, result
  <2>2. /\ \A i : (Learned(i)' <=> Learned(i)) /\ (LearnedSoFar(i)' <=> LearnedSoFar(i))
        /\ \A i : Clear(i)' <=> Clear(i)
        /\ Entries' = Entries
    BY <1>2, <2>1 DEF LearnedSoFar, Learned, Blank, Clear, Alone, Entries
  <2>3. DisksLearned'
    BY <1>2, <1>3, <2>1, <2>2 DEF DisksLearned
  <2>4. BaysGiven'
    BY <1>2, <1>3, <2>1, <2>2 DEF BaysGiven
  <2>5. QED
    BY <1>3, <1>5, <2>1, <2>3, <2>4 DEF CalmProgress
<1>14. QED
  BY <1>6, <1>7, <1>8, <1>9, <1>10, <1>11, <1>12, <1>13, CalmStep DEF Step

-----------------------------------------------------------------------------
LEMMA InitIInv == Init => IInv
<1> SUFFICES ASSUME Init PROVE IInv
  OBVIOUS
<1> USE DEF Init
<1>1. PICK s \in Start : node = s.node /\ place = s.place /\ name = s.name
  OBVIOUS
<1>2. node \in [Node -> NoneOr(Drive)] /\ place \in [Drive -> NoneOr(Place)] /\ name \in [Guid -> Path]
  BY <1>1, StartAssumption DEF Wiring
<1>3. TypeOK
  BY <1>2, LimitAssumption, DriveAssumption DEF TypeOK, NoneOr, Present
<1>4. History
  <2>1. Injective(node) /\ Injective(place) /\ \A g \in Guid : name[g] \in Drive => name[g] = DriveOf[g]
    BY <1>1, StartAssumption
  <2>2. \A x \in told : \E g \in Guid : x = <<g, name[g]>>
    OBVIOUS
  <2>3. \A n \in Node : blk[n] = None
    OBVIOUS
  <2>4. Present(node, place) \subseteq been /\ \A g \in Guid : <<g, name[g]>> \in told
    OBVIOUS
  <2>5. \A x \in told : x[2] \in Drive => x[2] = DriveOf[x[1]]
    BY <2>1, <2>2
  <2> HIDE DEF Init
  <2>6. QED
    BY <2>1, <2>3, <2>4, <2>5 DEF History
<1>5. PathsNamed
  BY DEF PathsNamed
<1>6. Spent /\ CalmProgress
  <2>1. \A k \in Trouble : Limit[k] \in Nat
    BY LimitAssumption
  <2>2. QED
    BY <1>5, <2>1 DEF Spent, CalmProgress, DisksLearned, BaysGiven
<1>7. QED
  BY <1>3, <1>4, <1>6 DEF IInv, Cursor, Grounded, AskedOnce, OwnBay, UniqueBay

(* No order of the steps, failures and changes breaks the invariant.       *)
THEOREM Invariance == Spec => []IInv
<1>1. IInv /\ [Next]_vars => IInv'
  BY TypeStep, HistoryStep, CursorStep, GroundedStep, AskedOnceStep, BayStep, SpentStep,
     CalmProgressStep DEF IInv
<1>2. QED
  BY <1>1, InitIInv, PTL DEF Spec

(* Every variable keeps its type.                                          *)
THEOREM TypeCorrect == Spec => []TypeOK
<1>1. IInv => TypeOK
  BY DEF IInv
<1>2. QED
  BY <1>1, Invariance, PTL

(* A vdev is given a bay only where its own drive was, unless one of the   *)
(* four confusions happens (Service.Map on what Discover found).           *)
THEOREM BaysAreOwn == Spec => []OwnBay
<1>1. IInv => OwnBay
  BY DEF IInv
<1>2. QED
  BY <1>1, Invariance, PTL

(* Vdevs on different drives are not given one bay.                        *)
THEOREM BaysAreUnique == Spec => []UniqueBay
<1>1. IInv => UniqueBay
  BY DEF IInv
<1>2. QED
  BY <1>1, Invariance, PTL

(* A discovery during which nothing fails or changes gives a vdev the bay  *)
(* of the first backend that sees the drive its path leads to, and none    *)
(* when it leads nowhere (Discover, Resolve, Service.Map).                 *)
THEOREM CalmIsExact == Spec => []CalmDiscoveryIsExact
<1>1. ASSUME IInv PROVE CalmDiscoveryIsExact
  <2> SUFFICES ASSUME pc = "done", Calm, NEW i \in DOMAIN leaves, Clear(i)
               PROVE  \/ bay[i] = FirstHome(Reached(name[leaves[i].guid]))
                      \/ bay[i] = None /\ leaves[i].guid \in Absent
    BY DEF CalmDiscoveryIsExact
  <2>1. bay[i] = FirstHome(Reached(leaves[i].path))
    BY <1>1 DEF IInv, CalmProgress, BaysGiven
  <2>2. \/ leaves[i].path = name[leaves[i].guid]
        \/ leaves[i].path = None /\ leaves[i].guid \in Absent
    BY <1>1 DEF IInv, CalmProgress, PathsNamed
  <2>3. FirstHome(Reached(None)) = None
    BY <1>1, TargetType DEF IInv, Reached, FirstHome, HomeBefore
  <2>4. QED
    BY <2>1, <2>2, <2>3
<1>2. QED
  BY <1>1, Invariance, PTL
=============================================================================
