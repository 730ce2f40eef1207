----------------------------- MODULE Automation -----------------------------
(***************************************************************************)
(* The fault-LED automation of zfs-pay: the helper zfs-pay-zed, which ZED  *)
(* and systemd start as separate processes, one per request.  A helper     *)
(* reads the pool health and the enclosure map WITHOUT the state lock      *)
(* (engine.discover), then takes the flock of the state file, loads it,    *)
(* switches locate LEDs one at a time and commits the state at the end     *)
(* (Store.Update).  The LEDs are hardware: a section that fails half way   *)
(* keeps what it did to them and loses what it recorded.                   *)
(*                                                                         *)
(* The state file is atomic here (loaded, replaced or quarantined in one   *)
(* step); module StateStore opens that box.  A --dry-run helper changes    *)
(* nothing and is left out, and so are events without ZEVENT_EID.          *)
(***************************************************************************)
EXTENDS Integers, FiniteSets

CONSTANTS
    Guid,        \* leaf vdevs, numbered in the string order of their GUIDs
    Bay,         \* drive bays, numbered in the string order of managedKey
    Proc,        \* slots for helpers that run at the same time
    Health,      \* the vdev states used, of AllHealth
    None,        \* no vdev, no bay, not in the pool
    Corrupt,     \* a state file loadUnlocked calls malformed
    InitHealth,  \* health at the start: None when not a pool member
    InitBay,     \* the bay each drive is in at the start, or None
    Limit        \* how often each kind of Kind may happen in a behaviour

AllHealth == {"ONLINE", "DEGRADED", "FAULTED", "UNAVAIL", "REMOVED", "OFFLINE",
              "AVAIL", "INUSE", "UNKNOWN"}
Kind == {"change", "move", "topology", "request", "cleanup", "locate",
         "duplicate", "outage", "fail", "kill", "corrupt", "unsynced", "reboot",
         "disturbance"}
NoneOr(S) == S \cup {None}

ASSUME GuidAssumption   == Guid \subseteq Nat
ASSUME BayAssumption    == Bay \subseteq Nat
ASSUME NoneAssumption   == /\ None \notin Guid /\ None \notin Bay
                           /\ None \notin Proc /\ None \notin AllHealth
ASSUME HealthAssumption == Health \subseteq AllHealth /\ "ONLINE" \in Health
ASSUME InitAssumption   == /\ InitHealth \in [Guid -> NoneOr(Health)]
                           /\ InitBay \in [Guid -> NoneOr(Bay)]
ASSUME LimitAssumption  == Limit \in [Kind -> Nat]

(* state.Data: the cache of bays, the LEDs zfs-pay owns, and for each vdev  *)
(* the id of the last event that was applied (0: none).                    *)
Data == [mappings : [Guid -> NoneOr(Bay)],
         managed  : [Bay -> NoneOr(Guid)],
         last     : [Guid -> Nat]]
NewData == [mappings |-> [g \in Guid |-> None],
            managed  |-> [b \in Bay |-> None],
            last     |-> [g \in Guid |-> 0]]
ASSUME CorruptAssumption == Corrupt \notin Data

(* What starts a helper: the statechange zedlet runs "event" with the      *)
(* vdev, its state and the event id; the other zedlets and the boot        *)
(* service run "reconcile"; the package's prerm runs "cleanup".            *)
Request == [mode : {"event", "reconcile", "cleanup"},
            guid : NoneOr(Guid), state : NoneOr(Health), id : Nat]
Event(g, h, n)   == [mode |-> "event", guid |-> g, state |-> h, id |-> n]
ReconcileRequest == [mode |-> "reconcile", guid |-> None, state |-> None, id |-> 0]
CleanupRequest   == [mode |-> "cleanup", guid |-> None, state |-> None, id |-> 0]

VARIABLES
    health,    \* [Guid -> NoneOr(Health)]: what zpool reports now
    bayOf,     \* [Guid -> NoneOr(Bay)]: where the drive is now
    lit,       \* the bays whose locate LED is lit
    hand,      \* [Bay -> Nat]: how many "zfs-pay locate" wait to darken it
    queue,     \* requests ZED and systemd have not started yet
    nextId,    \* the next event id of the ZFS kernel module
    file,      \* the state file: Data or Corrupt (absent is NewData)
    synced,    \* the state file a power loss may leave instead
    lock,      \* the helper that holds the flock, or None
    pc,        \* [Proc -> Step]
    req,       \* [Proc -> Request]: what the helper was started for
    snapH,     \* [Proc -> health it discovered]
    snapB,     \* [Proc -> bays it mapped]
    data,      \* [Proc -> Data]: the callback's copy of the state
    todo,      \* [Proc -> set of vdevs it has not treated yet]
    touched,   \* history: bays whose LED the open section commanded last
    verified,  \* history: pairs <<g, b>> an enclosure map has shown
    suspect,   \* history: bays an aborted section, a lost file or a
               \* "zfs-pay locate" left unknown, or a power loss changed
    budget     \* [Kind -> Nat]: what Limit leaves

Step == {"idle", "discover", "map", "lock", "apply"}
NoHealth == [g \in Guid |-> None]

world   == <<health, bayOf, hand>>
process == <<pc, req, snapH, snapB, data, todo, touched>>
vars    == <<health, bayOf, lit, hand, queue, nextId, file, synced, lock, pc, req, snapH,
             snapB, data, todo, touched, verified, suspect, budget>>

TypeOK ==
    /\ health \in [Guid -> NoneOr(Health)]
    /\ bayOf \in [Guid -> NoneOr(Bay)]
    /\ lit \subseteq Bay
    /\ hand \in [Bay -> Nat]
    /\ queue \subseteq Request
    /\ nextId \in Nat
    /\ {file, synced} \subseteq Data \cup {Corrupt}
    /\ lock \in NoneOr(Proc)
    /\ pc \in [Proc -> Step]
    /\ req \in [Proc -> Request]
    /\ snapH \in [Proc -> [Guid -> NoneOr(Health)]]
    /\ snapB \in [Proc -> [Guid -> NoneOr(Bay)]]
    /\ data \in [Proc -> Data]
    /\ todo \in [Proc -> SUBSET Guid]
    /\ touched \in [Proc -> SUBSET Bay]
    /\ verified \subseteq Guid \X Bay
    /\ suspect \subseteq Bay
    /\ budget \in [Kind -> Nat]

Init ==
    /\ health = InitHealth
    /\ bayOf = InitBay
    /\ lit = {}
    /\ hand = [b \in Bay |-> 0]
    /\ queue = {}
    /\ nextId = 1
    /\ file = NewData
    /\ synced = NewData
    /\ lock = None
    /\ pc = [p \in Proc |-> "idle"]
    /\ req = [p \in Proc |-> ReconcileRequest]
    /\ snapH = [p \in Proc |-> NoHealth]
    /\ snapB = [p \in Proc |-> NoHealth]
    /\ data = [p \in Proc |-> NewData]
    /\ todo = [p \in Proc |-> {}]
    /\ touched = [p \in Proc |-> {}]
    /\ verified = {}
    /\ suspect = {}
    /\ budget = Limit

(* Every kind but "change" counts as a "disturbance" as well.              *)
Spend(k) ==
    /\ budget[k] > 0
    /\ IF k = "change" THEN budget' = [budget EXCEPT ![k] = @ - 1]
       ELSE /\ budget["disturbance"] > 0
            /\ budget' = [budget EXCEPT ![k] = @ - 1, !["disturbance"] = @ - 1]

-----------------------------------------------------------------------------
(* Decisions of the engine.                                                *)

OnStates == {"DEGRADED", "FAULTED", "UNAVAIL", "REMOVED"}
ActionFor(h) == IF h \in OnStates THEN "on"
                ELSE IF h = "ONLINE" THEN "off" ELSE "ignore"

(* Wrong on purpose: the state in the event wins.                          *)
ActionByEvent(p, g) == IF req[p].mode = "event" THEN ActionFor(req[p].state)
                       ELSE ActionFor(snapH[p][g])
(* The state the helper discovered wins over the state in the event, which *)
(* only serves a vdev that is no longer in any pool.                       *)
Action(p, g) == IF snapH[p][g] # None THEN ActionFor(snapH[p][g])
                ELSE ActionFor(req[p].state)

(* Wrong on purpose: the cache is rebuilt from the vdevs mapped now.       *)
RebuildMappings(p, d) ==
    [d EXCEPT !.mappings = [g \in {x \in Guid : snapB[p][x] # None} |-> snapB[p][g]]]
(* A vdev whose bay was mapped now replaces its cached bay.                *)
RefreshMappings(p, d) ==
    [d EXCEPT !.mappings = [g \in Guid |-> IF snapB[p][g] # None THEN snapB[p][g]
                                           ELSE d.mappings[g]]]

(* Wrong on purpose: any cached mapping serves a missing disk.             *)
TargetAnyBay(p, g) ==
    IF snapB[p][g] # None THEN snapB[p][g]
    ELSE IF \A o \in Guid : data[p].mappings[o] = None THEN None
    ELSE data[p].mappings[CHOOSE o \in Guid : data[p].mappings[o] # None]
TargetBay(p, g) == IF snapB[p][g] # None THEN snapB[p][g] ELSE data[p].mappings[g]

(* The vdev's bay is known and not recorded for another vdev.              *)
Usable(p, g) == /\ TargetBay(p, g) # None
                /\ data[p].managed[TargetBay(p, g)] \in {None, g}

(* Wrong on purpose: a fingerprint that leaves the event id out; a check   *)
(* that is forgotten.                                                      *)
DuplicateOfAny(r, d) == r.mode = "event" /\ d.last[r.guid] # 0
DuplicateUnseen(r, d) == FALSE
Duplicate(r, d) == r.mode = "event" /\ d.last[r.guid] = r.id

(* The vdevs the section will treat, in the order of their GUIDs.          *)
Relevant(p, g) == Action(p, g) # "ignore"
Worklist(p, d) ==
    {g \in Guid : /\ \/ req[p].mode = "reconcile" /\ snapH[p][g] # None
                     \/ req[p].mode = "event" /\ g = req[p].guid /\ ~Duplicate(req[p], d)
                  /\ Relevant(p, g)}

Turn(p, g) == g \in todo[p] /\ \A o \in todo[p] : g <= o
Least(b, S) == b \in S /\ \A o \in S : b <= o

(* Wrong on purpose: only the LED of the bay the vdev is cached in now.    *)
ManagedKeysOfMapping(d, g) == {b \in Bay : d.managed[b] = g /\ d.mappings[g] = b}
ManagedKeys(d, g) == {b \in Bay : d.managed[b] = g}

(* The recorded LEDs to switch off now: managedKeys of the vdev whose turn *)
(* it is, or every record for cleanup.                                     *)
Clearing(p) ==
    {b \in Bay : /\ data[p].managed[b] # None
                 /\ \/ req[p].mode = "cleanup"
                    \/ \E g \in Guid : /\ Turn(p, g)
                                       /\ Action(p, g) = "off"
                                       /\ b \in ManagedKeys(data[p], g)}

Record(d, b, g) == [d EXCEPT !.managed[b] = g]

(* Wrong on purpose: the fingerprint of the event replaces all others.     *)
CommitOneEvent(p) ==
    IF req[p].mode = "event"
    THEN [data[p] EXCEPT !.last = [g \in Guid |-> IF g = req[p].guid THEN req[p].id ELSE 0]]
    ELSE data[p]
(* Store.Update commits after every successful callback; an event also     *)
(* leaves its fingerprint (for a duplicate, the one already there).        *)
Commit(p) == IF req[p].mode = "event"
             THEN [data[p] EXCEPT !.last[req[p].guid] = req[p].id]
             ELSE data[p]

Loaded == IF file = Corrupt THEN NewData ELSE file

-----------------------------------------------------------------------------
(* The world: disks, operators, ZED, the machine.                          *)

StateChange(g, h) ==
    /\ health[g] # None
    /\ health[g] # h
    /\ Spend("change")
    /\ health' = [health EXCEPT ![g] = h]
    /\ queue' = queue \cup {Event(g, h, nextId)}
    /\ nextId' = nextId + 1
    /\ UNCHANGED <<bayOf, hand, lit, file, synced, lock, process, verified, suspect>>

(* A drive is pulled or put into a free bay; zpool may not notice.         *)
MoveDisk(g, b) ==
    /\ b # bayOf[g]
    /\ b = None \/ \A o \in Guid : bayOf[o] # b
    /\ Spend("move")
    /\ bayOf' = [bayOf EXCEPT ![g] = b]
    /\ UNCHANGED <<health, hand, lit, queue, nextId, file, synced, lock, process, verified,
                   suspect>>

(* zpool detach runs no zedlet of this package.                            *)
Detach(g) ==
    /\ health[g] # None
    /\ Spend("topology")
    /\ health' = [health EXCEPT ![g] = None]
    /\ UNCHANGED <<bayOf, hand, lit, queue, nextId, file, synced, lock, process, verified, suspect>>

Attach(g) ==
    /\ health[g] = None
    /\ Spend("topology")
    /\ health' = [health EXCEPT ![g] = "ONLINE"]
    /\ queue' = queue \cup {ReconcileRequest}
    /\ UNCHANGED <<bayOf, hand, lit, nextId, file, synced, lock, process, verified, suspect>>

(* The zedlets of pool_import and vdev_clear, or the operator.             *)
RequestReconcile ==
    /\ Spend("request")
    /\ queue' = queue \cup {ReconcileRequest}
    /\ UNCHANGED <<world, lit, nextId, file, synced, lock, process, verified, suspect>>

(* The package is removed, or the operator runs the cleanup.               *)
RequestCleanup ==
    /\ Spend("cleanup")
    /\ queue' = queue \cup {CleanupRequest}
    /\ UNCHANGED <<world, lit, nextId, file, synced, lock, process, verified, suspect>>

(* The file becomes unreadable, or another version's.                      *)
CorruptFile ==
    /\ file # Corrupt
    /\ Spend("corrupt")
    /\ file' = Corrupt
    /\ synced' = Corrupt
    /\ suspect' = suspect \cup lit
    /\ UNCHANGED <<world, lit, queue, nextId, lock, process, verified>>

Idle(p) ==
    /\ pc' = [pc EXCEPT ![p] = "idle"]
    /\ req' = [req EXCEPT ![p] = ReconcileRequest]
    /\ snapH' = [snapH EXCEPT ![p] = NoHealth]
    /\ snapB' = [snapB EXCEPT ![p] = NoHealth]
    /\ data' = [data EXCEPT ![p] = NewData]
    /\ todo' = [todo EXCEPT ![p] = {}]
    /\ touched' = [touched EXCEPT ![p] = {}]

(* Every helper dies, events are lost, event ids restart; the boot service *)
(* asks for a reconcile.  A power loss may undo a commit that is not       *)
(* synced, and leave enclosures dark.                                      *)
Reboot ==
    /\ Spend("reboot")
    /\ queue' = {ReconcileRequest}
    /\ nextId' = 1
    /\ lock' = None
    /\ file' \in {file, synced}
    /\ synced' = file'
    /\ lit' \in SUBSET lit
    /\ suspect' = suspect \cup (lit \ lit')
                      \cup {b \in Bay : Loaded'.managed[b] # Loaded.managed[b]}
                      \cup UNION {touched[p] : p \in Proc}
    /\ pc' = [p \in Proc |-> "idle"]
    /\ req' = [p \in Proc |-> ReconcileRequest]
    /\ snapH' = [p \in Proc |-> NoHealth]
    /\ snapB' = [p \in Proc |-> NoHealth]
    /\ data' = [p \in Proc |-> NewData]
    /\ todo' = [p \in Proc |-> {}]
    /\ touched' = [p \in Proc |-> {}]
    /\ hand' = [b \in Bay |-> 0]
    /\ UNCHANGED <<health, bayOf, verified>>

(* "zfs-pay locate" (module ManualLocate) commands the LED of the bay it   *)
(* found for a disk, which may have left it, with no lock and no record.   *)
ByHand(b) ==
    /\ suspect' = suspect \cup {b}
    /\ touched' = [p \in Proc |-> touched[p] \ {b}]
    /\ UNCHANGED <<health, bayOf, queue, nextId, file, synced, lock, pc, req, snapH, snapB, data,
                   todo, verified>>

LocateByHand(b) ==
    /\ Spend("locate")
    /\ \/ lit' = lit \cup {b} /\ hand' = [hand EXCEPT ![b] = @ + 1]
       \/ lit' = lit \ {b} /\ UNCHANGED hand
    /\ ByHand(b)

(* Its timer fires or it is interrupted; then it may fail, or be killed.   *)
LocateEnds(b) ==
    /\ hand[b] > 0
    /\ hand' = [hand EXCEPT ![b] = @ - 1]
    /\ \/ lit' = lit \ {b} /\ UNCHANGED budget
       \/ lit' \in {lit, lit \ {b}} /\ Spend("fail")
    /\ ByHand(b)

-----------------------------------------------------------------------------
(* One helper.                                                             *)

FirstStep(r) == CASE r.mode = "cleanup" -> "lock"
                  [] r.mode = "event" /\ ActionFor(r.state) = "ignore" -> "idle"
                  [] OTHER -> "discover"

(* ZED may deliver an event again: the request then stays in the queue.    *)
Accept(p, r) ==
    /\ pc[p] = "idle"
    /\ r \in queue
    /\ \/ queue' = queue \ {r} /\ UNCHANGED budget
       \/ queue' = queue /\ r.mode = "event" /\ Spend("duplicate")
    /\ pc' = [pc EXCEPT ![p] = FirstStep(r)]
    /\ req' = [req EXCEPT ![p] = IF FirstStep(r) = "idle" THEN @ ELSE r]
    /\ UNCHANGED <<world, lit, nextId, file, synced, lock, snapH, snapB, data, todo, touched,
                   verified, suspect>>

Discover(p) ==
    /\ pc[p] = "discover"
    /\ snapH' = [snapH EXCEPT ![p] = health]
    /\ pc' = [pc EXCEPT ![p] = "map"]
    /\ UNCHANGED <<world, lit, queue, nextId, file, synced, lock, req, snapB, data, todo,
                   touched, verified, suspect, budget>>

DiscoverFails(p) ==
    /\ pc[p] = "discover"
    /\ Spend("outage")
    /\ Idle(p)
    /\ UNCHANGED <<world, lit, queue, nextId, file, synced, lock, verified, suspect>>

(* Only a drive whose identity resolves and matches one slot gets its bay. *)
MapBays(p) ==
    /\ pc[p] = "map"
    /\ \E seen \in SUBSET Guid :
         /\ IF seen = Guid THEN UNCHANGED budget ELSE Spend("outage")
         /\ snapB' = [snapB EXCEPT ![p] =
                [g \in Guid |-> IF g \in seen /\ snapH[p][g] # None THEN bayOf[g] ELSE None]]
    /\ verified' = verified \cup {x \in Guid \X Bay : snapB'[p][x[1]] = x[2]}
    /\ pc' = [pc EXCEPT ![p] = "lock"]
    /\ UNCHANGED <<world, lit, queue, nextId, file, synced, lock, req, snapH, data, todo,
                   touched, suspect>>

(* Wrong on purpose: nobody waits for the lock.                            *)
FlockIgnored == TRUE
FlockFree == lock = None

(* flock, loadUnlocked, quarantine of a malformed file, refreshMappings    *)
(* and the checks that come before the first LED command.                  *)
Lock(p) ==
    /\ pc[p] = "lock"
    /\ FlockFree
    /\ lock' = p
    /\ file' = Loaded
    /\ data' = [data EXCEPT ![p] = IF req[p].mode = "cleanup" THEN Loaded
                                   ELSE RefreshMappings(p, Loaded)]
    /\ todo' = [todo EXCEPT ![p] = Worklist(p, Loaded)]
    /\ pc' = [pc EXCEPT ![p] = "apply"]
    /\ UNCHANGED <<world, lit, queue, nextId, synced, req, snapH, snapB, touched, verified,
                   suspect, budget>>

SwitchOff(p, b) ==
    /\ pc[p] = "apply"
    /\ Least(b, Clearing(p))
    /\ lit' = lit \ {b}
    /\ data' = [data EXCEPT ![p] = Record(@, b, None)]
    /\ touched' = [touched EXCEPT ![p] = @ \cup {b}]
    /\ UNCHANGED <<world, queue, nextId, file, synced, lock, pc, req, snapH, snapB, todo,
                   verified, suspect, budget>>

(* The vdev needs nothing more: all its records are cleared, or its LED is *)
(* already recorded as lit.                                                *)
Treated(p, g) ==
    /\ pc[p] = "apply"
    /\ Turn(p, g)
    /\ \/ Action(p, g) = "off" /\ Clearing(p) = {}
       \/ /\ Action(p, g) = "on"
          /\ TargetBay(p, g) # None
          /\ data[p].managed[TargetBay(p, g)] = g
    /\ todo' = [todo EXCEPT ![p] = @ \ {g}]
    /\ UNCHANGED <<world, lit, queue, nextId, file, synced, lock, pc, req, snapH, snapB, data,
                   touched, verified, suspect, budget>>

Lightable(p, g, b) ==
    /\ Turn(p, g)
    /\ Action(p, g) = "on"
    /\ b = TargetBay(p, g)
    /\ b # None
    /\ data[p].managed[b] = None

SwitchOn(p, g, b) ==
    /\ pc[p] = "apply"
    /\ Lightable(p, g, b)
    /\ lit' = lit \cup {b}
    /\ data' = [data EXCEPT ![p] = Record(@, b, g)]
    /\ touched' = [touched EXCEPT ![p] = @ \cup {b}]
    /\ todo' = [todo EXCEPT ![p] = @ \ {g}]
    /\ UNCHANGED <<world, queue, nextId, file, synced, lock, pc, req, snapH, snapB, verified,
                   suspect, budget>>

(* Wrong on purpose: an error path that keeps the flock.                   *)
AbortLocked(p, bays) ==
    /\ Idle(p)
    /\ UNCHANGED lock
    /\ suspect' = suspect \cup touched[p] \cup bays
(* The section ends without a commit: what it did to the LEDs of `bays`    *)
(* stays, what it recorded is lost.                                        *)
Abort(p, bays) ==
    /\ Idle(p)
    /\ lock' = IF lock = p THEN None ELSE lock
    /\ suspect' = suspect \cup touched[p] \cup bays

(* applyAction returns an error: no bay is known for the vdev, or the bay  *)
(* is recorded for another one.                                            *)
Refuse(p, g) ==
    /\ pc[p] = "apply"
    /\ Turn(p, g)
    /\ Action(p, g) = "on"
    /\ ~Usable(p, g)
    /\ Abort(p, {})
    /\ UNCHANGED <<world, lit, queue, nextId, file, synced, verified, budget>>

(* The LED command errs or times out, with or without its effect.          *)
LocateFails(p, b) ==
    /\ pc[p] = "apply"
    /\ \/ Least(b, Clearing(p)) /\ lit' \in {lit, lit \ {b}}
       \/ /\ \E g \in Guid : Lightable(p, g, b)
          /\ lit' \in {lit, lit \cup {b}}
    /\ Spend("fail")
    /\ Abort(p, {b})
    /\ UNCHANGED <<world, queue, nextId, file, synced, verified>>

Done(p) == /\ pc[p] = "apply"
           /\ todo[p] = {}
           /\ Clearing(p) = {}

(* writeUnlocked replaces the file; its directory may then not open, which *)
(* is no error, or not sync, with which the helper ends.                   *)
Save(p) ==
    /\ Done(p)
    /\ file' = Commit(p)
    /\ \/ synced' = file' /\ UNCHANGED budget
       \/ UNCHANGED synced /\ Spend("unsynced")
    /\ suspect' = suspect \ touched[p]
    /\ Idle(p)
    /\ lock' = None
    /\ UNCHANGED <<world, lit, queue, nextId, verified>>

(* writeUnlocked fails before the rename.                                  *)
SaveFails(p) ==
    /\ Done(p)
    /\ Spend("fail")
    /\ Abort(p, {})
    /\ UNCHANGED <<world, lit, queue, nextId, file, synced, verified>>

Kill(p) ==
    /\ pc[p] # "idle"
    /\ Spend("kill")
    /\ Abort(p, {})
    /\ UNCHANGED <<world, lit, queue, nextId, file, synced, verified>>

-----------------------------------------------------------------------------
World ==
    \/ \E g \in Guid : \/ \E h \in Health : StateChange(g, h)
                       \/ \E b \in NoneOr(Bay) : MoveDisk(g, b)
                       \/ Detach(g)
                       \/ Attach(g)
    \/ RequestReconcile
    \/ RequestCleanup
    \/ CorruptFile
    \/ Reboot
    \/ \E b \in Bay : LocateByHand(b) \/ LocateEnds(b)

(* The steps of a helper that is left alone.                               *)
Run(p) ==
    \/ Discover(p)
    \/ MapBays(p)
    \/ Lock(p)
    \/ \E b \in Bay : SwitchOff(p, b)
    \/ \E g \in Guid : \/ Treated(p, g)
                       \/ Refuse(p, g)
                       \/ \E b \in Bay : SwitchOn(p, g, b)
    \/ Save(p)

Start(p) == \E r \in queue : Accept(p, r)

Fault(p) ==
    \/ DiscoverFails(p)
    \/ \E b \in Bay : LocateFails(p, b)
    \/ SaveFails(p)
    \/ Kill(p)

Next == World \/ \E p \in Proc : Start(p) \/ Run(p) \/ Fault(p)

Spec == Init /\ [][Next]_vars

(* ZED and systemd start what they were asked to, and a started helper     *)
(* gets the processor: its commands run under timeouts and its wait for    *)
(* the lock polls every 25 ms.  Nothing is assumed of the world.           *)
FairSpec == Spec /\ \A p \in Proc : WF_vars(Start(p)) /\ WF_vars(Run(p))

-----------------------------------------------------------------------------
(* What is recorded now: by the open section, else by the file.            *)
Effective == IF lock = None THEN Loaded ELSE data[lock]

(* No LED is lit that zfs-pay has not recorded, and no record is of a dark *)
(* LED, except in the bays that an aborted section, a killed helper, a     *)
(* lost file or a power loss left unknown, or that were located since: a   *)
(* section that commits, however it interleaves with the other helpers,    *)
(* never parts the hardware and the state, and puts right what was unknown *)
(* of the bays it commands (engine.applyAction inside Store.Update).       *)
LedsMatchRecords ==
    \A b \in Bay \ suspect : b \in lit <=> Effective.managed[b] # None

(* Every bay in the state, cached or lit, whichever helper holds it, was   *)
(* seen by an enclosure map with that very vdev in it: a missing disk is   *)
(* located by a mapping verified while it was live (docs/security.md:18).  *)
Grounded(d, seen) ==
    /\ \A g \in Guid : d.mappings[g] # None => <<g, d.mappings[g]>> \in seen
    /\ \A b \in Bay : d.managed[b] # None => <<d.managed[b], b>> \in seen
VerifiedOwnership ==
    /\ \A d \in {file, synced} \ {Corrupt} : Grounded(d, verified)
    /\ \A p \in Proc : Grounded(data[p], verified)
    /\ \A p \in Proc, g \in Guid : snapB[p][g] # None => <<g, snapB[p][g]>> \in verified

(* An event whose effect is committed is never acted on again while no     *)
(* later event of that vdev is committed, even when ZED runs its copies at *)
(* the same time (engine.Handle reads LastEvents under the lock).          *)
CommittedEventIsInert ==
    [][\A p \in Proc : (touched'[p] \ touched[p] # {} /\ req[p].mode = "event")
           => Loaded.last[req[p].guid] # req[p].id]_vars

(* A reconcile that commits while the pool still is as it was discovered,  *)
(* with no bay left unknown by an earlier failure, leaves the hardware     *)
(* right: the LED of every faulted disk is lit at its bay, and no lit LED  *)
(* belongs to a disk that is ONLINE (engine.Reconcile).                    *)
ReconcileConverges ==
    [][\A p \in Proc :
         (Save(p) /\ req[p].mode = "reconcile" /\ snapH[p] = health /\ suspect \subseteq touched[p])
         => /\ \A g \in Guid : health[g] \in OnStates
                                 => TargetBay(p, g) # None /\ TargetBay(p, g) \in lit'
            /\ \A b \in Bay : b \in lit' => /\ Commit(p).managed[b] # None
                                         /\ health[Commit(p).managed[b]] # "ONLINE"]_vars

(* A commit changes only what its section answers for: the records of LEDs *)
(* it commanded, the cached bays of disks it mapped, the fingerprint of    *)
(* its event.  What other helpers committed since it discovered stays,     *)
(* unless the file was lost meanwhile; bays that a lost file, a locate by  *)
(* hand, or an aborted section or a killed helper left unknown are left    *)
(* out (the callbacks of engine.go:64-92 and 111-123 in Store.Update).     *)
CommitsKeepTheRest ==
    [][\A p \in Proc : Save(p) /\ file # Corrupt =>
         /\ \A b \in Bay \ (touched[p] \cup suspect) : file'.managed[b] = file.managed[b]
         /\ \A g \in Guid : snapB[p][g] = None => file'.mappings[g] = file.mappings[g]
         /\ \A g \in Guid : ~(req[p].mode = "event" /\ req[p].guid = g)
                               => file'.last[g] = file.last[g]]_vars

(* A helper that was started can go on, or waits for the lock of one that  *)
(* can: no disk is left that applyAction neither treats nor refuses, and   *)
(* the lock is free after every way out of the section, a kill and an      *)
(* abort included (state.go:185-202).                                      *)
NobodyIsStuck ==
    \A p \in Proc : pc[p] # "idle" =>
       \/ ENABLED Run(p)
       \/ pc[p] = "lock" /\ lock \in Proc /\ ENABLED Run(lock)

(* Nothing is left to run, and nobody locates a disk.                      *)
Quiet == /\ queue = {}
         /\ \A p \in Proc : pc[p] = "idle"
         /\ \A b \in Bay : hand[b] = 0

(* README.md:155: once every request is served, the bay of each faulted    *)
(* disk is lit.                                                            *)
QuietFaultedIsLit ==
    Quiet => \A g \in Guid : health[g] \in OnStates /\ bayOf[g] # None => bayOf[g] \in lit

(* The same for the bays nobody located by hand since the automation       *)
(* commanded them: no order of requests leaves such a disk dark, whatever  *)
(* is located elsewhere or meanwhile.                                      *)
SettledFaultedIsLit ==
    Quiet => \A g \in Guid : health[g] \in OnStates /\ bayOf[g] \notin suspect \cup {None}
                               => bayOf[g] \in lit

(* README.md:156: once every request is served, no automatic LED is lit at *)
(* the bay of a disk that is ONLINE.                                       *)
QuietOnlineIsDark ==
    Quiet => \A g \in Guid : health[g] = "ONLINE" /\ bayOf[g] # None => bayOf[g] \notin lit

(* A disk that stays faulted in its bay ends up lit, for good, unless it   *)
(* is located by hand after the automation lit it (runtime.go:185).        *)
FaultEndsLit ==
    \A g \in Guid : <>[](health[g] \in OnStates /\ bayOf[g] \notin suspect \cup {None})
                      => <>[](bayOf[g] \in lit)

(* internal/state/state.go:28: every locate LED automation lit is recorded *)
(* as managed whenever no section is open.                                 *)
LitIsRecorded == lock = None => \A b \in Bay : b \in lit => Loaded.managed[b] # None

-----------------------------------------------------------------------------
(* Why the invariants hold.                                                *)

(* Exactly the holder of the flock is inside the callback of Store.Update, *)
(* and only an open section has LED commands to answer for.                *)
Serialized ==
    /\ \A p \in Proc : pc[p] = "apply" <=> lock = p
    /\ \A p \in Proc : pc[p] # "apply" => touched[p] = {}

(* A bay the open section did not touch still is as the file says, and a   *)
(* bay it touched is as its copy of the state says, suspect or not: so an  *)
(* aborted section makes exactly its touched bays suspect, and a committed *)
(* one clears them.                                                        *)
HardwareAgrees ==
    /\ \A b \in Bay \ suspect : (\A p \in Proc : b \notin touched[p])
                                  => (b \in lit <=> Loaded.managed[b] # None)
    /\ \A p \in Proc : lock = p =>
         \A b \in Bay : (b \in touched[p] \/ b \notin suspect)
                          => (b \in lit <=> data[p].managed[b] # None)

(* An event has an id, and an open section still has a vdev to treat only  *)
(* if the file does not know its event.                                    *)
EventsAreNew ==
    /\ nextId > 0
    /\ \A r \in queue : r.mode = "event" => r.id > 0 /\ r.guid \in Guid
    /\ \A p \in Proc : pc[p] # "idle" /\ req[p].mode = "event" =>
         /\ req[p].id > 0 /\ req[p].guid \in Guid
         /\ pc[p] = "apply" /\ todo[p] # {} => Loaded.last[req[p].guid] # req[p].id

(* A reconcile has recorded what it should of every vdev it is done with.  *)
Converging ==
    \A p \in Proc : pc[p] = "apply" /\ req[p].mode = "reconcile" =>
       \A g \in Guid \ todo[p] : snapH[p][g] # None =>
          /\ Action(p, g) = "on" => /\ TargetBay(p, g) # None
                                    /\ data[p].managed[TargetBay(p, g)] = g
          /\ Action(p, g) = "off" => ManagedKeys(data[p], g) = {}

(* The copy of an open section is the file but for its own work.           *)
InHand ==
    \A p \in Proc : lock = p /\ file # Corrupt =>
       /\ data[p].last = file.last
       /\ \A g \in Guid : snapB[p][g] = None => data[p].mappings[g] = file.mappings[g]
       /\ \A b \in Bay \ (touched[p] \cup suspect) : data[p].managed[b] = file.managed[b]

(* What the file, the helpers and their LEDs know of each other at every   *)
(* step, which makes LedsMatchRecords, CommittedEventIsInert,              *)
(* ReconcileConverges and CommitsKeepTheRest hold at the next one          *)
(* (engine.go:104-146, state.go:72-93).                                    *)
IInv == /\ TypeOK /\ Serialized /\ VerifiedOwnership /\ HardwareAgrees /\ EventsAreNew
        /\ Converging /\ InHand
=============================================================================
