----------------------------- MODULE StateStore -----------------------------
(***************************************************************************)
(* The state file of zfs-pay (internal/state/state.go): processes that     *)
(* call Store.Update or Store.Read take the flock of a side file, load the *)
(* JSON, set a malformed file aside and replace the file by writing,       *)
(* syncing and renaming a temporary one.  The content of the file is the   *)
(* set of updates whose callback it holds.  A rename is seen by everybody  *)
(* at once but survives a power loss only after the directory was synced.  *)
(***************************************************************************)
EXTENDS Integers

CONSTANTS
    Proc,     \* processes
    Update,   \* the calls of Store.Update, each made once
    None,     \* no process, no call
    Limit     \* how often each kind of trouble may happen

Trouble == {"timeout", "io", "callback", "kill", "power", "damage", "read"}

ASSUME NoneAssumption  == None \notin Proc /\ None \notin Update
ASSUME LimitAssumption == Limit \in [Trouble -> Nat]

(* One state of the directory: the file at Store.Path is readable or not   *)
(* and holds the effects of ids (absent is readable and empty); saved are  *)
(* the effects in the .corrupt-* files.                                    *)
Directory == [ok : BOOLEAN, ids : SUBSET Update, saved : SUBSET Update]
Empty == [ok |-> TRUE, ids |-> {}, saved |-> {}]
Effects(d) == d.ids \cup d.saved

(* A temporary file: what was encoded into it, and whether it was synced.  *)
Temporary == [ids : SUBSET Update, synced : BOOLEAN]
NoTemporary == [ids |-> {}, synced |-> FALSE]

Step == {"idle", "wait", "load", "quarantine", "update", "create", "sync", "rename",
         "syncdir"}

VARIABLES
    dir,       \* the directory as every process sees it
    disk,      \* the directories a power loss may leave behind
    lock,      \* the process that holds the flock, or None
    pc,        \* [Proc -> Step]
    job,       \* [Proc -> the Update it makes, None when it reads]
    data,      \* [Proc -> the effects in its copy of the state]
    temp,      \* [Proc -> its temporary file]
    status,    \* [Update -> {"new", "open", "acked", "failed"}]
    volatile,  \* history: acknowledged although the directory was not synced
    late,      \* history: reported as failed after the rename
    budget     \* [Trouble -> Nat]: what Limit leaves

call == <<pc, job, data, temp>>
vars == <<dir, disk, lock, pc, job, data, temp, status, volatile, late, budget>>

TypeOK ==
    /\ dir \in Directory
    /\ disk \subseteq Directory
    /\ lock \in Proc \cup {None}
    /\ pc \in [Proc -> Step]
    /\ job \in [Proc -> Update \cup {None}]
    /\ data \in [Proc -> SUBSET Update]
    /\ temp \in [Proc -> Temporary]
    /\ status \in [Update -> {"new", "open", "acked", "failed"}]
    /\ volatile \subseteq Update
    /\ late \subseteq Update
    /\ budget \in [Trouble -> Nat]

Init ==
    /\ dir = Empty
    /\ disk = {Empty}
    /\ lock = None
    /\ pc = [p \in Proc |-> "idle"]
    /\ job = [p \in Proc |-> None]
    /\ data = [p \in Proc |-> {}]
    /\ temp = [p \in Proc |-> NoTemporary]
    /\ status = [u \in Update |-> "new"]
    /\ volatile = {}
    /\ late = {}
    /\ budget = Limit

Spend(k) == /\ budget[k] > 0
            /\ budget' = [budget EXCEPT ![k] = @ - 1]

Goto(p, step) == pc' = [pc EXCEPT ![p] = step]

-----------------------------------------------------------------------------
(* Ways out of a call: the temporary file is removed and the flock goes.   *)

(* Wrong on purpose: an error path that keeps the flock.                   *)
UnlockNever(p) == lock
Unlock(p) == IF lock = p THEN None ELSE lock

Leave(p) ==
    /\ Goto(p, "idle")
    /\ lock' = Unlock(p)
    /\ job' = [job EXCEPT ![p] = None]
    /\ data' = [data EXCEPT ![p] = {}]
    /\ temp' = [temp EXCEPT ![p] = NoTemporary]

Tell(p, outcome) ==
    status' = [u \in Update |-> IF u = job[p] THEN outcome ELSE status[u]]

Fails(p) == Leave(p) /\ Tell(p, "failed")

-----------------------------------------------------------------------------
StartUpdate(p, u) ==
    /\ pc[p] = "idle"
    /\ status[u] = "new"
    /\ status' = [status EXCEPT ![u] = "open"]
    /\ job' = [job EXCEPT ![p] = u]
    /\ Goto(p, "wait")
    /\ UNCHANGED <<dir, disk, lock, data, temp, volatile, late, budget>>

StartRead(p) ==
    /\ pc[p] = "idle"
    /\ Spend("read")
    /\ Goto(p, "wait")
    /\ UNCHANGED <<dir, disk, lock, job, data, temp, status, volatile, late>>

(* Wrong on purpose: nobody waits for the lock.                            *)
FlockIgnored == TRUE
FlockFree == lock = None

Acquire(p) ==
    /\ pc[p] = "wait"
    /\ FlockFree
    /\ lock' = p
    /\ Goto(p, "load")
    /\ UNCHANGED <<dir, disk, job, data, temp, status, volatile, late, budget>>

(* The context ends, or the lock file cannot be opened.                    *)
GiveUp(p) ==
    /\ pc[p] = "wait"
    /\ Spend("timeout")
    /\ Fails(p)
    /\ UNCHANGED <<dir, disk, volatile, late>>

(* Wrong on purpose: Store.Read recovers and writes like Store.Update.     *)
AnyCall(p) == TRUE
IsUpdate(p) == job[p] # None

Load(p) ==
    /\ pc[p] = "load"
    /\ IsUpdate(p)
    /\ Goto(p, IF dir.ok THEN "update" ELSE "quarantine")
    /\ data' = [data EXCEPT ![p] = IF dir.ok THEN dir.ids ELSE {}]
    /\ UNCHANGED <<dir, disk, lock, job, temp, status, volatile, late, budget>>

(* Store.Read: a malformed file is an error and stays where it is.         *)
Read(p) ==
    /\ pc[p] = "load"
    /\ ~IsUpdate(p)
    /\ Leave(p)
    /\ UNCHANGED <<dir, disk, status, volatile, late, budget>>

(* Wrong on purpose: the malformed file is removed.                        *)
DiscardFile == [dir EXCEPT !.ok = TRUE, !.ids = {}]
SetFileAside == [ok |-> TRUE, ids |-> {}, saved |-> dir.saved \cup dir.ids]

Quarantine(p) ==
    /\ pc[p] = "quarantine"
    /\ dir' = SetFileAside
    /\ disk' = disk \cup {SetFileAside}
    /\ Goto(p, "update")
    /\ UNCHANGED <<lock, job, data, temp, status, volatile, late, budget>>

Callback(p) ==
    /\ pc[p] = "update"
    /\ data' = [data EXCEPT ![p] = @ \cup {job[p]}]
    /\ Goto(p, "create")
    /\ UNCHANGED <<dir, disk, lock, job, temp, status, volatile, late, budget>>

(* Wrong on purpose: a failed callback is written all the same.            *)
CallbackFailsAndWrites(p) ==
    /\ pc[p] = "update"
    /\ Spend("callback")
    /\ data' = [data EXCEPT ![p] = @ \cup {job[p]}]
    /\ Goto(p, "create")
    /\ Tell(p, "failed")
    /\ UNCHANGED <<dir, disk, lock, job, temp, volatile, late>>
CallbackFails(p) ==
    /\ pc[p] = "update"
    /\ Spend("callback")
    /\ Fails(p)
    /\ UNCHANGED <<dir, disk, volatile, late>>

(* Wrong on purpose: the temporary file is not synced.                     *)
AfterEncodeRename == "rename"
AfterEncode == "sync"

(* CreateTemp, Chmod and Encode.                                           *)
WriteTemp(p) ==
    /\ pc[p] = "create"
    /\ temp' = [temp EXCEPT ![p] = [ids |-> data[p], synced |-> FALSE]]
    /\ Goto(p, AfterEncode)
    /\ UNCHANGED <<dir, disk, lock, job, data, status, volatile, late, budget>>

SyncTemp(p) ==
    /\ pc[p] = "sync"
    /\ temp' = [temp EXCEPT ![p].synced = TRUE]
    /\ Goto(p, "rename")
    /\ UNCHANGED <<dir, disk, lock, job, data, status, volatile, late, budget>>

(* A file renamed before its data is on disk may come back torn.           *)
Renamed(p) == [ok |-> TRUE, ids |-> temp[p].ids, saved |-> dir.saved]
Torn       == [ok |-> FALSE, ids |-> {}, saved |-> dir.saved]

Rename(p) ==
    /\ pc[p] = "rename"
    /\ dir' = Renamed(p)
    /\ disk' = disk \cup {Renamed(p)} \cup (IF temp[p].synced THEN {} ELSE {Torn})
    /\ temp' = [temp EXCEPT ![p] = NoTemporary]
    /\ Goto(p, "syncdir")
    /\ UNCHANGED <<lock, job, data, status, volatile, late, budget>>

SyncDir(p) ==
    /\ pc[p] = "syncdir"
    /\ disk' = {dir}
    /\ Leave(p)
    /\ Tell(p, "acked")
    /\ UNCHANGED <<dir, volatile, late, budget>>

(* os.Open(dir) failed: its error is dropped and the call succeeds.        *)
SkipSyncDir(p) ==
    /\ pc[p] = "syncdir"
    /\ Spend("io")
    /\ Leave(p)
    /\ Tell(p, "acked")
    /\ volatile' = volatile \cup {job[p]}
    /\ UNCHANGED <<dir, disk, late>>

(* The sync failed: the call fails although the file is replaced.          *)
SyncDirFails(p) ==
    /\ pc[p] = "syncdir"
    /\ Spend("io")
    /\ Fails(p)
    /\ late' = late \cup {job[p]}
    /\ UNCHANGED <<dir, disk, volatile>>

(* Any other file operation fails: reading, setting aside, the temporary   *)
(* file, the rename.                                                       *)
FileFails(p) ==
    /\ pc[p] \in {"load", "quarantine", "create", "sync", "rename"}
    /\ Spend("io")
    /\ Fails(p)
    /\ UNCHANGED <<dir, disk, volatile, late>>

-----------------------------------------------------------------------------
(* A process dies: the kernel drops its flock (the temporary file stays,   *)
(* but nothing ever reads it).                                             *)
Kill(p) ==
    /\ pc[p] # "idle"
    /\ Spend("kill")
    /\ Fails(p)
    /\ late' = IF pc[p] = "syncdir" THEN late \cup {job[p]} ELSE late
    /\ UNCHANGED <<dir, disk, volatile>>

PowerLoss ==
    /\ Spend("power")
    /\ dir' \in disk
    /\ disk' = {dir'}
    /\ lock' = None
    /\ pc' = [p \in Proc |-> "idle"]
    /\ job' = [p \in Proc |-> None]
    /\ data' = [p \in Proc |-> {}]
    /\ temp' = [p \in Proc |-> NoTemporary]
    /\ status' = [u \in Update |-> IF status[u] = "open" THEN "failed" ELSE status[u]]
    /\ late' = late \cup {job[p] : p \in {q \in Proc : pc[q] = "syncdir"}}
    /\ UNCHANGED volatile

(* Somebody else breaks the file.                                          *)
Damage ==
    /\ dir.ok
    /\ Spend("damage")
    /\ dir' = [dir EXCEPT !.ok = FALSE]
    /\ disk' = disk \cup {dir'}
    /\ UNCHANGED <<lock, call, status, volatile, late>>

Run(p) ==
    \/ Acquire(p)
    \/ Load(p)
    \/ Read(p)
    \/ Quarantine(p)
    \/ Callback(p)
    \/ WriteTemp(p)
    \/ SyncTemp(p)
    \/ Rename(p)
    \/ SyncDir(p)

Fault(p) ==
    \/ GiveUp(p)
    \/ CallbackFails(p)
    \/ FileFails(p)
    \/ SkipSyncDir(p)
    \/ SyncDirFails(p)
    \/ Kill(p)

Start(p) == StartRead(p) \/ \E u \in Update : StartUpdate(p, u)

Next == \/ \E p \in Proc : Start(p) \/ Run(p) \/ Fault(p)
        \/ PowerLoss
        \/ Damage

Spec == Init /\ [][Next]_vars

(* A call that was made gets the processor and polls the lock.             *)
FairSpec == Spec /\ \A p \in Proc : WF_vars(Run(p))

-----------------------------------------------------------------------------
Acked == {u \in Update : status[u] = "acked"}

(* Every directory a process sees or a power loss may leave behind holds   *)
(* every acknowledged update, in the file or in a .corrupt-* file, except  *)
(* those whose directory could not be opened for syncing                   *)
(* (docs/security.md:17, writeUnlocked and quarantineUnlocked).            *)
AckedSurvives ==
    \A d \in disk \cup {dir} : Acked \ volatile \subseteq Effects(d)

(* The file is malformed only after somebody else broke it: no kill, error *)
(* or power loss between the steps of a replacement tears it.              *)
NeverTorn == budget["damage"] = Limit["damage"] => \A d \in disk \cup {dir} : d.ok

(* A call that reports a failure left no effect, unless it failed or died  *)
(* between the rename and the sync of the directory.                       *)
FailureHasNoEffect ==
    \A u \in Update : status[u] = "failed" /\ u \notin late => u \notin Effects(dir)

(* Every call returns: no way out keeps the flock.                         *)
EveryCallReturns == \A p \in Proc : pc[p] # "idle" ~> pc[p] = "idle"

(* The store is an atomic register of updates: none is lost to another     *)
(* one, whatever the processes and the disk do (Store.Update).             *)
Abstract == INSTANCE AtomicState
              WITH ids <- dir.ids, ok <- dir.ok, saved <- dir.saved
Atomic == Abstract!Spec

-----------------------------------------------------------------------------
(* Why these hold.                                                         *)

Section == {"load", "quarantine", "update", "create", "sync", "rename", "syncdir"}

(* Exactly the holder of the flock is between withLock's two Flock calls.  *)
Exclusive == \A p \in Proc : pc[p] \in Section <=> lock = p

(* An update is open while exactly one process makes it.                   *)
Jobs ==
    /\ \A p \in Proc : pc[p] = "idle" => job[p] = None
    /\ \A p \in Proc : pc[p] \in Section \ {"load"} => job[p] # None
    /\ \A p \in Proc : job[p] # None => status[job[p]] = "open"
    /\ \A p, q \in Proc : job[p] = job[q] /\ job[p] # None => p = q

(* What the holder of the flock has in hand is the file plus its update,   *)
(* from the load to the rename; it renames only what it synced.            *)
InHand ==
    \A p \in Proc :
       /\ pc[p] = "quarantine" => ~dir.ok /\ data[p] = {}
       /\ pc[p] = "update" => data[p] = dir.ids
       /\ pc[p] \in {"create", "sync", "rename"} => data[p] = dir.ids \cup {job[p]}
       /\ pc[p] \in {"sync", "rename"} => temp[p].ids = data[p]
       /\ pc[p] = "rename" => temp[p].synced
       /\ pc[p] = "syncdir" => job[p] \in dir.ids

(* An effect is of an acknowledged update, of one that failed late, or of  *)
(* one that is about to be acknowledged or to fail late.                   *)
EffectsHaveOrigin ==
    \A d \in disk : \A u \in Effects(d) :
       \/ status[u] = "acked"
       \/ status[u] = "failed" /\ u \in late
       \/ status[u] = "open" /\ \E p \in Proc : job[p] = u /\ pc[p] = "syncdir"

DiskAgrees == /\ dir \in disk
              /\ \A d \in disk : Acked \ volatile \subseteq Effects(d)
              /\ budget["damage"] <= Limit["damage"]
              /\ budget["damage"] = Limit["damage"] => \A d \in disk : d.ok

(* A power loss takes effects back and never brings any.                   *)
DiskBehind == \A d \in disk : Effects(d) \subseteq Effects(dir)

(* The invariant that carries AckedSurvives, NeverTorn and                 *)
(* FailureHasNoEffect through every step of every process (state.go:60-201).*)
IInv == /\ TypeOK /\ Exclusive /\ Jobs /\ InHand
        /\ DiskAgrees /\ EffectsHaveOrigin /\ DiskBehind
=============================================================================
