-------------------------- MODULE StateStoreProofs --------------------------
(* Proofs about StateStore, for any processes, updates and troubles.       *)
EXTENDS StateStore, TLAPS

LEMMA SpendType ==
    ASSUME budget \in [Trouble -> Nat], NEW k \in Trouble, Spend(k)
    PROVE  /\ budget' \in [Trouble -> Nat]
           /\ k # "damage" => budget'["damage"] = budget["damage"]
           /\ budget'["damage"] <= budget["damage"]
BY DEF Spend, Trouble

LEMMA LeaveType ==
    ASSUME TypeOK, NEW p \in Proc, Leave(p)
    PROVE  /\ pc' \in [Proc -> Step]
           /\ lock' \in Proc \cup {None}
           /\ job' \in [Proc -> Update \cup {None}]
           /\ data' \in [Proc -> SUBSET Update]
           /\ temp' \in [Proc -> Temporary]
BY DEF TypeOK, Leave, Goto, Unlock, Step, NoTemporary, Temporary

LEMMA TellType ==
    ASSUME TypeOK, NEW p \in Proc, NEW outcome \in {"acked", "failed"}, Tell(p, outcome)
    PROVE  status' \in [Update -> {"new", "open", "acked", "failed"}]
BY DEF TypeOK, Tell

LEMMA TypeInit == Init => TypeOK
BY LimitAssumption
DEF Init, TypeOK, Empty, Directory, NoTemporary, Temporary, Step

(* Inside the section of an update there is an update.                     *)
LEMMA JobType ==
    ASSUME TypeOK, Jobs, NEW p \in Proc, pc[p] \in Section \ {"load"}
    PROVE  job[p] \in Update
BY DEF TypeOK, Jobs

LEMMA TypeStep == TypeOK /\ Jobs /\ [Next]_vars => TypeOK'
<1> SUFFICES ASSUME TypeOK, Jobs, [Next]_vars PROVE TypeOK'
  OBVIOUS
<1> USE DEF TypeOK, Goto, call
<1>1. ASSUME NEW p \in Proc, NEW u \in Update, StartUpdate(p, u) PROVE TypeOK'
  BY <1>1 DEF StartUpdate, Step
<1>2. ASSUME NEW p \in Proc, StartRead(p) PROVE TypeOK'
  <2>1. budget' \in [Trouble -> Nat]
    BY <1>2, SpendType DEF StartRead, Trouble
  <2>2. QED
    BY <1>2, <2>1 DEF StartRead, Step
<1>3. ASSUME NEW p \in Proc, Acquire(p) \/ Load(p) PROVE TypeOK'
  BY <1>3 DEF Acquire, Load, Step, Directory
<1>4. ASSUME NEW p \in Proc, Read(p) PROVE TypeOK'
  BY <1>4, LeaveType DEF Read
<1>5. ASSUME NEW p \in Proc, Quarantine(p) PROVE TypeOK'
  <2>1. SetFileAside \in Directory
    BY DEF SetFileAside, Directory
  <2>2. QED
    BY <1>5, <2>1 DEF Quarantine, Step
<1>6. ASSUME NEW p \in Proc, Callback(p) PROVE TypeOK'
  <2>1. job[p] \in Update
    BY <1>6, JobType DEF Callback, Section
  <2>2. QED
    BY <1>6, <2>1 DEF Callback, Step
<1>7. ASSUME NEW p \in Proc, WriteTemp(p) \/ SyncTemp(p) PROVE TypeOK'
  <2>1. CASE WriteTemp(p)
    <3>1. [ids |-> data[p], synced |-> FALSE] \in Temporary
      BY DEF Temporary
    <3>2. temp' \in [Proc -> Temporary] /\ pc' \in [Proc -> Step]
      BY <2>1, <3>1 DEF WriteTemp, AfterEncode, Step
    <3>3. QED
      BY <2>1, <3>2 DEF WriteTemp
  <2>2. CASE SyncTemp(p)
    <3>1. [temp[p] EXCEPT !.synced = TRUE] \in Temporary
      BY DEF Temporary
    <3>2. temp' \in [Proc -> Temporary] /\ pc' \in [Proc -> Step]
      BY <2>2, <3>1 DEF SyncTemp, Step
    <3>3. QED
      BY <2>2, <3>2 DEF SyncTemp
  <2>3. QED
    BY <1>7, <2>1, <2>2
<1>8. ASSUME NEW p \in Proc, Rename(p) PROVE TypeOK'
  <2>1. Renamed(p) \in Directory /\ Torn \in Directory
    BY DEF Renamed, Torn, Directory, Temporary
  <2>2. QED
    BY <1>8, <2>1 DEF Rename, Step, NoTemporary, Temporary
<1>9. ASSUME NEW p \in Proc, SyncDir(p) PROVE TypeOK'
  BY <1>9, LeaveType, TellType DEF SyncDir
<1>10. ASSUME NEW p \in Proc,
              GiveUp(p) \/ CallbackFails(p) \/ FileFails(p) \/ SkipSyncDir(p)
                \/ SyncDirFails(p) \/ Kill(p)
       PROVE  TypeOK'
  <2>1. budget' \in [Trouble -> Nat]
    BY <1>10, SpendType
    DEF GiveUp, CallbackFails, FileFails, SkipSyncDir, SyncDirFails, Kill, Trouble
  <2>2. Leave(p) /\ UNCHANGED dir /\ disk' = disk
    BY <1>10 DEF GiveUp, CallbackFails, FileFails, SkipSyncDir, SyncDirFails, Kill, Fails
  <2>3. status' \in [Update -> {"new", "open", "acked", "failed"}]
    BY <1>10, TellType
    DEF GiveUp, CallbackFails, FileFails, SkipSyncDir, SyncDirFails, Kill, Fails
  <2>4. pc[p] = "syncdir" => job[p] \in Update
    BY JobType DEF Section
  <2>5. volatile' \subseteq Update /\ late' \subseteq Update
    BY <1>10, <2>4
    DEF GiveUp, CallbackFails, FileFails, SkipSyncDir, SyncDirFails, Kill
  <2>6. QED
    BY <2>1, <2>2, <2>3, <2>5, LeaveType
<1>11. CASE PowerLoss
  <2>1. budget' \in [Trouble -> Nat]
    BY <1>11, SpendType DEF PowerLoss, Trouble
  <2>2. late' \subseteq Update
    BY <1>11, JobType DEF PowerLoss, Section
  <2>3. dir' \in Directory /\ disk' \subseteq Directory
    BY <1>11 DEF PowerLoss
  <2>4. QED
    BY <1>11, <2>1, <2>2, <2>3 DEF PowerLoss, Step, NoTemporary, Temporary
<1>12. CASE Damage
  <2>1. budget' \in [Trouble -> Nat]
    BY <1>12, SpendType DEF Damage, Trouble
  <2>2. dir' \in Directory
    BY <1>12 DEF Damage, Directory
  <2>3. QED
    BY <1>12, <2>1, <2>2 DEF Damage
<1>13. CASE UNCHANGED vars
  BY <1>13 DEF vars
<1>14. QED
  BY <1>1, <1>2, <1>3, <1>4, <1>5, <1>6, <1>7, <1>8, <1>9, <1>10, <1>11, <1>12, <1>13
  DEF Next, Start, Run, Fault

-----------------------------------------------------------------------------
(* The flock and who makes which update.                                   *)

LEMMA ExclusiveLeave ==
    ASSUME TypeOK, Exclusive, NEW p \in Proc, Leave(p)
    PROVE  Exclusive'
BY NoneAssumption DEF TypeOK, Exclusive, Leave, Goto, Unlock, Section

LEMMA ExclusiveStep == TypeOK /\ Exclusive /\ [Next]_vars => Exclusive'
<1> SUFFICES ASSUME TypeOK, Exclusive, [Next]_vars PROVE Exclusive'
  OBVIOUS
<1> USE DEF Goto, call
<1>1. ASSUME NEW p \in Proc, Start(p) PROVE Exclusive'
  BY <1>1 DEF Start, StartRead, StartUpdate, Exclusive, Section, TypeOK
<1>2. ASSUME NEW p \in Proc, Acquire(p) PROVE Exclusive'
  BY <1>2, NoneAssumption DEF Acquire, FlockFree, Exclusive, Section, TypeOK
<1>3. ASSUME NEW p \in Proc,
             \/ Load(p) \/ Quarantine(p) \/ Callback(p) \/ WriteTemp(p)
             \/ SyncTemp(p) \/ Rename(p)
      PROVE  Exclusive'
  <2>1. pc[p] \in Section /\ lock' = lock
    BY <1>3 DEF Load, Quarantine, Callback, WriteTemp, SyncTemp, Rename, Section
  <2>2. \E step \in Section : pc' = [pc EXCEPT ![p] = step]
    BY <1>3 DEF Load, Quarantine, Callback, WriteTemp, SyncTemp, Rename, Section, AfterEncode
  <2>3. QED
    BY <2>1, <2>2 DEF Exclusive, TypeOK
<1>4. ASSUME NEW p \in Proc, Read(p) \/ SyncDir(p) \/ Fault(p) PROVE Exclusive'
  <2>1. Leave(p)
    BY <1>4 DEF Read, SyncDir, Fault, GiveUp, CallbackFails, FileFails, SkipSyncDir,
                SyncDirFails, Kill, Fails
  <2>2. QED
    BY <2>1, ExclusiveLeave
<1>5. CASE PowerLoss
  BY <1>5, NoneAssumption DEF PowerLoss, Exclusive, Section
<1>6. CASE Damage \/ UNCHANGED vars
  BY <1>6 DEF Damage, vars, Exclusive
<1>7. QED
  BY <1>1, <1>2, <1>3, <1>4, <1>5, <1>6 DEF Next, Run

LEMMA JobsLeave ==
    ASSUME TypeOK, Jobs, NEW p \in Proc, Leave(p), NEW outcome,
           Tell(p, outcome) \/ (job[p] = None /\ UNCHANGED status)
    PROVE  Jobs'
<1>1. /\ pc' = [pc EXCEPT ![p] = "idle"]
      /\ job' = [job EXCEPT ![p] = None]
  BY DEF Leave, Goto
<1>2. ASSUME NEW q \in Proc, job'[q] # None PROVE status'[job'[q]] = "open"
  <2>1. q # p /\ job'[q] = job[q] /\ job[q] \in Update
    BY <1>1, <1>2 DEF TypeOK
  <2>2. job[q] # job[p]
    BY <1>2, <2>1 DEF Jobs
  <2>3. QED
    BY <1>2, <2>1, <2>2 DEF Jobs, Tell
<1>3. QED
  BY <1>1, <1>2 DEF Jobs, TypeOK, Section

LEMMA JobsStep == TypeOK /\ Jobs /\ [Next]_vars => Jobs'
<1> SUFFICES ASSUME TypeOK, Jobs, [Next]_vars PROVE Jobs'
  OBVIOUS
<1> USE DEF Goto, call
<1>1. ASSUME NEW p \in Proc, NEW u \in Update, StartUpdate(p, u) PROVE Jobs'
  BY <1>1, NoneAssumption DEF StartUpdate, Jobs, TypeOK, Section
<1>2. ASSUME NEW p \in Proc, StartRead(p) PROVE Jobs'
  BY <1>2 DEF StartRead, Jobs, TypeOK, Section
<1>3. ASSUME NEW p \in Proc,
             \/ Acquire(p) \/ Load(p) \/ Quarantine(p) \/ Callback(p) \/ WriteTemp(p)
             \/ SyncTemp(p) \/ Rename(p)
      PROVE  Jobs'
  <2>1. UNCHANGED <<job, status>> /\ pc[p] # "idle"
    BY <1>3 DEF Acquire, Load, Quarantine, Callback, WriteTemp, SyncTemp, Rename
  <2>2. \E step \in Section : pc' = [pc EXCEPT ![p] = step] /\ (job[p] # None \/ step = "load")
    BY <1>3
    DEF Acquire, Load, Quarantine, Callback, WriteTemp, SyncTemp, Rename, Section,
        AfterEncode, IsUpdate, Jobs
  <2>3. QED
    BY <2>1, <2>2 DEF Jobs, TypeOK, Section
<1>4. ASSUME NEW p \in Proc, Read(p) PROVE Jobs'
  BY <1>4, JobsLeave DEF Read, IsUpdate
<1>5. ASSUME NEW p \in Proc, SyncDir(p) \/ Fault(p) PROVE Jobs'
  <2>1. Leave(p) /\ \E outcome \in {"acked", "failed"} : Tell(p, outcome)
    BY <1>5 DEF SyncDir, Fault, GiveUp, CallbackFails, FileFails, SkipSyncDir,
                SyncDirFails, Kill, Fails
  <2>2. PICK outcome : Tell(p, outcome)
    BY <2>1
  <2>3. QED
    BY <2>1, <2>2, JobsLeave
<1>6. CASE PowerLoss
  BY <1>6 DEF PowerLoss, Jobs, Section
<1>7. CASE Damage \/ UNCHANGED vars
  BY <1>7 DEF Damage, vars, Jobs
<1>8. QED
  BY <1>1, <1>2, <1>3, <1>4, <1>5, <1>6, <1>7 DEF Next, Start, Run

-----------------------------------------------------------------------------
(* What the holder of the flock has in hand.                               *)

LEMMA Alone ==
    ASSUME Exclusive, NEW p \in Proc, NEW q \in Proc, pc[p] \in Section, pc[q] \in Section
    PROVE  p = q
BY DEF Exclusive

(* Every way out other than Rename's SyncDir leaves the directory alone.   *)
LEMMA LeaveKeepsDir ==
    ASSUME NEW p \in Proc, Read(p) \/ SyncDir(p) \/ Fault(p)
    PROVE  Leave(p) /\ dir' = dir
BY DEF Read, SyncDir, Fault, GiveUp, CallbackFails, FileFails, SkipSyncDir, SyncDirFails,
       Kill, Fails

LEMMA InHandStep == TypeOK /\ Exclusive /\ Jobs /\ InHand /\ [Next]_vars => InHand'
<1> SUFFICES ASSUME TypeOK, Exclusive, Jobs, InHand, [Next]_vars PROVE InHand'
  OBVIOUS
<1> USE DEF Goto, call
<1>1. ASSUME NEW p \in Proc, Start(p) PROVE InHand'
  BY <1>1 DEF Start, StartRead, StartUpdate, InHand, TypeOK
<1>2. ASSUME NEW p \in Proc, Acquire(p) \/ Load(p) \/ Callback(p) PROVE InHand'
  BY <1>2 DEF Acquire, Load, Callback, InHand, TypeOK, Directory
<1>3. ASSUME NEW p \in Proc, WriteTemp(p) \/ SyncTemp(p) PROVE InHand'
  <2>1. CASE WriteTemp(p)
    BY <2>1 DEF WriteTemp, AfterEncode, InHand, TypeOK
  <2>2. CASE SyncTemp(p)
    <3>1. temp'[p] = [temp[p] EXCEPT !.synced = TRUE]
      BY <2>2 DEF SyncTemp, TypeOK
    <3>2. temp'[p].ids = temp[p].ids /\ temp'[p].synced
      BY <3>1 DEF TypeOK, Temporary
    <3>3. \A q \in Proc \ {p} : temp'[q] = temp[q]
      BY <2>2 DEF SyncTemp, TypeOK
    <3>4. QED
      BY <2>2, <3>2, <3>3 DEF SyncTemp, InHand, TypeOK
  <2>3. QED
    BY <1>3, <2>1, <2>2
<1>4. ASSUME NEW p \in Proc, Quarantine(p) PROVE InHand'
  <2>1. \A q \in Proc : q # p => pc[q] \notin Section
    BY <1>4, Alone DEF Quarantine, Section
  <2>2. dir'.ids = {} /\ data[p] = {}
    BY <1>4 DEF Quarantine, SetFileAside, InHand
  <2>3. QED
    BY <1>4, <2>1, <2>2 DEF Quarantine, InHand, TypeOK, Section
<1>5. ASSUME NEW p \in Proc, Rename(p) PROVE InHand'
  <2>1. \A q \in Proc : q # p => pc[q] \notin Section
    BY <1>5, Alone DEF Rename, Section
  <2>2. job[p] \in dir'.ids
    BY <1>5 DEF Rename, Renamed, InHand
  <2>3. QED
    BY <1>5, <2>1, <2>2 DEF Rename, InHand, TypeOK, Section
<1>6. ASSUME NEW p \in Proc, Read(p) \/ SyncDir(p) \/ Fault(p) PROVE InHand'
  <2>1. Leave(p) /\ dir' = dir
    BY <1>6, LeaveKeepsDir
  <2>2. QED
    BY <2>1 DEF Leave, InHand, TypeOK
<1>7. CASE PowerLoss
  BY <1>7 DEF PowerLoss, InHand
<1>8. CASE Damage
  BY <1>8 DEF Damage, InHand, TypeOK, Directory
<1>9. CASE UNCHANGED vars
  BY <1>9 DEF vars, InHand
<1>10. QED
  BY <1>1, <1>2, <1>3, <1>4, <1>5, <1>6, <1>7, <1>8, <1>9 DEF Next, Run

-----------------------------------------------------------------------------
(* What every directory a power loss may leave behind holds.               *)

(* A call that ends without success acknowledges nothing.                  *)
LEMMA FailAcksNothing ==
    ASSUME TypeOK, Jobs, NEW p \in Proc, Tell(p, "failed")
    PROVE  {u \in Update : status'[u] = "acked"} = Acked
BY NoneAssumption DEF TypeOK, Jobs, Tell, Acked

LEMMA DiskStep ==
    TypeOK /\ Jobs /\ InHand /\ DiskAgrees /\ [Next]_vars => DiskAgrees'
<1> SUFFICES ASSUME TypeOK, Jobs, InHand, DiskAgrees, [Next]_vars PROVE DiskAgrees'
  OBVIOUS
<1> USE DEF Goto, call
<1>1. ASSUME UNCHANGED <<dir, disk, volatile>>, Acked' \subseteq Acked,
             budget' = budget \/ \E k \in Trouble \ {"damage"} : Spend(k)
      PROVE  DiskAgrees'
  <2>1. budget'["damage"] = budget["damage"]
    BY <1>1, SpendType DEF TypeOK
  <2>2. QED
    BY <1>1, <2>1 DEF DiskAgrees, Effects
<1>2. ASSUME NEW p \in Proc, Start(p) PROVE DiskAgrees'
  <2>1. Acked' \subseteq Acked
    BY <1>2 DEF Start, StartRead, StartUpdate, Acked, TypeOK
  <2>2. QED
    BY <1>1, <1>2, <2>1 DEF Start, StartRead, StartUpdate, Trouble
<1>3. ASSUME NEW p \in Proc,
             \/ Acquire(p) \/ Load(p) \/ Read(p) \/ Callback(p) \/ WriteTemp(p)
             \/ SyncTemp(p)
      PROVE  DiskAgrees'
  BY <1>1, <1>3 DEF Acquire, Load, Read, Callback, WriteTemp, SyncTemp, Acked
<1>4. ASSUME NEW p \in Proc, Quarantine(p) PROVE DiskAgrees'
  <2>1. SetFileAside.ok /\ Effects(SetFileAside) = Effects(dir)
    BY DEF SetFileAside, Effects, DiskAgrees, TypeOK, Directory
  <2>2. QED
    BY <1>4, <2>1 DEF Quarantine, DiskAgrees, Acked
<1>5. ASSUME NEW p \in Proc, Rename(p) PROVE DiskAgrees'
  <2>1. temp[p].synced /\ dir.ids \subseteq temp[p].ids
    BY <1>5 DEF Rename, InHand
  <2>2. Renamed(p).ok /\ Effects(dir) \subseteq Effects(Renamed(p))
    BY <2>1 DEF Renamed, Effects
  <2>3. disk' = disk \cup {Renamed(p)} /\ dir' = Renamed(p)
    BY <1>5, <2>1 DEF Rename
  <2>4. UNCHANGED <<status, volatile, budget>>
    BY <1>5 DEF Rename
  <2>5. QED
    BY <2>2, <2>3, <2>4 DEF DiskAgrees, Acked
<1>6. ASSUME NEW p \in Proc, SyncDir(p) PROVE DiskAgrees'
  <2>1. job[p] \in Effects(dir)
    BY <1>6 DEF SyncDir, InHand, Effects
  <2>2. Acked' \subseteq Acked \cup {job[p]}
    BY <1>6 DEF SyncDir, Tell, Acked
  <2>3. QED
    BY <1>6, <2>1, <2>2 DEF SyncDir, DiskAgrees, Effects
<1>7. ASSUME NEW p \in Proc, SkipSyncDir(p) PROVE DiskAgrees'
  <2>1. Acked' \subseteq Acked \cup {job[p]} /\ volatile' = volatile \cup {job[p]}
    BY <1>7 DEF SkipSyncDir, Tell, Acked
  <2>2. Acked' \ volatile' \subseteq Acked \ volatile
    BY <2>1
  <2>3. budget'["damage"] = budget["damage"]
    BY <1>7, SpendType DEF SkipSyncDir, TypeOK, Trouble
  <2>4. QED
    BY <1>7, <2>2, <2>3 DEF SkipSyncDir, DiskAgrees, Effects
<1>8. ASSUME NEW p \in Proc,
             GiveUp(p) \/ CallbackFails(p) \/ FileFails(p) \/ SyncDirFails(p) \/ Kill(p)
      PROVE  DiskAgrees'
  <2>1. Tell(p, "failed") /\ UNCHANGED <<dir, disk, volatile>>
    BY <1>8 DEF GiveUp, CallbackFails, FileFails, SyncDirFails, Kill, Fails
  <2>2. \E k \in Trouble \ {"damage"} : Spend(k)
    BY <1>8 DEF GiveUp, CallbackFails, FileFails, SyncDirFails, Kill, Trouble
  <2>3. Acked' \subseteq Acked
    BY <2>1, FailAcksNothing DEF Acked
  <2>4. QED
    BY <1>1, <2>1, <2>2, <2>3
<1>9. CASE PowerLoss
  <2>1. Acked' \subseteq Acked /\ volatile' = volatile
    BY <1>9 DEF PowerLoss, Acked, TypeOK
  <2>2. budget'["damage"] = budget["damage"]
    BY <1>9, SpendType DEF PowerLoss, TypeOK, Trouble
  <2>3. QED
    BY <1>9, <2>1, <2>2 DEF PowerLoss, DiskAgrees, Effects
<1>10. CASE Damage
  <2>1. budget'["damage"] < budget["damage"] /\ budget["damage"] <= Limit["damage"]
    BY <1>10 DEF Damage, Spend, TypeOK, Trouble, DiskAgrees
  <2>2. budget'["damage"] < Limit["damage"]
    <3>1. budget'["damage"] \in Nat /\ budget["damage"] \in Nat /\ Limit["damage"] \in Nat
      BY <1>10, LimitAssumption, SpendType DEF Damage, TypeOK, Trouble
    <3>2. QED
      BY <2>1, <3>1
  <2>3. Effects(dir') = Effects(dir) /\ disk' = disk \cup {dir'}
    BY <1>10 DEF Damage, Effects, TypeOK, Directory
  <2>4. Limit["damage"] \in Nat /\ budget'["damage"] \in Nat
    BY <1>10, LimitAssumption, SpendType DEF Damage, TypeOK, Trouble
  <2>5. status' = status /\ volatile' = volatile
    BY <1>10 DEF Damage
  <2>6. QED
    BY <2>2, <2>3, <2>4, <2>5 DEF DiskAgrees, Acked
<1>11. CASE UNCHANGED vars
  BY <1>11 DEF vars, DiskAgrees, Acked, Effects
<1>12. QED
  BY <1>2, <1>3, <1>4, <1>5, <1>6, <1>7, <1>8, <1>9, <1>10, <1>11 DEF Next, Run, Fault

-----------------------------------------------------------------------------
(* Where every effect comes from.                                          *)

(* One effect of one directory, as EffectsHaveOrigin explains it.          *)
Explained(u) ==
    \/ status[u] = "acked"
    \/ status[u] = "failed" /\ u \in late
    \/ status[u] = "open" /\ \E p \in Proc : job[p] = u /\ pc[p] = "syncdir"

(* A call that returns or dies leaves every explained effect explained: its *)
(* own, if it is one, by the acknowledgement or by late.                   *)
LEMMA LeaveExplains ==
    ASSUME TypeOK, Jobs, NEW p \in Proc, NEW u \in Update, Explained(u), Leave(p),
           NEW outcome \in {"acked", "failed"}, Tell(p, outcome),
           outcome = "failed" /\ pc[p] = "syncdir" => job[p] \in late',
           late \subseteq late'
    PROVE  Explained(u)'
<1>1. status'[u] = IF u = job[p] THEN outcome ELSE status[u]
  BY DEF Tell
<1>2. CASE u = job[p]
  <2>1. status[u] = "open"
    BY <1>2, NoneAssumption DEF Jobs
  <2>2. PICK q \in Proc : job[q] = u /\ pc[q] = "syncdir"
    BY <2>1 DEF Explained
  <2>3. q = p
    BY <1>2, <2>2, NoneAssumption DEF Jobs
  <2>4. QED
    BY <1>1, <1>2, <2>2, <2>3 DEF Explained
<1>3. CASE u # job[p]
  <2>1. \A q \in Proc : job[q] = u /\ pc[q] = "syncdir" => job'[q] = u /\ pc'[q] = "syncdir"
    BY <1>3 DEF Leave, Goto, TypeOK
  <2>2. QED
    BY <1>1, <1>3, <2>1 DEF Explained
<1>4. QED
  BY <1>2, <1>3

LEMMA OriginStep ==
    TypeOK /\ Jobs /\ InHand /\ DiskAgrees /\ EffectsHaveOrigin /\ [Next]_vars
      => EffectsHaveOrigin'
<1> SUFFICES ASSUME TypeOK, Jobs, InHand, DiskAgrees, EffectsHaveOrigin, [Next]_vars
             PROVE  EffectsHaveOrigin'
  OBVIOUS
<1> USE DEF Goto, call
<1>a. \A d \in disk : \A u \in Effects(d) : u \in Update /\ Explained(u)
  BY DEF EffectsHaveOrigin, Explained, Effects, TypeOK, Directory
<1>b. (\A d \in disk' : \A u \in Effects(d) : Explained(u)') => EffectsHaveOrigin'
  BY DEF EffectsHaveOrigin, Explained, Effects
<1>c. ASSUME UNCHANGED <<job, status, late>>, NEW p \in Proc, pc[p] # "syncdir",
             NEW step, pc' = [pc EXCEPT ![p] = step], NEW u \in Update, Explained(u)
      PROVE  Explained(u)'
  BY <1>c DEF Explained, TypeOK
<1>1. ASSUME NEW p \in Proc, NEW u \in Update, StartUpdate(p, u) PROVE EffectsHaveOrigin'
  <2>1. job[p] = None
    BY <1>1 DEF StartUpdate, Jobs
  <2>2. ASSUME NEW v \in Update, Explained(v) PROVE Explained(v)'
    <3>1. v # u
      BY <1>1, <2>2 DEF StartUpdate, Explained
    <3>2. QED
      BY <1>1, <2>1, <2>2, <3>1, NoneAssumption DEF StartUpdate, Explained, TypeOK
  <2>3. QED
    BY <1>1, <1>a, <1>b, <2>2 DEF StartUpdate
<1>2. ASSUME NEW p \in Proc,
             \/ StartRead(p) \/ Acquire(p) \/ Load(p) \/ Callback(p)
             \/ WriteTemp(p) \/ SyncTemp(p)
      PROVE  EffectsHaveOrigin'
  <2>1. UNCHANGED <<job, status, late>> /\ pc[p] # "syncdir"
    BY <1>2 DEF StartRead, Acquire, Load, Callback, WriteTemp, SyncTemp
  <2>2. PICK step : pc' = [pc EXCEPT ![p] = step]
    BY <1>2 DEF StartRead, Acquire, Load, Callback, WriteTemp, SyncTemp
  <2>3. disk' = disk
    BY <1>2 DEF StartRead, Acquire, Load, Callback, WriteTemp, SyncTemp
  <2>4. QED
    BY <1>a, <1>b, <1>c, <2>1, <2>2, <2>3
<1>3. ASSUME NEW p \in Proc, Read(p) PROVE EffectsHaveOrigin'
  <2>1. job[p] = None /\ pc[p] # "syncdir" /\ UNCHANGED <<disk, status, late>>
    BY <1>3 DEF Read, IsUpdate
  <2>2. \A q \in Proc : q # p => pc'[q] = pc[q] /\ job'[q] = job[q]
    BY <1>3 DEF Read, Leave, TypeOK
  <2>3. \A u \in Update : Explained(u) => Explained(u)'
    BY <2>1, <2>2 DEF Explained
  <2>4. QED
    BY <1>a, <1>b, <2>1, <2>3
<1>4. ASSUME NEW p \in Proc, Quarantine(p) PROVE EffectsHaveOrigin'
  <2>1. Effects(SetFileAside) = Effects(dir) /\ dir \in disk
    BY DEF SetFileAside, Effects, DiskAgrees, TypeOK, Directory
  <2>2. \A d \in disk' : \A u \in Effects(d) : u \in Update /\ Explained(u)
    BY <1>4, <1>a, <2>1 DEF Quarantine
  <2>3. \A u \in Update : Explained(u) => Explained(u)'
    BY <1>4, <1>c DEF Quarantine
  <2>4. QED
    BY <1>b, <2>2, <2>3
<1>5. ASSUME NEW p \in Proc, Rename(p) PROVE EffectsHaveOrigin'
  <2>1. job[p] \in Update /\ status[job[p]] = "open"
    BY <1>5, JobType DEF Rename, Jobs, Section, TypeOK
  <2>2. disk' = disk \cup {Renamed(p)} /\ UNCHANGED <<job, status, late>>
    BY <1>5 DEF Rename, InHand
  <2>3. pc[p] = "rename" /\ pc'[p] = "syncdir" /\ \A q \in Proc \ {p} : pc'[q] = pc[q]
    BY <1>5 DEF Rename, TypeOK
  <2>4. Effects(Renamed(p)) \subseteq Effects(dir) \cup {job[p]}
    BY <1>5 DEF Rename, Renamed, InHand, Effects
  <2>5. Explained(job[p])'
    BY <2>1, <2>2, <2>3 DEF Explained
  <2>6. \A u \in Update : Explained(u) => Explained(u)'
    BY <2>2, <2>3 DEF Explained
  <2>7. dir \in disk
    BY DEF DiskAgrees
  <2>8. QED
    BY <1>a, <1>b, <2>2, <2>4, <2>5, <2>6, <2>7
<1>6. ASSUME NEW p \in Proc, SyncDir(p) \/ Fault(p) PROVE EffectsHaveOrigin'
  <2>1. disk' \subseteq disk
    BY <1>6 DEF SyncDir, Fault, GiveUp, CallbackFails, FileFails, SkipSyncDir,
                SyncDirFails, Kill, DiskAgrees
  <2>2. Leave(p) /\ late \subseteq late'
    BY <1>6 DEF SyncDir, Fault, GiveUp, CallbackFails, FileFails, SkipSyncDir,
                SyncDirFails, Kill, Fails
  <2>3. \E outcome \in {"acked", "failed"} :
           Tell(p, outcome) /\ (outcome = "failed" /\ pc[p] = "syncdir" => job[p] \in late')
    BY <1>6 DEF SyncDir, Fault, GiveUp, CallbackFails, FileFails, SkipSyncDir,
                SyncDirFails, Kill, Fails
  <2>4. PICK outcome \in {"acked", "failed"} :
           Tell(p, outcome) /\ (outcome = "failed" /\ pc[p] = "syncdir" => job[p] \in late')
    BY <2>3
  <2>5. \A u \in Update : Explained(u) => Explained(u)'
    BY <2>2, <2>4, LeaveExplains
  <2>6. QED
    BY <1>a, <1>b, <2>1, <2>5
<1>7. CASE PowerLoss
  <2>1. disk' \subseteq disk
    BY <1>7 DEF PowerLoss
  <2>2. ASSUME NEW u \in Update, Explained(u) PROVE Explained(u)'
    BY <1>7, <2>2 DEF PowerLoss, Explained, TypeOK
  <2>3. QED
    BY <1>a, <1>b, <2>1, <2>2
<1>8. CASE Damage
  <2>1. disk' = disk \cup {dir'} /\ Effects(dir') = Effects(dir) /\ dir \in disk
    BY <1>8 DEF Damage, Effects, TypeOK, Directory, DiskAgrees
  <2>2. \A u \in Update : Explained(u) => Explained(u)'
    BY <1>8 DEF Damage, Explained
  <2>3. QED
    BY <1>a, <1>b, <2>1, <2>2
<1>9. CASE UNCHANGED vars
  BY <1>9, <1>a, <1>b DEF vars, Explained
<1>10. QED
  BY <1>1, <1>2, <1>3, <1>4, <1>5, <1>6, <1>7, <1>8, <1>9 DEF Next, Start, Run

-----------------------------------------------------------------------------
LEMMA BehindStep == TypeOK /\ InHand /\ DiskBehind /\ DiskAgrees /\ [Next]_vars => DiskBehind'
<1> SUFFICES ASSUME TypeOK, InHand, DiskBehind, DiskAgrees, [Next]_vars PROVE DiskBehind'
  OBVIOUS
<1> USE DEF Goto, call
<1>1. ASSUME dir' = dir, disk' \subseteq disk PROVE DiskBehind'
  BY <1>1 DEF DiskBehind, Effects
<1>2. ASSUME NEW p \in Proc,
             \/ Start(p) \/ Acquire(p) \/ Load(p) \/ Read(p) \/ Callback(p)
             \/ WriteTemp(p) \/ SyncTemp(p) \/ SyncDir(p) \/ Fault(p)
      PROVE  DiskBehind'
  <2>1. dir' = dir /\ disk' \subseteq disk
    BY <1>2 DEF Start, StartRead, StartUpdate, Acquire, Load, Read, Callback, WriteTemp,
                SyncTemp, SyncDir, Fault, GiveUp, CallbackFails, FileFails, SkipSyncDir,
                SyncDirFails, Kill, DiskAgrees
  <2>2. QED
    BY <1>1, <2>1
<1>3. ASSUME NEW p \in Proc, Quarantine(p) PROVE DiskBehind'
  <2>1. Effects(SetFileAside) = Effects(dir)
    BY DEF SetFileAside, Effects, TypeOK, Directory
  <2>2. QED
    BY <1>3, <2>1 DEF Quarantine, DiskBehind, Effects
<1>4. ASSUME NEW p \in Proc, Rename(p) PROVE DiskBehind'
  <2>1. disk' = disk \cup {Renamed(p)} /\ dir' = Renamed(p)
    BY <1>4 DEF Rename, InHand
  <2>2. Effects(dir) \subseteq Effects(Renamed(p))
    BY <1>4 DEF Rename, InHand, Renamed, Effects
  <2>3. QED
    BY <2>1, <2>2 DEF DiskBehind, Effects
<1>5. CASE PowerLoss
  BY <1>5 DEF PowerLoss, DiskBehind, Effects
<1>6. CASE Damage
  <2>1. disk' = disk \cup {dir'} /\ Effects(dir') = Effects(dir)
    BY <1>6 DEF Damage, Effects, TypeOK, Directory
  <2>2. QED
    BY <2>1 DEF DiskBehind, Effects
<1>7. CASE UNCHANGED vars
  BY <1>7 DEF vars, DiskBehind, Effects
<1>8. QED
  BY <1>2, <1>3, <1>4, <1>5, <1>6, <1>7 DEF Next, Run

-----------------------------------------------------------------------------
LEMMA InitIInv == Init => IInv
<1> SUFFICES ASSUME Init PROVE IInv
  OBVIOUS
<1>1. TypeOK
  BY TypeInit
<1>2. Exclusive /\ Jobs /\ InHand
  BY NoneAssumption DEF Init, Exclusive, Jobs, InHand, Section
<1>3. DiskAgrees /\ EffectsHaveOrigin /\ DiskBehind
  BY LimitAssumption DEF Init, DiskAgrees, EffectsHaveOrigin, DiskBehind, Effects, Empty, Acked, Trouble
<1>4. QED
  BY <1>1, <1>2, <1>3 DEF IInv

LEMMA NextIInv == IInv /\ [Next]_vars => IInv'
BY TypeStep, ExclusiveStep, JobsStep, InHandStep, DiskStep, OriginStep, BehindStep DEF IInv

(* No process, killed, failing or cut off by a power loss, ever breaks the *)
(* invariant (all of state.go's read-modify-write).                        *)
THEOREM Invariance == Spec => []IInv
BY InitIInv, NextIInv, PTL DEF Spec

(* Every variable keeps its type, for any processes and updates.           *)
THEOREM TypeCorrect == Spec => []TypeOK
<1>1. IInv => TypeOK
  BY DEF IInv
<1>2. QED
  BY <1>1, Invariance, PTL

(* At most one process is between withLock's two Flock calls (state.go:172). *)
THEOREM MutualExclusion ==
    Spec => [](\A p, q \in Proc : pc[p] \in Section /\ pc[q] \in Section => p = q)
<1>1. IInv => \A p, q \in Proc : pc[p] \in Section /\ pc[q] \in Section => p = q
  BY DEF IInv, Exclusive
<1>2. QED
  BY <1>1, Invariance, PTL

(* An acknowledged update is in every directory a process sees or a power  *)
(* loss may leave behind (state.go:122-159).                               *)
THEOREM AcknowledgedSurvives == Spec => []AckedSurvives
<1>1. IInv => AckedSurvives
  BY DEF IInv, DiskAgrees, AckedSurvives
<1>2. QED
  BY <1>1, Invariance, PTL

(* Only somebody else makes the file malformed (state.go:122-159).         *)
THEOREM ReplacementIsWhole == Spec => []NeverTorn
<1>1. IInv => NeverTorn
  BY DEF IInv, DiskAgrees, NeverTorn
<1>2. QED
  BY <1>1, Invariance, PTL

(* A failed call left no effect, unless it failed after the rename.        *)
THEOREM FailuresHaveNoEffect == Spec => []FailureHasNoEffect
<1>1. IInv => FailureHasNoEffect
  BY DEF IInv, DiskAgrees, EffectsHaveOrigin, FailureHasNoEffect
<1>2. QED
  BY <1>1, Invariance, PTL

-----------------------------------------------------------------------------
(* The refinement: the effect of a call is its rename.                     *)

(* A call that ends without success is the abstract Fail, a read stutters.  *)
LEMMA FailMaps ==
    ASSUME TypeOK, Jobs, NEW p \in Proc, Tell(p, "failed"), UNCHANGED <<dir, volatile>>
    PROVE  [Abstract!Next]_(Abstract!vars)
<1>1. CASE job[p] = None
  <2>1. status' = status
    BY <1>1, NoneAssumption DEF Tell, TypeOK
  <2>2. QED
    BY <2>1 DEF Abstract!vars
<1>2. CASE job[p] # None
  <2>1. job[p] \in Update /\ status[job[p]] = "open"
    BY <1>2 DEF Jobs, TypeOK
  <2>2. status' = [status EXCEPT ![job[p]] = "failed"]
    BY <2>1 DEF Tell, TypeOK
  <2>3. Abstract!Fail(job[p])
    BY <2>1, <2>2 DEF Abstract!Fail
  <2>4. QED
    BY <2>1, <2>3 DEF Abstract!Next
<1>3. QED
  BY <1>1, <1>2

LEMMA AckMaps ==
    ASSUME TypeOK, Jobs, NEW p \in Proc, job[p] \in Update, job[p] \in dir.ids,
           Tell(p, "acked"), UNCHANGED dir, volatile' \in {volatile, volatile \cup {job[p]}}
    PROVE  [Abstract!Next]_(Abstract!vars)
<1>1. status[job[p]] = "open"
  BY NoneAssumption DEF Jobs
<1>2. status' = [status EXCEPT ![job[p]] = "acked"]
  BY DEF Tell, TypeOK
<1>3. Abstract!Acknowledge(job[p])
  BY <1>1, <1>2 DEF Abstract!Acknowledge
<1>4. QED
  BY <1>3 DEF Abstract!Next

LEMMA StepMaps == IInv /\ IInv' /\ [Next]_vars => [Abstract!Next]_(Abstract!vars)
<1> SUFFICES ASSUME IInv, IInv', [Next]_vars PROVE [Abstract!Next]_(Abstract!vars)
  OBVIOUS
<1>a. TypeOK /\ Jobs /\ InHand /\ DiskAgrees /\ DiskBehind /\ dir' \in Directory
  BY DEF IInv, TypeOK
<1>1. ASSUME NEW p \in Proc, NEW u \in Update, StartUpdate(p, u)
      PROVE  [Abstract!Next]_(Abstract!vars)
  <2>1. Abstract!Open(u)
    BY <1>1 DEF StartUpdate, Abstract!Open
  <2>2. QED
    BY <2>1 DEF Abstract!Next
<1>2. ASSUME NEW p \in Proc,
             \/ StartRead(p) \/ Acquire(p) \/ Load(p) \/ Read(p) \/ Callback(p)
             \/ WriteTemp(p) \/ SyncTemp(p)
      PROVE  [Abstract!Next]_(Abstract!vars)
  <2>1. UNCHANGED <<dir, status, volatile>>
    BY <1>2 DEF StartRead, Acquire, Load, Read, Callback, WriteTemp, SyncTemp
  <2>2. QED
    BY <2>1 DEF Abstract!vars
<1>3. ASSUME NEW p \in Proc, Quarantine(p) PROVE [Abstract!Next]_(Abstract!vars)
  <2>1. ~dir.ok
    BY <1>3, <1>a DEF Quarantine, InHand
  <2>2. dir'.ok /\ dir'.ids = {} /\ dir'.saved = dir.saved \cup dir.ids
    BY <1>3 DEF Quarantine, SetFileAside
  <2>3. Abstract!SetAside
    BY <1>3, <2>1, <2>2 DEF Quarantine, Abstract!SetAside
  <2>4. QED
    BY <2>3 DEF Abstract!Next
<1>4. ASSUME NEW p \in Proc, Rename(p) PROVE [Abstract!Next]_(Abstract!vars)
  <2>1. job[p] \in Update /\ status[job[p]] = "open"
    BY <1>4, <1>a, JobType DEF Rename, Jobs, Section, TypeOK
  <2>2. dir'.ids = dir.ids \cup {job[p]} /\ dir'.ok /\ dir'.saved = dir.saved
    BY <1>4, <1>a DEF Rename, Renamed, InHand
  <2>3. Abstract!Apply(job[p])
    BY <1>4, <2>1, <2>2 DEF Rename, Abstract!Apply
  <2>4. QED
    BY <2>1, <2>3 DEF Abstract!Next
<1>5. ASSUME NEW p \in Proc, SyncDir(p) \/ SkipSyncDir(p)
      PROVE  [Abstract!Next]_(Abstract!vars)
  <2>1. pc[p] = "syncdir" /\ Tell(p, "acked") /\ UNCHANGED dir
        /\ volatile' \in {volatile, volatile \cup {job[p]}}
    BY <1>5 DEF SyncDir, SkipSyncDir
  <2>2. job[p] \in Update /\ job[p] \in dir.ids
    BY <1>a, <2>1, JobType DEF Section, InHand
  <2>3. QED
    BY <1>a, <2>1, <2>2, AckMaps
<1>6. ASSUME NEW p \in Proc,
             GiveUp(p) \/ CallbackFails(p) \/ FileFails(p) \/ SyncDirFails(p) \/ Kill(p)
      PROVE  [Abstract!Next]_(Abstract!vars)
  <2>1. Tell(p, "failed") /\ UNCHANGED <<dir, volatile>>
    BY <1>6 DEF GiveUp, CallbackFails, FileFails, SyncDirFails, Kill, Fails
  <2>2. QED
    BY <1>a, <2>1, FailMaps
<1>7. CASE PowerLoss
  <2>1. dir' \in disk /\ volatile' = volatile
        /\ status' = [u \in Update |-> IF status[u] = "open" THEN "failed" ELSE status[u]]
    BY <1>7 DEF PowerLoss
  <2>2. Effects(dir') \subseteq Effects(dir) /\ Acked \ volatile \subseteq Effects(dir')
    BY <1>a, <2>1 DEF DiskBehind, DiskAgrees
  <2>3. dir'.ok \in BOOLEAN
    BY <1>a DEF Directory
  <2>4. Abstract!PowerLoss
    BY <2>1, <2>2, <2>3 DEF Abstract!PowerLoss, Effects, Acked
  <2>5. QED
    BY <2>4 DEF Abstract!Next
<1>8. CASE Damage
  <2>1. dir'.ok = FALSE /\ dir'.ids = dir.ids /\ dir'.saved = dir.saved
    BY <1>8, <1>a DEF Damage, TypeOK, Directory
  <2>2. Abstract!Damage
    BY <1>8, <2>1 DEF Damage, Abstract!Damage
  <2>3. QED
    BY <2>2 DEF Abstract!Next
<1>9. CASE UNCHANGED vars
  BY <1>9 DEF vars, Abstract!vars
<1>10. QED
  BY <1>1, <1>2, <1>3, <1>4, <1>5, <1>6, <1>7, <1>8, <1>9 DEF Next, Start, Run, Fault

(* Store implements the atomic register: its updates take effect one at a  *)
(* time, at the rename, or never (state.go:72-93, 122-159).                *)
THEOREM Refinement == Spec => Atomic
<1>1. Init => Abstract!Init
  BY DEF Init, Abstract!Init, Empty
<1>2. QED
  BY <1>1, Invariance, StepMaps, PTL DEF Spec, Atomic, Abstract!Spec
=============================================================================
