-------------------------- MODULE AutomationProofs --------------------------
(* Proofs about Automation, for every set of vdevs, bays and helpers and   *)
(* every bound on the disturbances.                                        *)
EXTENDS Automation, TLAPS

(* The values the operators of the engine are built from stay in Data.     *)
LEMMA NewDataType == NewData \in Data
BY DEF NewData, Data, NoneOr

LEMMA LoadedType ==
    ASSUME file \in Data \cup {Corrupt}
    PROVE  Loaded \in Data
BY NewDataType DEF Loaded

LEMMA RefreshType ==
    ASSUME NEW p \in Proc, NEW d \in Data, snapB \in [Proc -> [Guid -> NoneOr(Bay)]]
    PROVE  RefreshMappings(p, d) \in Data
BY DEF RefreshMappings, Data

LEMMA RecordType ==
    ASSUME NEW d \in Data, NEW b \in Bay, NEW g \in NoneOr(Guid)
    PROVE  Record(d, b, g) \in Data
BY DEF Record, Data

LEMMA CommitType ==
    ASSUME NEW p \in Proc, data \in [Proc -> Data], req \in [Proc -> Request]
    PROVE  Commit(p) \in Data
<1>1. data[p] \in Data /\ req[p].id \in Nat
  BY DEF Request
<1>2. [data[p].last EXCEPT ![req[p].guid] = req[p].id] \in [Guid -> Nat]
  BY <1>1 DEF Data
<1>3. QED
  BY <1>1, <1>2 DEF Commit, Data

LEMMA EventType ==
    ASSUME NEW g \in Guid, NEW h \in Health, NEW n \in Nat
    PROVE  Event(g, h, n) \in Request
BY DEF Event, Request, NoneOr

LEMMA RequestType == ReconcileRequest \in Request /\ CleanupRequest \in Request
BY DEF ReconcileRequest, CleanupRequest, Request, NoneOr

(* Resetting a helper keeps the types of its variables.                    *)
LEMMA IdleType ==
    ASSUME TypeOK, NEW p \in Proc, Idle(p)
    PROVE  /\ pc' \in [Proc -> Step]
           /\ req' \in [Proc -> Request]
           /\ snapH' \in [Proc -> [Guid -> NoneOr(Health)]]
           /\ snapB' \in [Proc -> [Guid -> NoneOr(Bay)]]
           /\ data' \in [Proc -> Data]
           /\ todo' \in [Proc -> SUBSET Guid]
           /\ touched' \in [Proc -> SUBSET Bay]
<1>1. NoHealth \in [Guid -> NoneOr(Health)] /\ NoHealth \in [Guid -> NoneOr(Bay)]
  BY DEF NoHealth, NoneOr
<1>2. QED
  BY <1>1, NewDataType, RequestType DEF TypeOK, Idle, Step

LEMMA SpendType ==
    ASSUME budget \in [Kind -> Nat], NEW k \in Kind, Spend(k)
    PROVE  budget' \in [Kind -> Nat]
BY DEF Spend, Kind

LEMMA TypeInit == Init => TypeOK
<1>1. NoHealth \in [Guid -> NoneOr(Health)] /\ NoHealth \in [Guid -> NoneOr(Bay)]
  BY DEF NoHealth, NoneOr
<1>2. QED
  BY <1>1, NewDataType, RequestType, InitAssumption, LimitAssumption
  DEF Init, TypeOK, Step, NoneOr

LEMMA TypeStep == TypeOK /\ [Next]_vars => TypeOK'
<1> SUFFICES ASSUME TypeOK, [Next]_vars PROVE TypeOK'
  OBVIOUS
<1> USE DEF TypeOK, world, process
<1>1. ASSUME NEW g \in Guid, NEW h \in Health, StateChange(g, h) PROVE TypeOK'
  <2>1. Event(g, h, nextId) \in Request
    BY EventType
  <2>2. budget' \in [Kind -> Nat]
    BY <1>1, SpendType DEF StateChange, Kind
  <2>3. QED
    BY <1>1, <2>1, <2>2 DEF StateChange, NoneOr
<1>2. ASSUME NEW g \in Guid, NEW b \in NoneOr(Bay), MoveDisk(g, b) PROVE TypeOK'
  <2>1. budget' \in [Kind -> Nat]
    BY <1>2, SpendType DEF MoveDisk, Kind
  <2>2. QED
    BY <1>2, <2>1 DEF MoveDisk
<1>3. ASSUME NEW g \in Guid, Detach(g) PROVE TypeOK'
  <2>1. budget' \in [Kind -> Nat]
    BY <1>3, SpendType DEF Detach, Kind
  <2>2. QED
    BY <1>3, <2>1 DEF Detach, NoneOr
<1>4. ASSUME NEW g \in Guid, Attach(g) PROVE TypeOK'
  <2>1. budget' \in [Kind -> Nat]
    BY <1>4, SpendType DEF Attach, Kind
  <2>2. QED
    BY <1>4, <2>1, HealthAssumption, RequestType DEF Attach, NoneOr
<1>5. CASE RequestReconcile
  <2>1. budget' \in [Kind -> Nat]
    BY <1>5, SpendType DEF RequestReconcile, Kind
  <2>2. QED
    BY <1>5, <2>1, RequestType DEF RequestReconcile
<1>6. CASE RequestCleanup
  <2>1. budget' \in [Kind -> Nat]
    BY <1>6, SpendType DEF RequestCleanup, Kind
  <2>2. QED
    BY <1>6, <2>1, RequestType DEF RequestCleanup
<1>7. CASE CorruptFile
  <2>1. budget' \in [Kind -> Nat]
    BY <1>7, SpendType DEF CorruptFile, Kind
  <2>2. QED
    BY <1>7, <2>1 DEF CorruptFile
<1>8. CASE Reboot
  <2>1. budget' \in [Kind -> Nat]
    BY <1>8, SpendType DEF Reboot, Kind
  <2>2. NoHealth \in [Guid -> NoneOr(Health)] /\ NoHealth \in [Guid -> NoneOr(Bay)]
    BY DEF NoHealth, NoneOr
  <2>3. lit' \subseteq Bay
    BY <1>8 DEF Reboot
  <2>4. suspect' \subseteq Bay
    <3>1. UNION {touched[p] : p \in Proc} \subseteq Bay
      OBVIOUS
    <3>2. suspect' = suspect \cup (lit \ lit')
                        \cup {b \in Bay : Loaded'.managed[b] # Loaded.managed[b]}
                        \cup UNION {touched[p] : p \in Proc}
      BY <1>8 DEF Reboot
    <3>3. QED
      BY <3>1, <3>2
  <2>5. {file', synced'} \subseteq Data \cup {Corrupt}
    BY <1>8 DEF Reboot
  <2>6. QED
    BY <1>8, <2>1, <2>2, <2>3, <2>4, <2>5, NewDataType, RequestType DEF Reboot, Step, NoneOr
<1>9. ASSUME NEW p \in Proc, NEW r \in queue, Accept(p, r) PROVE TypeOK'
  <2>1. budget' \in [Kind -> Nat]
    BY <1>9, SpendType DEF Accept, Kind
  <2>2. FirstStep(r) \in Step
    BY DEF FirstStep, Step
  <2>3. QED
    BY <1>9, <2>1, <2>2 DEF Accept
<1>10. ASSUME NEW p \in Proc, Discover(p) PROVE TypeOK'
  BY <1>10 DEF Discover, Step
<1>11. ASSUME NEW p \in Proc, DiscoverFails(p) PROVE TypeOK'
  <2>1. budget' \in [Kind -> Nat]
    BY <1>11, SpendType DEF DiscoverFails, Kind
  <2>2. QED
    BY <1>11, <2>1, IdleType DEF DiscoverFails
<1>12. ASSUME NEW p \in Proc, MapBays(p) PROVE TypeOK'
  <2>1. PICK seen \in SUBSET Guid :
          /\ IF seen = Guid THEN UNCHANGED budget ELSE Spend("outage")
          /\ snapB' = [snapB EXCEPT ![p] =
               [g \in Guid |-> IF g \in seen /\ snapH[p][g] # None THEN bayOf[g] ELSE None]]
    BY <1>12 DEF MapBays
  <2>2. budget' \in [Kind -> Nat]
    BY <2>1, SpendType DEF Kind
  <2>3. snapB' \in [Proc -> [Guid -> NoneOr(Bay)]]
    BY <2>1 DEF NoneOr
  <2>4. QED
    BY <1>12, <2>2, <2>3 DEF MapBays, Step
<1>13. ASSUME NEW p \in Proc, Lock(p) PROVE TypeOK'
  <2>1. Loaded \in Data /\ RefreshMappings(p, Loaded) \in Data
    BY LoadedType, RefreshType
  <2>2. Worklist(p, Loaded) \subseteq Guid
    BY DEF Worklist
  <2>3. QED
    BY <1>13, <2>1, <2>2 DEF Lock, Step, NoneOr
<1>14. ASSUME NEW p \in Proc, NEW b \in Bay, SwitchOff(p, b) PROVE TypeOK'
  <2>1. Record(data[p], b, None) \in Data
    BY RecordType DEF NoneOr
  <2>2. QED
    BY <1>14, <2>1 DEF SwitchOff
<1>15. ASSUME NEW p \in Proc, NEW g \in Guid, Treated(p, g) PROVE TypeOK'
  BY <1>15 DEF Treated
<1>16. ASSUME NEW p \in Proc, NEW g \in Guid, Refuse(p, g) PROVE TypeOK'
  BY <1>16, IdleType DEF Refuse, Abort, NoneOr
<1>17. ASSUME NEW p \in Proc, NEW g \in Guid, NEW b \in Bay, SwitchOn(p, g, b) PROVE TypeOK'
  <2>1. Record(data[p], b, g) \in Data
    BY RecordType DEF NoneOr
  <2>2. QED
    BY <1>17, <2>1 DEF SwitchOn
<1>18. ASSUME NEW p \in Proc, Save(p) PROVE TypeOK'
  <2>1. budget' \in [Kind -> Nat]
    BY <1>18, SpendType DEF Save, Kind
  <2>2. {file, synced}' \subseteq Data \cup {Corrupt} /\ suspect' \subseteq Bay
    BY <1>18, CommitType DEF Save
  <2>3. QED
    BY <1>18, <2>1, <2>2, IdleType DEF Save, NoneOr
<1>19. ASSUME NEW p \in Proc, NEW b \in Bay, LocateFails(p, b) PROVE TypeOK'
  <2>1. budget' \in [Kind -> Nat]
    BY <1>19, SpendType DEF LocateFails, Kind
  <2>2. lit' \subseteq Bay
    BY <1>19 DEF LocateFails
  <2>3. QED
    BY <1>19, <2>1, <2>2, IdleType DEF LocateFails, Abort, NoneOr
<1>20. ASSUME NEW p \in Proc, SaveFails(p) \/ Kill(p) PROVE TypeOK'
  <2>1. budget' \in [Kind -> Nat]
    BY <1>20, SpendType DEF SaveFails, Kill, Kind
  <2>2. QED
    BY <1>20, <2>1, IdleType DEF SaveFails, Kill, Abort, NoneOr
<1>21. ASSUME NEW b \in Bay, LocateByHand(b) \/ LocateEnds(b) PROVE TypeOK'
  <2>1. budget' \in [Kind -> Nat]
    BY <1>21, SpendType DEF LocateByHand, LocateEnds, Kind
  <2>2. hand' \in [Bay -> Nat] /\ lit' \subseteq Bay
    BY <1>21 DEF LocateByHand, LocateEnds
  <2>3. QED
    BY <1>21, <2>1, <2>2 DEF LocateByHand, LocateEnds, ByHand
<1>22. CASE UNCHANGED vars
  BY <1>22 DEF vars
<1>23. QED
  BY <1>1, <1>2, <1>3, <1>4, <1>5, <1>6, <1>7, <1>8, <1>9, <1>10, <1>11, <1>12, <1>13,
     <1>14, <1>15, <1>16, <1>17, <1>18, <1>19, <1>20, <1>21, <1>22
  DEF Next, World, Start, Run, Fault

(* Every variable keeps its type: the state a helper commits, with the     *)
(* EXCEPTs of refreshMappings, applyAction and LastEvents, is a state.     *)
THEOREM TypeCorrect == Spec => []TypeOK
BY TypeInit, TypeStep, PTL DEF Spec

-----------------------------------------------------------------------------
(* The flock makes the sections exclusive.                                 *)

LEMMA SerializedInit == Init => Serialized
BY NoneAssumption DEF Init, Serialized

(* A helper that goes back to idle leaves the lock alone, or to nobody.    *)
LEMMA SerializedAbort ==
    ASSUME TypeOK, Serialized, NEW p \in Proc, Idle(p),
           lock' = IF lock = p THEN None ELSE lock
    PROVE  Serialized'
BY NoneAssumption DEF TypeOK, Serialized, Idle

LEMMA SerializedStep == TypeOK /\ Serialized /\ [Next]_vars => Serialized'
<1> SUFFICES ASSUME TypeOK, Serialized, [Next]_vars PROVE Serialized'
  OBVIOUS
<1> USE DEF world, process
<1>1. ASSUME UNCHANGED <<process, lock>> PROVE Serialized'
  BY <1>1 DEF Serialized
<1>2. ASSUME NEW g \in Guid,
             \/ \E h \in Health : StateChange(g, h)
             \/ \E b \in NoneOr(Bay) : MoveDisk(g, b)
             \/ Detach(g)
             \/ Attach(g)
      PROVE  Serialized'
  BY <1>1, <1>2 DEF StateChange, MoveDisk, Detach, Attach
<1>3. CASE RequestReconcile \/ RequestCleanup \/ CorruptFile
  BY <1>1, <1>3 DEF RequestReconcile, RequestCleanup, CorruptFile
<1>4. CASE Reboot
  BY <1>4, NoneAssumption DEF Reboot, Serialized
<1>5. ASSUME NEW p \in Proc, NEW r \in queue, Accept(p, r) PROVE Serialized'
  <2>1. FirstStep(r) # "apply"
    BY DEF FirstStep
  <2>2. QED
    BY <1>5, <2>1 DEF Accept, Serialized, TypeOK
<1>6. ASSUME NEW p \in Proc, Discover(p) \/ MapBays(p) PROVE Serialized'
  BY <1>6 DEF Discover, MapBays, Serialized, TypeOK
<1>7. ASSUME NEW p \in Proc, DiscoverFails(p) PROVE Serialized'
  <2>1. lock # p
    BY <1>7 DEF DiscoverFails, Serialized
  <2>2. QED
    BY <1>7, <2>1, SerializedAbort DEF DiscoverFails
<1>8. ASSUME NEW p \in Proc, Lock(p) PROVE Serialized'
  BY <1>8, NoneAssumption DEF Lock, FlockFree, Serialized, TypeOK
<1>9. ASSUME NEW p \in Proc, NEW b \in Bay, SwitchOff(p, b) PROVE Serialized'
  BY <1>9 DEF SwitchOff, Serialized, TypeOK
<1>10. ASSUME NEW p \in Proc, NEW g \in Guid, NEW b \in Bay, SwitchOn(p, g, b)
       PROVE  Serialized'
  BY <1>10 DEF SwitchOn, Serialized, TypeOK
<1>11. ASSUME NEW p \in Proc, NEW g \in Guid, Treated(p, g) PROVE Serialized'
  BY <1>11 DEF Treated, Serialized
<1>12. ASSUME NEW p \in Proc, NEW g \in Guid, Refuse(p, g) PROVE Serialized'
  BY <1>12, SerializedAbort DEF Refuse, Abort
<1>13. ASSUME NEW p \in Proc, NEW b \in Bay, LocateFails(p, b) PROVE Serialized'
  BY <1>13, SerializedAbort DEF LocateFails, Abort
<1>14. ASSUME NEW p \in Proc, SaveFails(p) \/ Kill(p) PROVE Serialized'
  BY <1>14, SerializedAbort DEF SaveFails, Kill, Abort
<1>15. ASSUME NEW p \in Proc, Save(p) PROVE Serialized'
  <2>1. lock = p
    BY <1>15 DEF Save, Done, Serialized
  <2>2. QED
    BY <1>15, <2>1, SerializedAbort DEF Save
<1>16. ASSUME NEW b \in Bay, LocateByHand(b) \/ LocateEnds(b) PROVE Serialized'
  BY <1>16 DEF LocateByHand, LocateEnds, ByHand, Serialized
<1>17. CASE UNCHANGED vars
  BY <1>1, <1>17 DEF vars
<1>18. QED
  BY <1>2, <1>3, <1>4, <1>5, <1>6, <1>7, <1>8, <1>9, <1>10, <1>11, <1>12, <1>13, <1>14,
     <1>15, <1>16, <1>17
  DEF Next, World, Start, Run, Fault

(* At most one helper is inside the callback of Store.Update, it holds the *)
(* flock, and no way out of the callback keeps the flock (state.go:172).   *)
THEOREM MutualExclusion == Spec => []Serialized
<1>1. TypeOK /\ Serialized /\ [Next]_vars => (TypeOK /\ Serialized)'
  BY TypeStep, SerializedStep
<1>2. QED
  BY <1>1, TypeInit, SerializedInit, PTL DEF Spec

-----------------------------------------------------------------------------
(* Every bay in use was seen with its vdev in it.                          *)

LEMMA GroundedNew == \A seen : Grounded(NewData, seen)
BY DEF Grounded, NewData

LEMMA GroundedGrows ==
    ASSUME NEW d, NEW seen, NEW more, Grounded(d, seen), seen \subseteq more
    PROVE  Grounded(d, more)
BY DEF Grounded

LEMMA GroundedRefresh ==
    ASSUME NEW p \in Proc, NEW d \in Data, NEW seen, Grounded(d, seen),
           \A g \in Guid : snapB[p][g] # None => <<g, snapB[p][g]>> \in seen
    PROVE  Grounded(RefreshMappings(p, d), seen)
BY DEF Grounded, RefreshMappings, Data

LEMMA GroundedRecord ==
    ASSUME NEW d \in Data, NEW seen, Grounded(d, seen), NEW b \in Bay, NEW g,
           g # None => <<g, b>> \in seen
    PROVE  Grounded(Record(d, b, g), seen)
BY DEF Grounded, Record, Data

LEMMA GroundedCommit ==
    ASSUME NEW p \in Proc, data[p] \in Data, NEW seen, Grounded(data[p], seen)
    PROVE  Grounded(Commit(p), seen)
BY DEF Grounded, Commit, Data

LEMMA OwnershipInit == Init => VerifiedOwnership
<1> SUFFICES ASSUME Init PROVE VerifiedOwnership
  OBVIOUS
<1>1. file = NewData /\ synced = NewData
  BY DEF Init
<1>2. \A p \in Proc : data[p] = NewData /\ \A g \in Guid : snapB[p][g] = None
  BY DEF Init, NoHealth
<1>3. QED
  BY <1>1, <1>2, GroundedNew DEF VerifiedOwnership, Init

LEMMA OwnershipLoaded ==
    ASSUME VerifiedOwnership PROVE Grounded(Loaded, verified)
BY GroundedNew DEF VerifiedOwnership, Loaded

(* A helper that goes back to idle knows no bay.                           *)
LEMMA OwnershipIdle ==
    ASSUME TypeOK, VerifiedOwnership, NEW p \in Proc, Idle(p), UNCHANGED verified,
           \A d \in {file', synced'} \ {Corrupt} : Grounded(d, verified)
    PROVE  VerifiedOwnership'
<1>1. \A q \in Proc : data'[q] = data[q] \/ data'[q] = NewData
  BY DEF Idle, TypeOK
<1>2. \A q \in Proc, g \in Guid : snapB'[q][g] = snapB[q][g] \/ snapB'[q][g] = None
  BY DEF Idle, TypeOK, NoHealth
<1>3. QED
  BY <1>1, <1>2, GroundedNew DEF VerifiedOwnership

LEMMA OwnershipStep == TypeOK /\ VerifiedOwnership /\ [Next]_vars => VerifiedOwnership'
<1> SUFFICES ASSUME TypeOK, VerifiedOwnership, [Next]_vars PROVE VerifiedOwnership'
  OBVIOUS
<1> USE DEF world, process
<1>1. ASSUME UNCHANGED <<file, synced, data, snapB, verified>> PROVE VerifiedOwnership'
  BY <1>1 DEF VerifiedOwnership
<1>2. ASSUME NEW g \in Guid,
             \/ \E h \in Health : StateChange(g, h)
             \/ \E b \in NoneOr(Bay) : MoveDisk(g, b)
             \/ Detach(g)
             \/ Attach(g)
      PROVE  VerifiedOwnership'
  BY <1>1, <1>2 DEF StateChange, MoveDisk, Detach, Attach
<1>3. CASE RequestReconcile \/ RequestCleanup
  BY <1>1, <1>3 DEF RequestReconcile, RequestCleanup
<1>4. CASE CorruptFile
  BY <1>4 DEF CorruptFile, VerifiedOwnership
<1>5. CASE Reboot
  <2>1. \A p \in Proc : data'[p] = NewData /\ \A g \in Guid : snapB'[p][g] = None
    BY <1>5 DEF Reboot, NoHealth
  <2>2. file' \in {file, synced} /\ synced' = file' /\ verified' = verified
    BY <1>5 DEF Reboot
  <2>3. \A d \in {file', synced'} \ {Corrupt} : Grounded(d, verified')
    BY <2>2 DEF VerifiedOwnership
  <2>4. \A p \in Proc : Grounded(data'[p], verified')
    BY <2>1, GroundedNew
  <2>5. QED
    BY <2>1, <2>3, <2>4 DEF VerifiedOwnership
<1>6. ASSUME NEW p \in Proc, NEW r \in queue, Accept(p, r) PROVE VerifiedOwnership'
  BY <1>1, <1>6 DEF Accept
<1>7. ASSUME NEW p \in Proc, Discover(p) PROVE VerifiedOwnership'
  BY <1>1, <1>7 DEF Discover
<1>8. ASSUME NEW p \in Proc, DiscoverFails(p) \/ SaveFails(p) \/ Kill(p)
      PROVE  VerifiedOwnership'
  <2>1. Idle(p) /\ UNCHANGED <<file, synced, verified>>
    BY <1>8 DEF DiscoverFails, SaveFails, Kill, Abort
  <2>2. QED
    BY <2>1, OwnershipIdle DEF VerifiedOwnership
<1>9. ASSUME NEW p \in Proc, MapBays(p) PROVE VerifiedOwnership'
  <2>1. \A q \in Proc : q # p => snapB'[q] = snapB[q]
    BY <1>9 DEF MapBays, TypeOK
  <2>2. \A g \in Guid : snapB'[p][g] \in NoneOr(Bay)
    BY <1>9, TypeStep DEF TypeOK
  <2>3. verified' = verified \cup {x \in Guid \X Bay : snapB'[p][x[1]] = x[2]}
    BY <1>9 DEF MapBays
  <2>4. \A g \in Guid : snapB'[p][g] # None => <<g, snapB'[p][g]>> \in verified'
    <3>1. SUFFICES ASSUME NEW g \in Guid, snapB'[p][g] # None
                   PROVE  <<g, snapB'[p][g]>> \in verified'
      OBVIOUS
    <3>2. <<g, snapB'[p][g]>> \in Guid \X Bay
      BY <2>2, <3>1 DEF NoneOr
    <3>3. QED
      BY <2>3, <3>2
  <2>5. /\ \A d \in {file, synced} \ {Corrupt} : Grounded(d, verified')
        /\ \A q \in Proc : Grounded(data[q], verified')
    BY <2>3, GroundedGrows DEF VerifiedOwnership
  <2>6. UNCHANGED <<file, synced, data>>
    BY <1>9 DEF MapBays
  <2>7. \A q \in Proc, g \in Guid : snapB'[q][g] # None => <<g, snapB'[q][g]>> \in verified'
    BY <2>1, <2>3, <2>4 DEF VerifiedOwnership
  <2>8. QED
    BY <2>5, <2>6, <2>7 DEF VerifiedOwnership
<1>10. ASSUME NEW p \in Proc, Lock(p) PROVE VerifiedOwnership'
  <2>1. Loaded \in Data /\ Grounded(Loaded, verified)
    BY LoadedType, OwnershipLoaded DEF TypeOK
  <2>2. Grounded(RefreshMappings(p, Loaded), verified)
    BY <2>1, GroundedRefresh DEF VerifiedOwnership
  <2>3. file' = Loaded /\ synced' = synced
    BY <1>10 DEF Lock
  <2>4. \A q \in Proc : Grounded(data'[q], verified)
    BY <1>10, <2>1, <2>2 DEF Lock, VerifiedOwnership, TypeOK
  <2>5. UNCHANGED <<snapB, verified>>
    BY <1>10 DEF Lock
  <2>6. QED
    BY <2>1, <2>3, <2>4, <2>5 DEF VerifiedOwnership
<1>11. ASSUME NEW p \in Proc, NEW b \in Bay, NEW g \in NoneOr(Guid),
              data' = [data EXCEPT ![p] = Record(@, b, g)],
              g # None => <<g, b>> \in verified,
              UNCHANGED <<file, synced, snapB, verified>>
       PROVE  VerifiedOwnership'
  <2>1. Grounded(Record(data[p], b, g), verified)
    BY <1>11, GroundedRecord DEF VerifiedOwnership, TypeOK
  <2>2. \A q \in Proc : Grounded(data'[q], verified)
    BY <1>11, <2>1 DEF VerifiedOwnership, TypeOK
  <2>3. QED
    BY <1>11, <2>2 DEF VerifiedOwnership
<1>12. ASSUME NEW p \in Proc, NEW b \in Bay, SwitchOff(p, b) PROVE VerifiedOwnership'
  BY <1>11, <1>12 DEF SwitchOff, NoneOr
<1>13. ASSUME NEW p \in Proc, NEW g \in Guid, NEW b \in Bay, SwitchOn(p, g, b)
       PROVE  VerifiedOwnership'
  <2>1. <<g, b>> \in verified
    BY <1>13 DEF SwitchOn, Lightable, TargetBay, VerifiedOwnership, Grounded
  <2>2. QED
    BY <1>11, <1>13, <2>1 DEF SwitchOn, NoneOr
<1>14. ASSUME NEW p \in Proc, NEW g \in Guid, Treated(p, g) PROVE VerifiedOwnership'
  BY <1>1, <1>14 DEF Treated
<1>15. ASSUME NEW p \in Proc,
              \/ \E g \in Guid : Refuse(p, g)
              \/ \E b \in Bay : LocateFails(p, b)
       PROVE  VerifiedOwnership'
  <2>1. Idle(p) /\ UNCHANGED <<file, synced, verified>>
    BY <1>15 DEF Refuse, LocateFails, Abort
  <2>2. QED
    BY <2>1, OwnershipIdle DEF VerifiedOwnership
<1>16. ASSUME NEW p \in Proc, Save(p) PROVE VerifiedOwnership'
  <2>1. Idle(p) /\ UNCHANGED verified /\ file' = Commit(p) /\ synced' \in {synced, file'}
    BY <1>16 DEF Save
  <2>2. Grounded(Commit(p), verified)
    BY GroundedCommit DEF VerifiedOwnership, TypeOK
  <2>3. QED
    BY <2>1, <2>2, OwnershipIdle DEF VerifiedOwnership
<1>17. ASSUME NEW b \in Bay, LocateByHand(b) \/ LocateEnds(b) PROVE VerifiedOwnership'
  BY <1>1, <1>17 DEF LocateByHand, LocateEnds, ByHand
<1>18. CASE UNCHANGED vars
  BY <1>1, <1>18 DEF vars
<1>19. QED
  BY <1>2, <1>3, <1>4, <1>5, <1>6, <1>7, <1>8, <1>9, <1>10, <1>12, <1>13, <1>14, <1>15,
     <1>16, <1>17, <1>18
  DEF Next, World, Start, Run, Fault

(* A missing disk is located only by a mapping that an enclosure map has   *)
(* shown with that vdev in it, and every recorded LED was lit for such a   *)
(* pair, whatever fails and however helpers interleave (engine.go:216-282).*)
THEOREM OwnershipIsVerified == Spec => []VerifiedOwnership
<1>1. /\ Init => TypeOK /\ VerifiedOwnership
      /\ TypeOK /\ VerifiedOwnership /\ [Next]_vars => (TypeOK /\ VerifiedOwnership)'
  BY TypeInit, TypeStep, OwnershipInit, OwnershipStep
<1>2. QED
  BY <1>1, PTL DEF Spec

-----------------------------------------------------------------------------
(* The state and the hardware.                                             *)

LEMMA HardwareInit == Init => HardwareAgrees
<1> SUFFICES ASSUME Init PROVE HardwareAgrees
  OBVIOUS
<1>1. Loaded = NewData
  BY CorruptAssumption, NewDataType DEF Init, Loaded
<1>2. QED
  BY <1>1, NoneAssumption DEF HardwareAgrees, Init, NewData

(* A section that ends without a commit makes the bays it touched suspect. *)
LEMMA HardwareAbort ==
    ASSUME TypeOK, Serialized, HardwareAgrees, NEW p \in Proc, NEW bays,
           Abort(p, bays), UNCHANGED file, lock # p => bays = {},
           \A b \in Bay \ bays : b \in lit' <=> b \in lit
    PROVE  HardwareAgrees'
<1>1. Loaded' = Loaded
  BY DEF Loaded, NewData
<1>2. \A q \in Proc : touched'[q] = IF q = p THEN {} ELSE touched[q]
  BY DEF Abort, Idle, TypeOK
<1>3. ASSUME NEW b \in Bay \ suspect', \A q \in Proc : b \notin touched'[q]
      PROVE  b \in lit' <=> Loaded'.managed[b] # None
  <2>1. b \notin suspect /\ b \notin touched[p] /\ b \notin bays
    BY <1>3 DEF Abort
  <2>2. \A q \in Proc : b \notin touched[q]
    BY <1>2, <1>3, <2>1
  <2>3. QED
    BY <1>1, <2>1, <2>2 DEF HardwareAgrees
<1>4. ASSUME NEW q \in Proc, lock' = q, NEW b \in Bay,
             b \in touched'[q] \/ b \notin suspect'
      PROVE  b \in lit' <=> data'[q].managed[b] # None
  <2>1. lock = q /\ q # p /\ bays = {}
    BY <1>4, NoneAssumption DEF Abort
  <2>2. data'[q] = data[q] /\ touched'[q] = touched[q]
    BY <2>1 DEF Abort, Idle, TypeOK
  <2>3. b \in touched[q] \/ b \notin suspect
    BY <1>4, <2>2 DEF Abort
  <2>4. QED
    BY <2>1, <2>2, <2>3 DEF HardwareAgrees
<1>5. QED
  BY <1>3, <1>4 DEF HardwareAgrees

LEMMA HardwareStep ==
    TypeOK /\ Serialized /\ HardwareAgrees /\ [Next]_vars => HardwareAgrees'
<1> SUFFICES ASSUME TypeOK, Serialized, HardwareAgrees, [Next]_vars
             PROVE  HardwareAgrees'
  OBVIOUS
<1> USE DEF world, process
<1>1. ASSUME UNCHANGED <<lit, file, lock, data, touched, suspect>> PROVE HardwareAgrees'
  BY <1>1 DEF HardwareAgrees, Loaded, NewData
<1>2. ASSUME NEW g \in Guid,
             \/ \E h \in Health : StateChange(g, h)
             \/ \E b \in NoneOr(Bay) : MoveDisk(g, b)
             \/ Detach(g)
             \/ Attach(g)
      PROVE  HardwareAgrees'
  BY <1>1, <1>2 DEF StateChange, MoveDisk, Detach, Attach
<1>3. CASE RequestReconcile \/ RequestCleanup
  BY <1>1, <1>3 DEF RequestReconcile, RequestCleanup
<1>4. CASE CorruptFile
  <2>1. Loaded' = NewData
    BY <1>4 DEF CorruptFile, Loaded, NewData
  <2>2. \A b \in Bay : Loaded'.managed[b] = None
    BY <2>1 DEF NewData
  <2>3. lit' = lit /\ suspect' = suspect \cup lit
    BY <1>4 DEF CorruptFile
  <2>4. UNCHANGED <<lock, data, touched>>
    BY <1>4 DEF CorruptFile
  <2>5. QED
    BY <2>2, <2>3, <2>4 DEF HardwareAgrees
<1>5. CASE Reboot
  <2>1. lock' = None
    BY <1>5 DEF Reboot
  <2>2. lit' \subseteq lit
    BY <1>5 DEF Reboot
  <2>3. suspect' = suspect \cup (lit \ lit')
                      \cup {b \in Bay : Loaded'.managed[b] # Loaded.managed[b]}
                      \cup UNION {touched[p] : p \in Proc}
    BY <1>5 DEF Reboot
  <2>4. ASSUME NEW b \in Bay, b \notin suspect'
        PROVE  b \in lit' <=> Loaded'.managed[b] # None
    <3>1. b \notin suspect /\ \A p \in Proc : b \notin touched[p]
      BY <2>3, <2>4
    <3>2. b \in lit <=> Loaded.managed[b] # None
      BY <3>1 DEF HardwareAgrees
    <3>3. Loaded'.managed[b] = Loaded.managed[b] /\ (b \in lit => b \in lit')
      BY <2>3, <2>4
    <3>4. QED
      BY <2>2, <3>2, <3>3
  <2>5. QED
    BY <2>1, <2>4, NoneAssumption DEF HardwareAgrees
<1>6. ASSUME NEW p \in Proc,
             \/ \E r \in queue : Accept(p, r)
             \/ Discover(p)
             \/ MapBays(p)
             \/ \E g \in Guid : Treated(p, g)
      PROVE  HardwareAgrees'
  BY <1>1, <1>6 DEF Accept, Discover, MapBays, Treated
<1>7. ASSUME NEW p \in Proc, DiscoverFails(p) PROVE HardwareAgrees'
  <2>1. lock # p /\ touched[p] = {}
    BY <1>7 DEF DiscoverFails, Serialized
  <2>2. Abort(p, {})
    BY <1>7, <2>1 DEF DiscoverFails, Abort
  <2>3. QED
    BY <1>7, <2>2, HardwareAbort DEF DiscoverFails
<1>8. ASSUME NEW p \in Proc, Lock(p) PROVE HardwareAgrees'
  <2>1. Loaded' = Loaded
    BY <1>8, LoadedType, CorruptAssumption DEF Lock, Loaded, NewData, TypeOK
  <2>2. \A q \in Proc : touched[q] = {}
    BY <1>8, NoneAssumption DEF Lock, FlockFree, Serialized
  <2>3. \A b \in Bay : data'[p].managed[b] = Loaded.managed[b]
    <3>1. \/ data'[p] = Loaded
          \/ data'[p] = RefreshMappings(p, Loaded)
      BY <1>8 DEF Lock, TypeOK
    <3>2. RefreshMappings(p, Loaded).managed = Loaded.managed
      BY LoadedType DEF RefreshMappings, Data, TypeOK
    <3>3. QED
      BY <3>1, <3>2
  <2>4. UNCHANGED <<lit, touched, suspect>> /\ lock' = p
    BY <1>8 DEF Lock
  <2>5. QED
    BY <2>1, <2>2, <2>3, <2>4 DEF HardwareAgrees
<1>9. ASSUME NEW p \in Proc, NEW b \in Bay, NEW g \in NoneOr(Guid), pc[p] = "apply",
             data' = [data EXCEPT ![p] = Record(@, b, g)],
             touched' = [touched EXCEPT ![p] = @ \cup {b}],
             \A c \in Bay : c \in lit' <=> IF c = b THEN g # None ELSE c \in lit,
             UNCHANGED <<file, lock, suspect>>
      PROVE  HardwareAgrees'
  <2>1. lock = p
    BY <1>9 DEF Serialized
  <2>2. \A c \in Bay : data'[p].managed[c] = IF c = b THEN g ELSE data[p].managed[c]
    BY <1>9 DEF Record, Data, TypeOK
  <2>3. touched'[p] = touched[p] \cup {b}
    BY <1>9 DEF TypeOK
  <2>4. \A q \in Proc : touched[q] \subseteq touched'[q]
    BY <1>9 DEF TypeOK
  <2>5. Loaded' = Loaded
    BY <1>9 DEF Loaded, NewData
  <2>6. ASSUME NEW c \in Bay \ suspect', \A q \in Proc : c \notin touched'[q]
        PROVE  c \in lit' <=> Loaded'.managed[c] # None
    BY <1>9, <2>3, <2>4, <2>5, <2>6 DEF HardwareAgrees
  <2>7. ASSUME NEW c \in Bay, c \in touched'[p] \/ c \notin suspect'
        PROVE  c \in lit' <=> data'[p].managed[c] # None
    BY <1>9, <2>1, <2>2, <2>3, <2>7 DEF HardwareAgrees
  <2>8. QED
    BY <1>9, <2>1, <2>6, <2>7 DEF HardwareAgrees
<1>10. ASSUME NEW p \in Proc, NEW b \in Bay, SwitchOff(p, b) PROVE HardwareAgrees'
  <2>1. \A c \in Bay : c \in lit' <=> IF c = b THEN None # None ELSE c \in lit
    BY <1>10 DEF SwitchOff
  <2>2. QED
    BY <1>9, <1>10, <2>1 DEF SwitchOff, NoneOr
<1>11. ASSUME NEW p \in Proc, NEW g \in Guid, NEW b \in Bay, SwitchOn(p, g, b)
       PROVE  HardwareAgrees'
  <2>1. \A c \in Bay : c \in lit' <=> IF c = b THEN g # None ELSE c \in lit
    BY <1>11, NoneAssumption DEF SwitchOn
  <2>2. QED
    BY <1>9, <1>11, <2>1 DEF SwitchOn, NoneOr
<1>12. ASSUME NEW p \in Proc, SaveFails(p) \/ Kill(p) \/ \E g \in Guid : Refuse(p, g)
       PROVE  HardwareAgrees'
  <2>1. Abort(p, {}) /\ UNCHANGED <<file, lit>>
    BY <1>12 DEF SaveFails, Kill, Refuse
  <2>2. QED
    BY <2>1, HardwareAbort
<1>13. ASSUME NEW p \in Proc, NEW b \in Bay, LocateFails(p, b) PROVE HardwareAgrees'
  <2>1. Abort(p, {b}) /\ UNCHANGED file /\ lock = p
    BY <1>13 DEF LocateFails, Serialized
  <2>2. \A c \in Bay \ {b} : c \in lit' <=> c \in lit
    BY <1>13 DEF LocateFails
  <2>3. QED
    BY <2>1, <2>2, HardwareAbort
<1>14. ASSUME NEW p \in Proc, Save(p) PROVE HardwareAgrees'
  <2>1. lock = p /\ \A q \in Proc : q # p => touched[q] = {}
    BY <1>14 DEF Save, Done, Serialized
  <2>2. Loaded' = Commit(p)
    BY <1>14, CommitType, CorruptAssumption DEF Save, Loaded, TypeOK
  <2>3. Commit(p).managed = data[p].managed
    BY DEF Commit, Data, TypeOK
  <2>4. lit' = lit /\ suspect' = suspect \ touched[p] /\ lock' = None
    BY <1>14 DEF Save
  <2>5. QED
    BY <2>1, <2>2, <2>3, <2>4, NoneAssumption DEF HardwareAgrees
<1>15. ASSUME NEW b \in Bay, LocateByHand(b) \/ LocateEnds(b) PROVE HardwareAgrees'
  <2>1. suspect' = suspect \cup {b} /\ \A p \in Proc : touched'[p] = touched[p] \ {b}
    BY <1>15 DEF LocateByHand, LocateEnds, ByHand
  <2>2. UNCHANGED <<file, lock, data>> /\ Loaded' = Loaded
    BY <1>15 DEF LocateByHand, LocateEnds, ByHand, Loaded, NewData
  <2>3. \A c \in Bay \ {b} : c \in lit' <=> c \in lit
    BY <1>15 DEF LocateByHand, LocateEnds
  <2>4. QED
    BY <2>1, <2>2, <2>3 DEF HardwareAgrees
<1>16. CASE UNCHANGED vars
  BY <1>1, <1>16 DEF vars
<1>17. QED
  BY <1>2, <1>3, <1>4, <1>5, <1>6, <1>7, <1>8, <1>10, <1>11, <1>12, <1>13, <1>14, <1>15, <1>16
  DEF Next, World, Start, Run, Fault

(* The state and the LEDs part only where a section was aborted, a helper  *)
(* was killed, the file was lost or a disk was located by hand: commits,   *)
(* refusals of other helpers and interleavings of discovery never part     *)
(* them (engine.go:229-272).                                               *)
THEOREM LedsAgree == Spec => []LedsMatchRecords
<1>1. Init => TypeOK /\ Serialized /\ HardwareAgrees
  BY TypeInit, SerializedInit, HardwareInit
<1>2. TypeOK /\ Serialized /\ HardwareAgrees /\ [Next]_vars
        => (TypeOK /\ Serialized /\ HardwareAgrees)'
  BY TypeStep, SerializedStep, HardwareStep
<1>3. TypeOK /\ Serialized /\ HardwareAgrees => LedsMatchRecords
  <2>1. ASSUME TypeOK, Serialized, HardwareAgrees, lock = None PROVE LedsMatchRecords
    BY <2>1, NoneAssumption DEF Serialized, HardwareAgrees, LedsMatchRecords, Effective
  <2>2. ASSUME TypeOK, Serialized, HardwareAgrees, lock # None PROVE LedsMatchRecords
    BY <2>2 DEF TypeOK, NoneOr, HardwareAgrees, LedsMatchRecords, Effective
  <2>3. QED
    BY <2>1, <2>2
<1>4. QED
  BY <1>1, <1>2, <1>3, PTL DEF Spec

-----------------------------------------------------------------------------
(* Events that are committed.                                              *)

LEMMA EventsInit == Init => EventsAreNew
BY DEF Init, EventsAreNew

(* A helper that goes back to idle has no event.                           *)
LEMMA EventsIdle ==
    ASSUME TypeOK, EventsAreNew, NEW p \in Proc, Idle(p), UNCHANGED <<queue, nextId>>,
           \A q \in Proc : q # p /\ pc[q] = "apply" => Loaded' = Loaded
    PROVE  EventsAreNew'
<1>1. \A q \in Proc : q # p => pc'[q] = pc[q] /\ req'[q] = req[q] /\ todo'[q] = todo[q]
  BY DEF Idle, TypeOK
<1>2. pc'[p] = "idle"
  BY DEF Idle, TypeOK
<1>3. QED
  BY <1>1, <1>2 DEF EventsAreNew

LEMMA EventsStep == TypeOK /\ Serialized /\ EventsAreNew /\ [Next]_vars => EventsAreNew'
<1> SUFFICES ASSUME TypeOK, Serialized, EventsAreNew, [Next]_vars PROVE EventsAreNew'
  OBVIOUS
<1> USE DEF world, process
<1>1. ASSUME UNCHANGED <<queue, nextId, file, pc, req, todo>> PROVE EventsAreNew'
  BY <1>1 DEF EventsAreNew, Loaded, NewData
<1>2. ASSUME NEW g \in Guid, NEW h \in Health, StateChange(g, h) PROVE EventsAreNew'
  <2>1. nextId' > 0 /\ UNCHANGED <<pc, req, todo>> /\ Loaded' = Loaded
    BY <1>2 DEF StateChange, EventsAreNew, TypeOK, Loaded, NewData
  <2>2. \A r \in queue' : r.mode = "event" => r.id > 0 /\ r.guid \in Guid
    BY <1>2 DEF StateChange, EventsAreNew, Event
  <2>3. QED
    BY <2>1, <2>2 DEF EventsAreNew
<1>3. ASSUME NEW g \in Guid, (\E b \in NoneOr(Bay) : MoveDisk(g, b)) \/ Detach(g)
      PROVE  EventsAreNew'
  BY <1>1, <1>3 DEF MoveDisk, Detach
<1>4. CASE RequestReconcile \/ RequestCleanup \/ \E g \in Guid : Attach(g)
  <2>1. \A r \in queue' : r.mode = "event" => r \in queue
    BY <1>4 DEF RequestReconcile, RequestCleanup, Attach, ReconcileRequest, CleanupRequest
  <2>2. UNCHANGED <<nextId, file, pc, req, todo>>
    BY <1>4 DEF RequestReconcile, RequestCleanup, Attach
  <2>3. QED
    BY <2>1, <2>2 DEF EventsAreNew, Loaded, NewData
<1>5. CASE CorruptFile
  <2>1. Loaded' = NewData /\ UNCHANGED <<queue, nextId, pc, req, todo>>
    BY <1>5 DEF CorruptFile, Loaded, NewData
  <2>2. \A g \in Guid : Loaded'.last[g] = 0
    BY <2>1 DEF NewData
  <2>3. QED
    BY <2>1, <2>2 DEF EventsAreNew
<1>6. CASE Reboot
  BY <1>6 DEF Reboot, EventsAreNew, ReconcileRequest
<1>7. ASSUME NEW p \in Proc, NEW r \in queue, Accept(p, r) PROVE EventsAreNew'
  <2>1. \A x \in queue' : x \in queue
    BY <1>7 DEF Accept
  <2>2. UNCHANGED <<nextId, file, todo>>
    BY <1>7 DEF Accept
  <2>3. \A q \in Proc : q # p => pc'[q] = pc[q] /\ req'[q] = req[q]
    BY <1>7 DEF Accept, TypeOK
  <2>4. pc'[p] = FirstStep(r) /\ (pc'[p] # "idle" => req'[p] = r)
    BY <1>7 DEF Accept, TypeOK
  <2>5. FirstStep(r) # "apply"
    BY DEF FirstStep
  <2>6. QED
    BY <2>1, <2>2, <2>3, <2>4, <2>5 DEF EventsAreNew, Loaded, NewData
<1>8. ASSUME NEW p \in Proc, Discover(p) \/ MapBays(p) PROVE EventsAreNew'
  <2>1. UNCHANGED <<queue, nextId, file, req, todo>>
    BY <1>8 DEF Discover, MapBays
  <2>2. \A q \in Proc : (pc'[q] = "apply" <=> pc[q] = "apply")
                          /\ (pc'[q] # "idle" <=> pc[q] # "idle")
    BY <1>8 DEF Discover, MapBays, TypeOK
  <2>3. QED
    BY <2>1, <2>2 DEF EventsAreNew, Loaded, NewData
<1>9. ASSUME NEW p \in Proc, Lock(p) PROVE EventsAreNew'
  <2>1. Loaded' = Loaded /\ UNCHANGED <<queue, nextId, req>>
    BY <1>9, LoadedType, CorruptAssumption DEF Lock, Loaded, NewData, TypeOK
  <2>2. \A q \in Proc : q # p => pc'[q] = pc[q] /\ todo'[q] = todo[q]
    BY <1>9 DEF Lock, TypeOK
  <2>3. pc[p] = "lock" /\ pc'[p] = "apply" /\ todo'[p] = Worklist(p, Loaded)
    BY <1>9 DEF Lock, TypeOK
  <2>4. req[p].mode = "event" /\ Worklist(p, Loaded) # {}
          => Loaded.last[req[p].guid] # req[p].id
    BY DEF Worklist, Duplicate
  <2>5. QED
    BY <2>1, <2>2, <2>3, <2>4 DEF EventsAreNew
<1>10. ASSUME NEW p \in Proc,
              \/ \E b \in Bay : SwitchOff(p, b)
              \/ \E g \in Guid : Treated(p, g)
              \/ \E g \in Guid, b \in Bay : SwitchOn(p, g, b)
       PROVE  EventsAreNew'
  <2>1. UNCHANGED <<queue, nextId, file, pc, req>>
    BY <1>10 DEF SwitchOff, Treated, SwitchOn
  <2>2. \A q \in Proc : todo'[q] \subseteq todo[q]
    <3>1. \/ todo' = todo
          \/ \E g \in Guid : todo' = [todo EXCEPT ![p] = @ \ {g}]
      BY <1>10 DEF SwitchOff, Treated, SwitchOn
    <3>2. QED
      BY <3>1 DEF TypeOK
  <2>3. QED
    BY <2>1, <2>2 DEF EventsAreNew, Loaded, NewData
<1>11. ASSUME NEW p \in Proc,
              \/ DiscoverFails(p) \/ SaveFails(p) \/ Kill(p)
              \/ \E g \in Guid : Refuse(p, g)
              \/ \E b \in Bay : LocateFails(p, b)
       PROVE  EventsAreNew'
  <2>1. Idle(p) /\ UNCHANGED <<queue, nextId, file>>
    BY <1>11 DEF DiscoverFails, SaveFails, Kill, Refuse, LocateFails, Abort
  <2>2. Loaded' = Loaded
    BY <2>1 DEF Loaded, NewData
  <2>3. QED
    BY <2>1, <2>2, EventsIdle
<1>12. ASSUME NEW p \in Proc, Save(p) PROVE EventsAreNew'
  <2>1. Idle(p) /\ UNCHANGED <<queue, nextId>>
    BY <1>12 DEF Save
  <2>2. \A q \in Proc : q # p => pc[q] # "apply"
    BY <1>12 DEF Save, Done, Serialized
  <2>3. QED
    BY <2>1, <2>2, EventsIdle
<1>13. ASSUME NEW b \in Bay, LocateByHand(b) \/ LocateEnds(b) PROVE EventsAreNew'
  BY <1>1, <1>13 DEF LocateByHand, LocateEnds, ByHand
<1>14. CASE UNCHANGED vars
  BY <1>1, <1>14 DEF vars
<1>15. QED
  BY <1>2, <1>3, <1>4, <1>5, <1>6, <1>7, <1>8, <1>9, <1>10, <1>11, <1>12, <1>13, <1>14
  DEF Next, World, Start, Run, Fault

-----------------------------------------------------------------------------
(* What a reconcile is done with.                                          *)

LEMMA ConvergingInit == Init => Converging
BY DEF Init, Converging

(* The decisions of a helper depend on what it was started for and saw.    *)
LEMMA SameDecisions ==
    ASSUME NEW p \in Proc, NEW g \in Guid, UNCHANGED <<req, snapH>>
    PROVE  Action(p, g)' = Action(p, g)
BY DEF Action

(* A helper that goes back to idle is done with nothing.                   *)
LEMMA ConvergingIdle ==
    ASSUME TypeOK, Converging, NEW p \in Proc, Idle(p)
    PROVE  Converging'
<1>1. pc'[p] = "idle"
  BY DEF Idle, TypeOK
<1>2. \A q \in Proc \ {p} : /\ pc'[q] = pc[q] /\ req'[q] = req[q] /\ snapH'[q] = snapH[q]
                             /\ snapB'[q] = snapB[q] /\ data'[q] = data[q] /\ todo'[q] = todo[q]
  BY DEF Idle, TypeOK
<1>3. QED
  BY <1>1, <1>2 DEF Converging, Action, TargetBay, ManagedKeys

LEMMA ConvergingStep == TypeOK /\ Converging /\ [Next]_vars => Converging'
<1> SUFFICES ASSUME TypeOK, Converging, [Next]_vars PROVE Converging'
  OBVIOUS
<1> USE DEF world, process
<1>1. ASSUME UNCHANGED <<pc, req, snapH, snapB, data, todo>> PROVE Converging'
  BY <1>1 DEF Converging, Action, TargetBay, ManagedKeys
<1>2. CASE World /\ ~Reboot
  BY <1>1, <1>2 DEF World, StateChange, MoveDisk, Detach, Attach, RequestReconcile, RequestCleanup,
                    CorruptFile, LocateByHand, LocateEnds, ByHand
<1>3. CASE Reboot
  BY <1>3 DEF Reboot, Converging
<1>4. ASSUME NEW p \in Proc, NEW r \in queue, Accept(p, r) PROVE Converging'
  <2>1. FirstStep(r) # "apply"
    BY DEF FirstStep
  <2>2. pc'[p] # "apply" /\ UNCHANGED <<snapH, snapB, data, todo>>
    BY <1>4, <2>1 DEF Accept, TypeOK
  <2>3. \A q \in Proc \ {p} : pc'[q] = pc[q] /\ req'[q] = req[q]
    BY <1>4 DEF Accept, TypeOK
  <2>4. QED
    BY <2>2, <2>3 DEF Converging, Action, TargetBay, ManagedKeys
<1>5. ASSUME NEW p \in Proc, Discover(p) \/ MapBays(p) PROVE Converging'
  <2>1. pc'[p] # "apply" /\ UNCHANGED <<req, data, todo>>
    BY <1>5 DEF Discover, MapBays, TypeOK
  <2>2. \A q \in Proc \ {p} : pc'[q] = pc[q] /\ snapH'[q] = snapH[q] /\ snapB'[q] = snapB[q]
    BY <1>5 DEF Discover, MapBays, TypeOK
  <2>3. QED
    BY <2>1, <2>2 DEF Converging, Action, TargetBay, ManagedKeys
<1>6. ASSUME NEW p \in Proc, Lock(p) PROVE Converging'
  <2>1. UNCHANGED <<req, snapH, snapB>> /\ todo'[p] = Worklist(p, Loaded)
    BY <1>6 DEF Lock, TypeOK
  <2>2. \A q \in Proc \ {p} : pc'[q] = pc[q] /\ data'[q] = data[q] /\ todo'[q] = todo[q]
    BY <1>6 DEF Lock, TypeOK
  <2>3. req[p].mode = "reconcile" =>
           \A g \in Guid \ todo'[p] : snapH[p][g] # None => Action(p, g)' = "ignore"
    BY <2>1, SameDecisions DEF Worklist, Relevant
  <2>4. QED
    BY <2>1, <2>2, <2>3 DEF Converging, Action, TargetBay, ManagedKeys
<1>7. ASSUME NEW p \in Proc, NEW g \in NoneOr(Guid), NEW b \in Bay,
             data' = [data EXCEPT ![p] = Record(@, b, g)], UNCHANGED <<pc, req, snapH, snapB>>,
             \A q \in Proc \ {p} : todo'[q] = todo[q],
             \A h \in todo[p] \ todo'[p] : h = g /\ Action(p, h) = "on" /\ TargetBay(p, h) = b,
             g # None => Action(p, g) = "on" /\ data[p].managed[b] = None,
             g = None /\ req[p].mode = "reconcile" =>
                \E h \in Guid : data[p].managed[b] = h /\ Action(p, h) = "off"
      PROVE  Converging'
  <2>1. \A q \in Proc \ {p} : data'[q] = data[q]
    BY <1>7 DEF TypeOK
  <2>2. /\ data'[p].mappings = data[p].mappings
        /\ \A c \in Bay : data'[p].managed[c] = IF c = b THEN g ELSE data[p].managed[c]
    BY <1>7 DEF TypeOK, Record, Data
  <2>3. \A h \in Guid : TargetBay(p, h)' = TargetBay(p, h) /\ TargetBay(p, h) \in NoneOr(Bay)
    BY <1>7, <2>2 DEF TargetBay, TypeOK, Data
  <2>4. ASSUME pc[p] = "apply", req[p].mode = "reconcile", NEW h \in Guid \ todo'[p],
               snapH[p][h] # None
        PROVE  /\ Action(p, h) = "on" => /\ TargetBay(p, h) # None
                                         /\ data'[p].managed[TargetBay(p, h)] = h
               /\ Action(p, h) = "off" => ManagedKeys(data'[p], h) = {}
    <3>1. CASE h \in todo[p]
      BY <1>7, <2>2, <2>4, <3>1, NoneAssumption
    <3>2. CASE h \notin todo[p]
      <4>1. /\ Action(p, h) = "on" => /\ TargetBay(p, h) # None
                                      /\ data[p].managed[TargetBay(p, h)] = h
            /\ Action(p, h) = "off" => ManagedKeys(data[p], h) = {}
        BY <2>4, <3>2 DEF Converging
      <4>2. CASE Action(p, h) = "on"
        <5>1. TargetBay(p, h) # b
          BY <1>7, <2>4, <4>1, <4>2, NoneAssumption
        <5>2. QED
          BY <2>2, <2>3, <4>1, <4>2, <5>1 DEF NoneOr
      <4>3. CASE Action(p, h) = "off"
        <5>1. h # g
          BY <1>7, <4>3, NoneAssumption
        <5>2. QED
          BY <2>2, <4>1, <4>3, <5>1 DEF ManagedKeys
      <4>4. QED
        BY <4>2, <4>3
    <3>3. QED
      BY <3>1, <3>2
  <2>5. QED
    BY <1>7, <2>1, <2>3, <2>4, SameDecisions DEF Converging, TargetBay, ManagedKeys
<1>8. ASSUME NEW p \in Proc, NEW b \in Bay, SwitchOff(p, b) PROVE Converging'
  <2>1. req[p].mode = "reconcile" =>
           \E h \in Guid : data[p].managed[b] = h /\ Action(p, h) = "off"
    BY <1>8 DEF SwitchOff, Least, Clearing, ManagedKeys
  <2>2. QED
    BY <1>7, <1>8, <2>1 DEF SwitchOff, NoneOr
<1>9. ASSUME NEW p \in Proc, NEW g \in Guid, NEW b \in Bay, SwitchOn(p, g, b) PROVE Converging'
  <2>1. Action(p, g) = "on" /\ b = TargetBay(p, g) /\ data[p].managed[b] = None
    BY <1>9 DEF SwitchOn, Lightable
  <2>2. \A q \in Proc : todo'[q] = IF q = p THEN todo[p] \ {g} ELSE todo[q]
    BY <1>9 DEF SwitchOn, TypeOK
  <2>3. g # None /\ g \in NoneOr(Guid)
    BY NoneAssumption DEF NoneOr
  <2>4. /\ data' = [data EXCEPT ![p] = Record(@, b, g)]
        /\ UNCHANGED <<pc, req, snapH, snapB>>
    BY <1>9 DEF SwitchOn
  <2>5. \A h \in todo[p] \ todo'[p] : h = g /\ Action(p, h) = "on" /\ TargetBay(p, h) = b
    BY <2>1, <2>2
  <2>6. QED
    BY <1>7, <2>1, <2>2, <2>3, <2>4, <2>5
<1>10. ASSUME NEW p \in Proc, NEW g \in Guid, Treated(p, g) PROVE Converging'
  <2>1. \A q \in Proc : todo'[q] = IF q = p THEN todo[p] \ {g} ELSE todo[q]
    BY <1>10 DEF Treated, TypeOK
  <2>2. req[p].mode = "reconcile" =>
          /\ Action(p, g) = "on" => /\ TargetBay(p, g) # None
                                    /\ data[p].managed[TargetBay(p, g)] = g
          /\ Action(p, g) = "off" => ManagedKeys(data[p], g) = {}
    BY <1>10, NoneAssumption DEF Treated, Clearing, ManagedKeys
  <2>3. UNCHANGED <<pc, req, snapH, snapB, data>>
    BY <1>10 DEF Treated
  <2>4. QED
    BY <2>1, <2>2, <2>3 DEF Converging, Action, TargetBay, ManagedKeys
<1>11. ASSUME NEW p \in Proc,
              \/ Fault(p) \/ Save(p)
              \/ \E g \in Guid : Refuse(p, g)
       PROVE  Converging'
  BY <1>11, ConvergingIdle DEF Fault, DiscoverFails, LocateFails, SaveFails, Kill, Save, Refuse, Abort
<1>12. CASE UNCHANGED vars
  BY <1>1, <1>12 DEF vars
<1>13. QED
  BY <1>2, <1>3, <1>4, <1>5, <1>6, <1>8, <1>9, <1>10, <1>11, <1>12 DEF Next, Start, Run

-----------------------------------------------------------------------------
(* What a section holds of the file.                                       *)

LEMMA InHandInit == Init => InHand
BY NoneAssumption DEF Init, InHand

(* A section stays as it is, or the next one is not its own.               *)
LEMMA InHandKept ==
    ASSUME InHand,
           \A p \in Proc : lock' = p /\ file' # Corrupt =>
              /\ lock = p /\ UNCHANGED <<file, data[p], snapB[p]>>
              /\ touched[p] \cup suspect \subseteq touched'[p] \cup suspect'
    PROVE  InHand'
BY DEF InHand

LEMMA InHandAbort ==
    ASSUME TypeOK, InHand, NEW p \in Proc, NEW bays, Abort(p, bays), UNCHANGED file
    PROVE  InHand'
<1>1. ASSUME NEW q \in Proc, lock' = q
      PROVE  /\ lock = q /\ UNCHANGED <<data[q], snapB[q]>>
             /\ touched[q] \cup suspect \subseteq touched'[q] \cup suspect'
  <2>1. lock = q /\ q # p
    BY <1>1, NoneAssumption DEF Abort
  <2>2. UNCHANGED <<data[q], snapB[q], touched[q]>>
    BY <2>1 DEF Abort, Idle, TypeOK
  <2>3. suspect \subseteq suspect'
    BY DEF Abort
  <2>4. QED
    BY <2>1, <2>2, <2>3
<1>2. QED
  BY <1>1, InHandKept

(* An LED command changes one record, of a bay it touches.                 *)
LEMMA InHandRecord ==
    ASSUME TypeOK, InHand, NEW p \in Proc, NEW b \in Bay, NEW g, lock = p,
           data' = [data EXCEPT ![p] = Record(@, b, g)],
           touched' = [touched EXCEPT ![p] = @ \cup {b}],
           UNCHANGED <<file, lock, snapB, suspect>>
    PROVE  InHand'
<1>1. data[p] \in Data
  BY DEF TypeOK
<1>2. /\ data'[p].last = data[p].last /\ data'[p].mappings = data[p].mappings
      /\ \A c \in Bay : c # b => data'[p].managed[c] = data[p].managed[c]
  BY <1>1 DEF Record, Data, TypeOK
<1>3. touched'[p] = touched[p] \cup {b}
  BY DEF TypeOK
<1>4. QED
  BY <1>2, <1>3 DEF InHand

LEMMA InHandStep == TypeOK /\ Serialized /\ InHand /\ [Next]_vars => InHand'
<1> SUFFICES ASSUME TypeOK, Serialized, InHand, [Next]_vars PROVE InHand'
  OBVIOUS
<1> USE DEF world, process
<1>1. ASSUME UNCHANGED <<file, lock, data, snapB, touched, suspect>> PROVE InHand'
  BY <1>1, InHandKept
<1>2. CASE World /\ ~Reboot
  <2>1. CASE CorruptFile
    BY <2>1, InHandKept DEF CorruptFile
  <2>2. ASSUME NEW b \in Bay, LocateByHand(b) \/ LocateEnds(b) PROVE InHand'
    BY <2>2, InHandKept DEF LocateByHand, LocateEnds, ByHand
  <2>3. QED
    BY <1>1, <1>2, <2>1, <2>2
    DEF World, StateChange, MoveDisk, Detach, Attach, RequestReconcile, RequestCleanup
<1>3. CASE Reboot
  BY <1>3, NoneAssumption, InHandKept DEF Reboot
<1>4. ASSUME NEW p \in Proc, Start(p) \/ Discover(p) \/ \E g \in Guid : Treated(p, g) PROVE InHand'
  BY <1>1, <1>4 DEF Start, Accept, Discover, Treated
<1>5. ASSUME NEW p \in Proc, MapBays(p) PROVE InHand'
  <2>1. lock # p /\ UNCHANGED <<file, lock, data, touched, suspect>>
    BY <1>5 DEF MapBays, Serialized
  <2>2. \A q \in Proc : q # p => snapB'[q] = snapB[q]
    BY <1>5 DEF MapBays, TypeOK
  <2>3. QED
    BY <2>1, <2>2, InHandKept
<1>6. ASSUME NEW p \in Proc, Lock(p) PROVE InHand'
  <2>1. lock' = p /\ file' = Loaded /\ UNCHANGED snapB
    BY <1>6 DEF Lock
  <2>2. data'[p] = Loaded \/ data'[p] = RefreshMappings(p, Loaded)
    BY <1>6 DEF Lock, TypeOK
  <2>3. Loaded \in Data
    BY LoadedType DEF TypeOK
  <2>4. /\ data'[p].last = Loaded.last /\ data'[p].managed = Loaded.managed
        /\ \A g \in Guid : snapB[p][g] = None => data'[p].mappings[g] = Loaded.mappings[g]
    BY <2>2, <2>3 DEF RefreshMappings, Data
  <2>5. QED
    BY <2>1, <2>4 DEF InHand
<1>7. ASSUME NEW p \in Proc, NEW b \in Bay, SwitchOff(p, b) PROVE InHand'
  BY <1>7, InHandRecord DEF SwitchOff, Serialized
<1>8. ASSUME NEW p \in Proc, NEW g \in Guid, NEW b \in Bay, SwitchOn(p, g, b) PROVE InHand'
  BY <1>8, InHandRecord DEF SwitchOn, Serialized
<1>9. ASSUME NEW p \in Proc, NEW g \in Guid, Refuse(p, g) PROVE InHand'
  BY <1>9, InHandAbort DEF Refuse
<1>10. ASSUME NEW p \in Proc, Save(p) PROVE InHand'
  BY <1>10, NoneAssumption, InHandKept DEF Save
<1>11. ASSUME NEW p \in Proc, Fault(p) PROVE InHand'
  <2>1. CASE DiscoverFails(p)
    <3>1. lock # p /\ touched[p] = {}
      BY <2>1 DEF DiscoverFails, Serialized
    <3>2. Abort(p, {}) /\ UNCHANGED file
      BY <2>1, <3>1 DEF DiscoverFails, Abort
    <3>3. QED
      BY <3>2, InHandAbort
  <2>2. QED
    BY <1>11, <2>1, InHandAbort DEF Fault, LocateFails, SaveFails, Kill
<1>12. CASE UNCHANGED vars
  BY <1>1, <1>12 DEF vars
<1>13. QED
  BY <1>2, <1>3, <1>4, <1>5, <1>6, <1>7, <1>8, <1>9, <1>10, <1>11, <1>12 DEF Next, Run

-----------------------------------------------------------------------------
(* The whole inductive invariant, which the run "shared" checks.           *)
THEOREM Invariance == Spec => []IInv
<1>1. Init => IInv
  BY TypeInit, SerializedInit, OwnershipInit, HardwareInit, EventsInit, ConvergingInit, InHandInit
  DEF IInv
<1>2. IInv /\ [Next]_vars => IInv'
  BY TypeStep, SerializedStep, OwnershipStep, HardwareStep, EventsStep, ConvergingStep, InHandStep
  DEF IInv
<1>3. QED
  BY <1>1, <1>2, PTL DEF Spec

(* A helper commands an LED for an event only while the file does not know *)
(* the event: copies of an event that ZED runs at the same time, or runs   *)
(* again after the commit, change no LED (engine.go:64-92).                *)
THEOREM EventsAreInert == Spec => CommittedEventIsInert
<1> DEFINE Inert(p) == touched'[p] \ touched[p] # {} /\ req[p].mode = "event"
                         => Loaded.last[req[p].guid] # req[p].id
<1>1. ASSUME IInv, [Next]_vars, NEW p \in Proc PROVE Inert(p)
  <2> SUFFICES ASSUME touched'[p] \ touched[p] # {}, req[p].mode = "event"
               PROVE  Loaded.last[req[p].guid] # req[p].id
    OBVIOUS
  <2> USE DEF world, process
  <2>1. \/ \E b \in Bay : SwitchOff(p, b)
        \/ \E g \in Guid, b \in Bay : SwitchOn(p, g, b)
    <3>1. ASSUME UNCHANGED touched PROVE FALSE
      BY <3>1
    <3>2. ASSUME NEW q \in Proc, Idle(q) PROVE FALSE
      BY <3>2 DEF Idle, IInv, TypeOK
    <3>3. ASSUME NEW q \in Proc, NEW b \in Bay, SwitchOff(q, b) PROVE q = p
      BY <3>3 DEF SwitchOff, IInv, TypeOK
    <3>4. ASSUME NEW q \in Proc, NEW g \in Guid, NEW b \in Bay, SwitchOn(q, g, b)
          PROVE  q = p
      BY <3>4 DEF SwitchOn, IInv, TypeOK
    <3>5. ~World
      <4>1. ASSUME Reboot PROVE FALSE
        BY <4>1 DEF Reboot
      <4>2. ASSUME NEW b \in Bay, LocateByHand(b) \/ LocateEnds(b) PROVE FALSE
        BY <4>2 DEF LocateByHand, LocateEnds, ByHand
      <4>3. ASSUME World, ~Reboot PROVE UNCHANGED touched
        BY <4>2, <4>3 DEF World, StateChange, MoveDisk, Detach, Attach, RequestReconcile,
                    RequestCleanup, CorruptFile
      <4>4. QED
        BY <3>1, <4>1, <4>3
    <3>6. ASSUME NEW q \in Proc, Start(q) \/ Fault(q) PROVE FALSE
      BY <3>1, <3>2, <3>6 DEF Start, Accept, Fault, DiscoverFails, LocateFails, SaveFails,
                              Kill, Abort
    <3>7. ASSUME NEW q \in Proc, Run(q)
          PROVE  \/ \E b \in Bay : SwitchOff(q, b)
                 \/ \E g \in Guid, b \in Bay : SwitchOn(q, g, b)
      BY <3>1, <3>2, <3>7 DEF Run, Discover, MapBays, Lock, Treated, Refuse, Save, Abort
    <3>8. \E q \in Proc : Run(q)
      BY <1>1, <3>1, <3>5, <3>6 DEF Next, vars
    <3>9. QED
      BY <3>3, <3>4, <3>7, <3>8
  <2>2. pc[p] = "apply"
    BY <2>1 DEF SwitchOff, SwitchOn
  <2>3. todo[p] # {}
    BY <2>1 DEF SwitchOff, SwitchOn, Least, Clearing, Lightable, Turn
  <2>4. QED
    BY <1>1, <2>2, <2>3 DEF IInv, EventsAreNew
<1>2. IInv /\ [Next]_vars => [\A p \in Proc : Inert(p)]_vars
  BY <1>1
<1>3. QED
  BY <1>2, Invariance, PTL DEF Spec, CommittedEventIsInert

(* A reconcile that commits what it discovered, while the pool still is so *)
(* and no bay is unknown, leaves the LED of every faulted disk lit at its  *)
(* bay and no LED lit for a disk that is ONLINE (engine.go:104-146).       *)
THEOREM ReconcileIsRight == Spec => ReconcileConverges
<1> DEFINE Right(p) ==
       (Save(p) /\ req[p].mode = "reconcile" /\ snapH[p] = health /\ suspect \subseteq touched[p])
         => /\ \A g \in Guid : health[g] \in OnStates
                                 => TargetBay(p, g) # None /\ TargetBay(p, g) \in lit'
            /\ \A b \in Bay : b \in lit' => /\ Commit(p).managed[b] # None
                                         /\ health[Commit(p).managed[b]] # "ONLINE"
<1>1. ASSUME IInv, NEW p \in Proc PROVE Right(p)
  <2> SUFFICES ASSUME Save(p), req[p].mode = "reconcile", snapH[p] = health,
                      suspect \subseteq touched[p]
               PROVE  /\ \A g \in Guid : health[g] \in OnStates
                                 => TargetBay(p, g) # None /\ TargetBay(p, g) \in lit'
                      /\ \A b \in Bay : b \in lit' => /\ Commit(p).managed[b] # None
                                         /\ health[Commit(p).managed[b]] # "ONLINE"
    OBVIOUS
  <2>1. lit' = lit /\ todo[p] = {} /\ pc[p] = "apply" /\ lock = p
    BY <1>1 DEF Save, Done, IInv, Serialized
  <2>2. Commit(p) = data[p] /\ data[p] \in Data
    BY <1>1 DEF Commit, IInv, TypeOK
  <2>3. \A b \in Bay : b \in lit <=> data[p].managed[b] # None
    BY <1>1, <2>1 DEF IInv, HardwareAgrees
  <2>4. \A g \in Guid : health[g] # None =>
          /\ Action(p, g) = "on" => /\ TargetBay(p, g) # None
                                    /\ data[p].managed[TargetBay(p, g)] = g
          /\ Action(p, g) = "off" => ManagedKeys(data[p], g) = {}
    BY <1>1, <2>1 DEF IInv, Converging
  <2>5. ASSUME NEW g \in Guid, health[g] \in OnStates
        PROVE  TargetBay(p, g) # None /\ TargetBay(p, g) \in lit
    <3>1. health[g] # None
      BY <2>5, NoneAssumption DEF OnStates, AllHealth
    <3>2. Action(p, g) = "on"
      BY <2>5, <3>1 DEF Action, ActionFor
    <3>3. TargetBay(p, g) \in NoneOr(Bay)
      BY <1>1, <2>2 DEF TargetBay, IInv, TypeOK, Data
    <3>4. QED
      BY <2>3, <2>4, <3>1, <3>2, <3>3, NoneAssumption DEF NoneOr
  <2>6. ASSUME NEW b \in Bay, b \in lit
        PROVE  data[p].managed[b] # None /\ health[data[p].managed[b]] # "ONLINE"
    <3>1. data[p].managed[b] \in Guid
      BY <2>2, <2>3, <2>6 DEF Data, NoneOr
    <3>2. SUFFICES ASSUME health[data[p].managed[b]] = "ONLINE" PROVE FALSE
      BY <3>1, NoneAssumption
    <3>3. "ONLINE" # None
      BY NoneAssumption DEF AllHealth
    <3>4. Action(p, data[p].managed[b]) = "off"
      BY <3>2, <3>3 DEF Action, ActionFor, OnStates
    <3>5. QED
      BY <2>4, <3>1, <3>2, <3>3, <3>4 DEF ManagedKeys
  <2>7. QED
    BY <2>1, <2>2, <2>5, <2>6
<1>2. IInv /\ [Next]_vars => [\A p \in Proc : Right(p)]_vars
  BY <1>1
<1>3. QED
  BY <1>2, Invariance, PTL DEF Spec, ReconcileConverges

(* A commit keeps what other helpers committed before it: every record of  *)
(* an LED it did not command, every cached bay of a disk it did not map,   *)
(* every fingerprint but that of its event (engine.go:64-92, 111-123).     *)
THEOREM CommitsAreLocal == Spec => CommitsKeepTheRest
<1> DEFINE Kept(p) ==
       Save(p) /\ file # Corrupt =>
         /\ \A b \in Bay \ (touched[p] \cup suspect) : file'.managed[b] = file.managed[b]
         /\ \A g \in Guid : snapB[p][g] = None => file'.mappings[g] = file.mappings[g]
         /\ \A g \in Guid : ~(req[p].mode = "event" /\ req[p].guid = g)
                               => file'.last[g] = file.last[g]
<1>1. ASSUME IInv, NEW p \in Proc PROVE Kept(p)
  <2> SUFFICES ASSUME Save(p), file # Corrupt
               PROVE  /\ \A b \in Bay \ (touched[p] \cup suspect) :
                             file'.managed[b] = file.managed[b]
                      /\ \A g \in Guid : snapB[p][g] = None => file'.mappings[g] = file.mappings[g]
                      /\ \A g \in Guid : ~(req[p].mode = "event" /\ req[p].guid = g)
                                            => file'.last[g] = file.last[g]
    OBVIOUS
  <2>1. lock = p /\ file' = Commit(p)
    BY <1>1 DEF Save, Done, IInv, Serialized
  <2>2. /\ data[p].last = file.last
        /\ \A g \in Guid : snapB[p][g] = None => data[p].mappings[g] = file.mappings[g]
        /\ \A b \in Bay \ (touched[p] \cup suspect) : data[p].managed[b] = file.managed[b]
    BY <1>1, <2>1 DEF IInv, InHand
  <2>3. data[p] \in Data
    BY <1>1 DEF IInv, TypeOK
  <2>4. /\ Commit(p).managed = data[p].managed /\ Commit(p).mappings = data[p].mappings
        /\ \A g \in Guid : ~(req[p].mode = "event" /\ req[p].guid = g)
                               => Commit(p).last[g] = data[p].last[g]
    BY <2>3 DEF Commit, Data
  <2>5. QED
    BY <2>1, <2>2, <2>4
<1>2. IInv /\ [Next]_vars => [\A p \in Proc : Kept(p)]_vars
  BY <1>1
<1>3. QED
  BY <1>2, Invariance, PTL DEF Spec, CommitsKeepTheRest
=============================================================================
