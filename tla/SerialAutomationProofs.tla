----------------------- MODULE SerialAutomationProofs -----------------------
(* Proofs about SerialAutomation, for every set of vdevs and bays, every   *)
(* start and every bound on what may happen while nothing breaks.          *)
EXTENDS SerialAutomation, AutomationProofs

(* The steps that remain when nothing that is excluded happens.            *)
SerialStep ==
    \/ \E g \in Guid : (\E h \in Health : StateChange(g, h)) \/ Detach(g) \/ Attach(g)
    \/ RequestReconcile
    \/ \E b \in Bay : LocateByHand(b) \/ (LocateEnds(b) /\ lit' = lit \ {b})
    \/ \E p \in Proc : Start(p) \/ Run(p)
    \/ UNCHANGED vars

LEMMA OnlySerialSteps ==
    ASSUME Untroubled, [Next]_vars
    PROVE  SerialStep /\ bayOf' = bayOf
<1>1. ASSUME NEW k \in Excluded, Spend(k) PROVE FALSE
  BY <1>1 DEF Untroubled, Spend, Excluded
<1>2. \A b \in Bay : LocateEnds(b) => lit' = lit \ {b}
  BY <1>1 DEF LocateEnds, Excluded
<1>3. \A p \in Proc : ~Fault(p)
  BY <1>1 DEF Fault, Excluded, DiscoverFails, LocateFails, SaveFails, Kill
<1>4. /\ \A g \in Guid, b \in NoneOr(Bay) : ~MoveDisk(g, b)
      /\ ~RequestCleanup /\ ~CorruptFile /\ ~Reboot
  BY <1>1 DEF Excluded, MoveDisk, RequestCleanup, CorruptFile, Reboot
<1>5. World => \/ \E g \in Guid : (\E h \in Health : StateChange(g, h)) \/ Detach(g) \/ Attach(g)
               \/ RequestReconcile
               \/ \E b \in Bay : LocateByHand(b) \/ (LocateEnds(b) /\ lit' = lit \ {b})
  BY <1>2, <1>4 DEF World
<1>6. SerialStep
  BY <1>3, <1>5 DEF Next, SerialStep
<1>7. bayOf' = bayOf
  BY <1>6 DEF SerialStep, world, vars, StateChange, Detach, Attach, RequestReconcile, LocateByHand, LocateEnds,
              ByHand, Start, Accept, Run, Discover, MapBays, Lock, SwitchOff, SwitchOn, Treated,
              Refuse, Save
<1>8. QED
  BY <1>6, <1>7

(* Every disk is mapped while nothing fails.                               *)
LEMMA AllMapped ==
    ASSUME TypeOK, Untroubled, NEW p \in Proc, MapBays(p)
    PROVE  snapB' = [snapB EXCEPT ![p] = [g \in Guid |-> IF snapH[p][g] # None THEN bayOf[g] ELSE None]]
<1>1. PICK seen \in SUBSET Guid :
        /\ IF seen = Guid THEN UNCHANGED budget ELSE Spend("outage")
        /\ snapB' = [snapB EXCEPT ![p] =
             [g \in Guid |-> IF g \in seen /\ snapH[p][g] # None THEN bayOf[g] ELSE None]]
  BY DEF MapBays
<1>2. seen = Guid
  BY <1>1 DEF Untroubled, Excluded, Spend
<1>3. QED
  BY <1>1, <1>2

LEMMA UntroubledStep == TypeOK /\ Untroubled /\ [Next]_vars => Untroubled'
<1> SUFFICES ASSUME TypeOK, Untroubled, [Next]_vars PROVE Untroubled'
  OBVIOUS
<1> USE DEF world, process
<1>1. bayOf' = bayOf
  BY OnlySerialSteps
<1>2. ASSUME NEW k \in Excluded PROVE budget'[k] = 0
  <2>1. budget[k] = 0 /\ k \in Kind
    BY DEF Untroubled, Excluded, Kind
  <2>2. ASSUME NEW o \in Kind \ Excluded, o # "disturbance", Spend(o) PROVE budget'[k] = 0
    BY <2>1, <2>2 DEF Spend, Excluded, TypeOK
  <2>3. SerialStep
    BY OnlySerialSteps
  <2>4. ASSUME NEW g \in Guid, (\E h \in Health : StateChange(g, h)) \/ Detach(g) \/ Attach(g)
        PROVE  budget'[k] = 0
    BY <2>2, <2>4 DEF StateChange, Detach, Attach, Kind, Excluded
  <2>5. ASSUME RequestReconcile PROVE budget'[k] = 0
    BY <2>2, <2>5 DEF RequestReconcile, Kind, Excluded
  <2>6. ASSUME NEW b \in Bay, LocateByHand(b) \/ LocateEnds(b) PROVE budget'[k] = 0
    <3>1. ~Spend("fail")
      BY DEF Spend, Untroubled, Excluded
    <3>2. QED
      BY <2>1, <2>2, <2>6, <3>1 DEF LocateByHand, LocateEnds, Kind, Excluded
  <2>7. ASSUME NEW p \in Proc, Start(p) PROVE budget'[k] = 0
    BY <2>1, <2>2, <2>7 DEF Start, Accept, Kind, Excluded
  <2>8. ASSUME NEW p \in Proc, Run(p) PROVE budget'[k] = 0
    <3>1. ~Spend("outage")
      BY DEF Spend, Untroubled, Excluded
    <3>2. ASSUME Save(p) PROVE budget'[k] = 0
      BY <2>1, <2>2, <3>2 DEF Save, Kind, Excluded
    <3>3. QED
      BY <2>1, <2>8, <3>1, <3>2 DEF Run, Discover, MapBays, Lock, SwitchOff, SwitchOn, Treated, Refuse
  <2>9. QED
    BY <2>1, <2>3, <2>4, <2>5, <2>6, <2>7, <2>8 DEF SerialStep, vars
<1>3. ASSUME UNCHANGED <<verified, pc, req, snapH, snapB>>, \A r \in queue' \ queue : r.mode # "cleanup"
      PROVE  Untroubled'
  BY <1>1, <1>2, <1>3 DEF Untroubled
<1>4. ASSUME NEW p \in Proc, NEW r \in queue, Accept(p, r) PROVE Untroubled'
  <2>1. r.mode # "cleanup"
    BY DEF Untroubled
  <2>2. FirstStep(r) \notin {"lock", "apply"}
    BY <2>1 DEF FirstStep
  <2>3. QED
    BY <1>1, <1>2, <1>4, <2>1, <2>2 DEF Accept, Untroubled, TypeOK
<1>5. ASSUME NEW p \in Proc, Discover(p) PROVE Untroubled'
  BY <1>1, <1>2, <1>5 DEF Discover, Untroubled, TypeOK
<1>6. ASSUME NEW p \in Proc, MapBays(p) PROVE Untroubled'
  <2>1. snapB' = [snapB EXCEPT ![p] = [g \in Guid |-> IF snapH[p][g] # None THEN bayOf[g] ELSE None]]
    BY <1>6, AllMapped
  <2>2. \A g \in Guid : snapB'[p][g] = IF snapH[p][g] # None THEN InitBay[g] ELSE None
    BY <2>1 DEF Untroubled, TypeOK
  <2>3. verified' = verified \cup {x \in Guid \X Bay : snapB'[p][x[1]] = x[2]}
    BY <1>6 DEF MapBays
  <2>4. \A x \in verified' : InitBay[x[1]] = x[2]
    <3>1. \A x \in Guid \X Bay : x[1] \in Guid /\ x[2] # None
      BY NoneAssumption
    <3>2. QED
      BY <2>2, <2>3, <3>1 DEF Untroubled
  <2>5. \A q \in Proc : pc'[q] \in {"lock", "apply"} =>
           \A g \in Guid : snapH'[q][g] # None => snapB'[q][g] = InitBay[g]
    BY <1>6, <2>1, <2>2 DEF MapBays, Untroubled, TypeOK
  <2>6. QED
    BY <1>1, <1>2, <1>6, <2>4, <2>5 DEF MapBays, Untroubled
<1>7. ASSUME NEW p \in Proc, Lock(p) PROVE Untroubled'
  BY <1>1, <1>2, <1>7 DEF Lock, Untroubled, TypeOK
<1>8. ASSUME NEW p \in Proc, Idle(p), UNCHANGED <<verified, queue>> PROVE Untroubled'
  BY <1>1, <1>2, <1>8 DEF Idle, Untroubled, TypeOK, ReconcileRequest
<1>9. ASSUME NEW p \in Proc, Run(p) PROVE Untroubled'
  BY <1>3, <1>5, <1>6, <1>7, <1>8, <1>9 DEF Run, SwitchOff, SwitchOn, Treated, Refuse, Abort, Save
<1>10. CASE \E g \in Guid : (\E h \in Health : StateChange(g, h)) \/ Detach(g) \/ Attach(g)
  BY <1>3, <1>10 DEF StateChange, Detach, Attach, Event, ReconcileRequest
<1>11. CASE RequestReconcile \/ UNCHANGED vars
  BY <1>3, <1>11 DEF RequestReconcile, ReconcileRequest, vars
<1>12. CASE \E b \in Bay : LocateByHand(b) \/ LocateEnds(b)
  BY <1>3, <1>12 DEF LocateByHand, LocateEnds, ByHand
<1>13. QED
  BY <1>4, <1>9, <1>10, <1>11, <1>12, OnlySerialSteps DEF SerialStep, Start
-----------------------------------------------------------------------------
(* The file, the ids and the records.                                      *)

LEMMA LoadedStep ==
    ASSUME TypeOK, Untroubled, [Next]_vars
    PROVE  Loaded' = Loaded \/ \E p \in Proc : Save(p) /\ Loaded' = Commit(p)
<1> USE DEF world, process
<1>1. CASE file' = file
  BY <1>1 DEF Loaded
<1>2. ASSUME NEW p \in Proc, Lock(p) PROVE Loaded' = Loaded
  <2>1. Loaded # Corrupt
    BY LoadedType, CorruptAssumption DEF TypeOK
  <2>2. QED
    BY <1>2, <2>1 DEF Lock, Loaded
<1>3. ASSUME NEW p \in Proc, Save(p) PROVE Loaded' = Commit(p)
  <2>1. Commit(p) # Corrupt
    BY CommitType, CorruptAssumption DEF TypeOK
  <2>2. QED
    BY <1>3, <2>1 DEF Save, Loaded
<1>4. QED
  BY <1>1, <1>2, <1>3, OnlySerialSteps
  DEF SerialStep, vars, StateChange, Detach, Attach, RequestReconcile, LocateByHand, LocateEnds, ByHand,
      Start, Accept, Run, Discover, MapBays, SwitchOff, SwitchOn, Treated, Refuse

LEMMA IdsStep ==
    TypeOK /\ EventsAreNew /\ Untroubled /\ IdsAreFresh /\ Sections /\ [Next]_vars => IdsAreFresh'
<1> SUFFICES ASSUME TypeOK, EventsAreNew, Untroubled, IdsAreFresh, Sections, [Next]_vars
             PROVE  IdsAreFresh'
  OBVIOUS
<1> USE DEF world, process
<1>1. /\ nextId \in Nat /\ nextId > 0
      /\ \A r \in queue : r.id \in Nat
      /\ \A p \in Proc : req[p].id \in Nat
  BY DEF TypeOK, EventsAreNew, Request
<1>2. \A g \in Guid : Loaded'.last[g] < nextId
  <2>1. CASE Loaded' = Loaded
    BY <2>1 DEF IdsAreFresh
  <2>2. ASSUME NEW p \in Proc, Save(p), Loaded' = Commit(p) PROVE \A g \in Guid : Loaded'.last[g] < nextId
    <3>1. data[p].last = Loaded.last /\ data[p] \in Data
      BY <2>2 DEF Save, Done, Sections, TypeOK
    <3>2. \A g \in Guid : Commit(p).last[g] \in {Loaded.last[g], req[p].id}
      BY <3>1 DEF Commit, Data
    <3>3. QED
      BY <2>2, <3>2 DEF IdsAreFresh
  <2>3. QED
    BY <2>1, <2>2, LoadedStep
<1>3. \A p \in Proc : req[p].id < nextId
  BY DEF IdsAreFresh
<1>4. ASSUME nextId' = nextId, queue' \subseteq queue \cup {ReconcileRequest},
             \A p \in Proc : req'[p].id < nextId
      PROVE  IdsAreFresh'
  BY <1>1, <1>2, <1>4 DEF IdsAreFresh, ReconcileRequest
<1>5. ASSUME NEW g \in Guid, NEW h \in Health, StateChange(g, h) PROVE IdsAreFresh'
  <2>1. /\ nextId' = nextId + 1 /\ req' = req /\ queue' = queue \cup {Event(g, h, nextId)}
        /\ Event(g, h, nextId).id = nextId
    BY <1>5 DEF StateChange, Event
  <2>2. \A x \in Guid : Loaded'.last[x] < nextId'
    <3>1. \A x \in Guid : Loaded'.last[x] \in Int
      <4>1. Loaded' = Loaded
        BY <1>5 DEF StateChange, Loaded
      <4>2. QED
        BY <4>1, LoadedType DEF TypeOK, Data
    <3>2. QED
      BY <1>1, <1>2, <2>1, <3>1
  <2>3. \A r \in queue : r.id < nextId
    BY DEF IdsAreFresh
  <2>4. \A r, s \in queue' : r.mode = "event" /\ s.mode = "event" /\ r.id = s.id => r = s
    BY <1>1, <2>1, <2>3 DEF IdsAreFresh
  <2>5. \A r \in queue' : r.id < nextId'
    BY <1>1, <2>1, <2>3
  <2>6. \A p \in Proc : req'[p].id < nextId'
    BY <1>1, <1>3, <2>1
  <2>7. QED
    BY <2>2, <2>4, <2>5, <2>6 DEF IdsAreFresh
<1>6. ASSUME NEW p \in Proc, NEW r \in queue, Accept(p, r) PROVE IdsAreFresh'
  <2>1. \A q \in Proc : req'[q] \in {req[q], r}
    BY <1>6 DEF Accept, TypeOK
  <2>2. r.id < nextId
    BY DEF IdsAreFresh
  <2>3. QED
    BY <1>3, <1>4, <1>6, <2>1, <2>2 DEF Accept
<1>7. ASSUME NEW p \in Proc, Idle(p), UNCHANGED <<queue, nextId>> PROVE IdsAreFresh'
  <2>1. \A q \in Proc : req'[q] \in {req[q], ReconcileRequest}
    BY <1>7 DEF Idle, TypeOK
  <2>2. QED
    BY <1>1, <1>3, <1>4, <1>7, <2>1 DEF ReconcileRequest
<1>8. ASSUME NEW p \in Proc, Run(p) PROVE IdsAreFresh'
  BY <1>3, <1>4, <1>7, <1>8 DEF Run, Discover, MapBays, Lock, SwitchOff, SwitchOn, Treated, Refuse, Abort, Save
<1>9. CASE \E g \in Guid : Detach(g) \/ Attach(g)
  BY <1>3, <1>4, <1>9 DEF Detach, Attach
<1>10. CASE RequestReconcile \/ UNCHANGED vars
  BY <1>3, <1>4, <1>10 DEF RequestReconcile, vars
<1>11. CASE \E b \in Bay : LocateByHand(b) \/ LocateEnds(b)
  BY <1>3, <1>4, <1>11 DEF LocateByHand, LocateEnds, ByHand
<1>12. QED
  BY <1>5, <1>6, <1>8, <1>9, <1>10, <1>11, OnlySerialSteps DEF SerialStep, Start

LEMMA SectionsStep ==
    TypeOK /\ Serialized /\ Untroubled /\ Sections /\ [Next]_vars => Sections'
<1> SUFFICES ASSUME TypeOK, Serialized, Untroubled, Sections, [Next]_vars PROVE Sections'
  OBVIOUS
<1> USE DEF world, process
(* A helper whose section this step leaves alone.                          *)
<1>1. ASSUME NEW p \in Proc, pc'[p] = "apply", pc[p] = "apply", Loaded' = Loaded,
             UNCHANGED <<data[p], req[p], snapH[p]>>, todo'[p] \subseteq todo[p]
      PROVE  /\ data'[p].last = Loaded'.last
             /\ req'[p].mode = "event" => todo'[p] \subseteq {req'[p].guid}
             /\ req'[p].mode = "reconcile" => \A g \in todo'[p] : snapH'[p][g] # None
             /\ \A g \in todo'[p] : req'[p].mode = "event" /\ Action(p, g)' = "on"
                                      => data'[p].managed = Loaded'.managed
  BY <1>1 DEF Sections, Action
<1>2. ASSUME UNCHANGED <<pc, data, req, snapH, todo>>, Loaded' = Loaded PROVE Sections'
  BY <1>1, <1>2 DEF Sections
<1>3. ASSUME NEW p \in Proc, pc'[p] # "apply", Loaded' = Loaded,
             \A q \in Proc \ {p} : UNCHANGED <<pc[q], data[q], req[q], snapH[q], todo[q]>>
      PROVE  Sections'
  BY <1>1, <1>3 DEF Sections
<1>4. ASSUME NEW p \in Proc, NEW r \in queue, Accept(p, r) PROVE Sections'
  <2>1. FirstStep(r) # "apply" /\ Loaded' = Loaded
    BY <1>4 DEF FirstStep, Accept, Loaded
  <2>2. QED
    BY <1>3, <1>4, <2>1 DEF Accept, TypeOK
<1>5. ASSUME NEW p \in Proc, Discover(p) \/ MapBays(p) PROVE Sections'
  <2>1. Loaded' = Loaded
    BY <1>5 DEF Discover, MapBays, Loaded
  <2>2. QED
    BY <1>3, <1>5, <2>1 DEF Discover, MapBays, TypeOK
<1>6. ASSUME NEW p \in Proc, Lock(p) PROVE Sections'
  <2>1. Loaded' = Loaded
    BY <1>6, LoadedStep DEF Lock, Save, Done
  <2>2. \A q \in Proc : q # p => pc[q] # "apply"
    BY <1>6, NoneAssumption DEF Lock, FlockFree, Serialized
  <2>3. req[p].mode # "cleanup" /\ req[p].mode \in {"event", "reconcile", "cleanup"}
    BY DEF Untroubled, TypeOK, Request
  <2>4. data'[p].last = Loaded.last /\ data'[p].managed = Loaded.managed
    <3>1. data'[p] = RefreshMappings(p, Loaded)
      BY <1>6, <2>3 DEF Lock, TypeOK
    <3>2. Loaded \in Data
      BY LoadedType DEF TypeOK
    <3>3. QED
      BY <3>1, <3>2 DEF RefreshMappings, Data
  <2>5. todo'[p] = Worklist(p, Loaded) /\ UNCHANGED <<req, snapH>>
    BY <1>6 DEF Lock, TypeOK
  <2>6. /\ req[p].mode = "event" => todo'[p] \subseteq {req[p].guid}
        /\ req[p].mode = "reconcile" => \A g \in todo'[p] : snapH[p][g] # None
    BY <2>5 DEF Worklist
  <2>7. \A q \in Proc \ {p} : pc'[q] # "apply"
    BY <1>6, <2>2 DEF Lock, TypeOK
  <2>8. QED
    BY <2>1, <2>4, <2>5, <2>6, <2>7 DEF Sections
<1>7. ASSUME NEW p \in Proc, NEW b \in Bay, SwitchOff(p, b) PROVE Sections'
  <2>1. PICK g \in Guid : Turn(p, g) /\ Action(p, g) = "off"
    BY <1>7 DEF SwitchOff, Least, Clearing, Untroubled
  <2>2. Loaded' = Loaded /\ UNCHANGED <<pc, req, snapH, todo>>
    BY <1>7 DEF SwitchOff, Loaded
  <2>3. data'[p].last = data[p].last /\ data[p] \in Data
    BY <1>7 DEF SwitchOff, TypeOK, Record, Data
  <2>4. \A q \in Proc \ {p} : pc[q] # "apply"
    BY <1>7, NoneAssumption DEF SwitchOff, Serialized
  <2>5. ASSUME NEW x \in todo[p], req[p].mode = "event", Action(p, x) = "on" PROVE FALSE
    BY <1>7, <2>1, <2>5 DEF SwitchOff, Sections, Turn
  <2>6. QED
    BY <1>7, <2>2, <2>3, <2>4, <2>5 DEF SwitchOff, Sections, Action
<1>8. ASSUME NEW p \in Proc, NEW g \in Guid, NEW b \in Bay, SwitchOn(p, g, b) PROVE Sections'
  <2>1. Loaded' = Loaded /\ UNCHANGED <<pc, req, snapH>> /\ todo'[p] = todo[p] \ {g} /\ g \in todo[p]
    BY <1>8 DEF SwitchOn, Loaded, Lightable, Turn, TypeOK
  <2>2. data'[p].last = data[p].last
    BY <1>8 DEF SwitchOn, TypeOK, Record, Data
  <2>3. \A q \in Proc \ {p} : pc[q] # "apply"
    BY <1>8, NoneAssumption DEF SwitchOn, Serialized
  <2>4. pc[p] = "apply"
    BY <1>8 DEF SwitchOn
  <2>5. QED
    BY <2>1, <2>2, <2>3, <2>4 DEF Sections
<1>9. ASSUME NEW p \in Proc, NEW g \in Guid, Treated(p, g) PROVE Sections'
  <2>1. /\ Loaded' = Loaded /\ UNCHANGED <<pc, req, snapH, data>>
        /\ \A q \in Proc : todo'[q] \subseteq todo[q]
    BY <1>9 DEF Treated, Loaded, TypeOK
  <2>2. QED
    BY <1>1, <2>1 DEF Sections
<1>10. ASSUME NEW p \in Proc, Idle(p), pc[p] = "apply" PROVE Sections'
  <2>1. \A q \in Proc \ {p} : pc[q] # "apply"
    BY <1>10 DEF Serialized
  <2>2. \A q \in Proc : pc'[q] # "apply"
    BY <1>10, <2>1 DEF Idle, TypeOK
  <2>3. QED
    BY <2>2 DEF Sections
<1>11. ASSUME NEW p \in Proc, Run(p) PROVE Sections'
  BY <1>5, <1>6, <1>7, <1>8, <1>9, <1>10, <1>11 DEF Run, Refuse, Abort, Save, Done
<1>12. CASE \E g \in Guid : (\E h \in Health : StateChange(g, h)) \/ Detach(g) \/ Attach(g)
  BY <1>2, <1>12 DEF StateChange, Detach, Attach, Loaded
<1>13. CASE RequestReconcile \/ UNCHANGED vars
  BY <1>2, <1>13 DEF RequestReconcile, vars, Loaded
<1>14. CASE \E b \in Bay : LocateByHand(b) \/ LocateEnds(b)
  BY <1>2, <1>14 DEF LocateByHand, LocateEnds, ByHand, Loaded
<1>15. QED
  BY <1>4, <1>11, <1>12, <1>13, <1>14, OnlySerialSteps DEF SerialStep, Start

-----------------------------------------------------------------------------
(* The records, and the LEDs that are lit.                                 *)

(* Every record is of the vdev whose bay it is.                            *)
LEMMA RecordsAreHome ==
    ASSUME TypeOK, VerifiedOwnership, Untroubled
    PROVE  /\ \A p \in Proc, b \in Bay : data[p].managed[b] # None =>
                 data[p].managed[b] \in Guid /\ InitBay[data[p].managed[b]] = b
           /\ \A b \in Bay : Loaded.managed[b] # None =>
                 Loaded.managed[b] \in Guid /\ InitBay[Loaded.managed[b]] = b
           /\ \A b \in Bay : Records[b] # None =>
                 Records[b] \in Guid /\ InitBay[Records[b]] = b
<1>1. ASSUME NEW d \in Data, Grounded(d, verified), NEW b \in Bay, d.managed[b] # None
      PROVE  d.managed[b] \in Guid /\ InitBay[d.managed[b]] = b
  <2>1. d.managed[b] \in Guid
    BY <1>1 DEF Data, NoneOr
  <2>2. <<d.managed[b], b>> \in verified
    BY <1>1 DEF Grounded
  <2>3. QED
    BY <2>1, <2>2 DEF Untroubled
<1>2. Loaded \in Data /\ Grounded(Loaded, verified)
  BY LoadedType, OwnershipLoaded DEF TypeOK
<1>3. \A p \in Proc : data[p] \in Data /\ Grounded(data[p], verified)
  BY DEF TypeOK, VerifiedOwnership
<1>4. Effective \in Data /\ Grounded(Effective, verified)
  BY <1>2, <1>3 DEF Effective, TypeOK, NoneOr
<1>5. QED
  BY <1>1, <1>2, <1>3, <1>4 DEF Records

(* A vdev that was discovered was mapped too, and its bay is free for it.  *)
LEMMA SeenIsUsable ==
    ASSUME Undisturbed, TypeOK, VerifiedOwnership, Untroubled,
           NEW p \in Proc, NEW g \in Guid, pc[p] = "apply", snapH[p][g] # None
    PROVE  TargetBay(p, g) = InitBay[g] /\ InitBay[g] \in Bay /\ Usable(p, g)
<1>1. InitBay[g] # None /\ InitBay[g] \in Bay
  BY InitAssumption DEF Undisturbed, NoneOr
<1>2. TargetBay(p, g) = InitBay[g]
  BY <1>1 DEF Untroubled, TargetBay
<1>3. ASSUME data[p].managed[InitBay[g]] # None PROVE data[p].managed[InitBay[g]] = g
  <2>1. /\ data[p].managed[InitBay[g]] \in Guid
        /\ InitBay[data[p].managed[InitBay[g]]] = InitBay[g]
    BY <1>1, <1>3, RecordsAreHome
  <2>2. QED
    BY <2>1 DEF Undisturbed
<1>4. QED
  BY <1>1, <1>2, <1>3 DEF Usable

(* A helper refuses only before it recorded anything, and never for a vdev *)
(* it discovered.                                                          *)
LEMMA RefusalIsEarly ==
    ASSUME Undisturbed, TypeOK, VerifiedOwnership, Untroubled, Sections,
           NEW p \in Proc, NEW g \in Guid, Refuse(p, g)
    PROVE  /\ req[p].mode = "event" /\ req[p].guid = g /\ snapH[p][g] = None
           /\ data[p].managed = Loaded.managed
<1>1. pc[p] = "apply" /\ g \in todo[p] /\ Action(p, g) = "on" /\ ~Usable(p, g)
  BY DEF Refuse, Turn
<1>2. snapH[p][g] = None
  BY <1>1, SeenIsUsable
<1>3. req[p].mode \in {"event", "reconcile"}
  BY DEF TypeOK, Request, Untroubled
<1>4. req[p].mode = "event"
  BY <1>1, <1>2, <1>3 DEF Sections
<1>5. QED
  BY <1>1, <1>2, <1>4 DEF Sections

LEMMA RecordsSwitchedOff ==
    ASSUME TypeOK, Serialized, NEW p \in Proc, NEW b \in Bay, SwitchOff(p, b)
    PROVE  /\ Records = data[p].managed
           /\ Records' = [Records EXCEPT ![b] = None]
<1>1. lock = p /\ p # None /\ lock' = lock
  BY NoneAssumption DEF SwitchOff, Serialized
<1>2. data'[p] = [data[p] EXCEPT !.managed[b] = None] /\ data[p] \in Data
  BY DEF SwitchOff, Record, TypeOK
<1>3. QED
  BY <1>1, <1>2 DEF Records, Effective, Data

LEMMA RecordsSwitchedOn ==
    ASSUME TypeOK, Serialized, NEW p \in Proc, NEW g \in Guid, NEW b \in Bay, SwitchOn(p, g, b)
    PROVE  /\ Records = data[p].managed
           /\ Records' = [Records EXCEPT ![b] = g]
<1>1. lock = p /\ p # None /\ lock' = lock
  BY NoneAssumption DEF SwitchOn, Serialized
<1>2. data'[p] = [data[p] EXCEPT !.managed[b] = g] /\ data[p] \in Data
  BY DEF SwitchOn, Record, TypeOK
<1>3. QED
  BY <1>1, <1>2 DEF Records, Effective, Data

(* Whether a section commits or refuses, it leaves the records as they are *)
(* recorded by then, and so does every other step that commands no LED.    *)
LEMMA RecordsKept ==
    ASSUME Undisturbed, TypeOK, Serialized, VerifiedOwnership, Untroubled, Sections, [Next]_vars,
           \A p \in Proc, b \in Bay : ~SwitchOff(p, b),
           \A p \in Proc, g \in Guid, b \in Bay : ~SwitchOn(p, g, b)
    PROVE  Records' = Records
<1> USE DEF world, process
<1>1. ASSUME UNCHANGED <<file, lock, data>> PROVE Records' = Records
  BY <1>1 DEF Records, Effective, Loaded
<1>2. ASSUME NEW p \in Proc, Lock(p) PROVE Records' = Records
  <2>1. Loaded \in Data /\ Loaded # Corrupt
    BY LoadedType, CorruptAssumption DEF TypeOK
  <2>2. data'[p] = RefreshMappings(p, Loaded)
    BY <1>2 DEF Lock, TypeOK, Untroubled
  <2>3. data'[p].managed = Loaded.managed
    BY <2>1, <2>2 DEF RefreshMappings, Data
  <2>4. lock = None /\ lock' = p /\ p # None
    BY <1>2, NoneAssumption DEF Lock, FlockFree
  <2>5. QED
    BY <2>3, <2>4 DEF Records, Effective
<1>3. ASSUME NEW p \in Proc, Save(p) PROVE Records' = Records
  <2>1. lock = p /\ p # None /\ lock' = None
    BY <1>3, NoneAssumption DEF Save, Done, Serialized
  <2>2. Loaded' = Commit(p)
    <3>1. Commit(p) # Corrupt
      BY CommitType, CorruptAssumption DEF TypeOK
    <3>2. QED
      BY <1>3, <3>1 DEF Save, Loaded
  <2>3. Commit(p).managed = data[p].managed
    <3>1. data[p] \in Data
      BY DEF TypeOK
    <3>2. QED
      BY <3>1 DEF Commit, Data
  <2>4. QED
    BY <2>1, <2>2, <2>3 DEF Records, Effective
<1>4. ASSUME NEW p \in Proc, NEW g \in Guid, Refuse(p, g) PROVE Records' = Records
  <2>1. lock = p /\ p # None /\ lock' = None /\ Loaded' = Loaded
    BY <1>4, NoneAssumption DEF Refuse, Abort, Serialized, Loaded
  <2>2. data[p].managed = Loaded.managed
    BY <1>4, RefusalIsEarly
  <2>3. QED
    BY <2>1, <2>2 DEF Records, Effective
<1>5. ASSUME NEW p \in Proc, Start(p) \/ Run(p) PROVE Records' = Records
  BY <1>1, <1>2, <1>3, <1>4, <1>5 DEF Start, Accept, Run, Discover, MapBays, Treated
<1>6. QED
  BY <1>1, <1>5, OnlySerialSteps
  DEF SerialStep, vars, StateChange, Detach, Attach, RequestReconcile, LocateByHand, LocateEnds, ByHand

LEMMA LitStep ==
    ASSUME Undisturbed, TypeOK, Serialized, VerifiedOwnership, Untroubled, Sections, LitIsOwned,
           [Next]_vars
    PROVE  LitIsOwned'
<1> USE DEF world, process
<1>1. ASSUME NEW p \in Proc, NEW b \in Bay, SwitchOff(p, b) PROVE LitIsOwned'
  <2>1. lit' = lit \ {b} /\ hand' = hand
    BY <1>1 DEF SwitchOff
  <2>2. \A c \in Bay : c # b => Records'[c] = Records[c]
    <3>1. Records \in [Bay -> NoneOr(Guid)]
      BY <1>1, RecordsSwitchedOff DEF TypeOK, Data
    <3>2. QED
      BY <1>1, <3>1, RecordsSwitchedOff
  <2>3. QED
    BY <2>1, <2>2 DEF LitIsOwned, TypeOK
<1>2. ASSUME NEW p \in Proc, NEW g \in Guid, NEW b \in Bay, SwitchOn(p, g, b) PROVE LitIsOwned'
  <2>1. lit' = lit \cup {b} /\ hand' = hand
    BY <1>2 DEF SwitchOn
  <2>2. Records \in [Bay -> NoneOr(Guid)]
    BY <1>2, RecordsSwitchedOn DEF TypeOK, Data
  <2>3. \A c \in Bay : Records'[c] = IF c = b THEN g ELSE Records[c]
    BY <1>2, <2>2, RecordsSwitchedOn
  <2>4. QED
    BY <2>1, <2>3, NoneAssumption DEF LitIsOwned, TypeOK
<1>3. ASSUME Records' = Records, UNCHANGED <<lit, hand>> PROVE LitIsOwned'
  BY <1>3 DEF LitIsOwned
<1>4. ASSUME NEW b \in Bay, Records' = Records, LocateByHand(b) PROVE LitIsOwned'
  <2>1. \A c \in Bay : hand[c] \in Nat
    BY DEF TypeOK
  <2>2. CASE lit' = lit \cup {b} /\ hand' = [hand EXCEPT ![b] = @ + 1]
    <3>1. \A c \in Bay : hand'[c] = IF c = b THEN hand[c] + 1 ELSE hand[c]
      BY <2>2 DEF TypeOK
    <3>2. QED
      BY <1>4, <2>1, <2>2, <3>1 DEF LitIsOwned, TypeOK
  <2>3. CASE lit' = lit \ {b} /\ UNCHANGED hand
    BY <1>4, <2>3 DEF LitIsOwned
  <2>4. QED
    BY <1>4, <2>2, <2>3 DEF LocateByHand
<1>5. ASSUME NEW b \in Bay, Records' = Records, LocateEnds(b), lit' = lit \ {b} PROVE LitIsOwned'
  <2>1. \A c \in Bay : c # b => hand'[c] = hand[c]
    BY <1>5 DEF LocateEnds, TypeOK
  <2>2. QED
    BY <1>5, <2>1 DEF LitIsOwned, TypeOK
<1>6. ASSUME Records' = Records,
             \A p \in Proc, b \in Bay : ~SwitchOff(p, b),
             \A p \in Proc, g \in Guid, b \in Bay : ~SwitchOn(p, g, b)
      PROVE  LitIsOwned'
  <2>1. ASSUME NEW p \in Proc, Start(p) \/ Run(p) PROVE LitIsOwned'
    BY <1>3, <1>6, <2>1 DEF Start, Accept, Run, Discover, MapBays, Lock, Treated, Refuse, Save
  <2>2. CASE \E b \in Bay : LocateByHand(b) \/ (LocateEnds(b) /\ lit' = lit \ {b})
    BY <1>4, <1>5, <1>6, <2>2
  <2>3. CASE \E g \in Guid : (\E h \in Health : StateChange(g, h)) \/ Detach(g) \/ Attach(g)
    BY <1>3, <1>6, <2>3 DEF StateChange, Detach, Attach
  <2>4. CASE RequestReconcile \/ UNCHANGED vars
    BY <1>3, <1>6, <2>4 DEF RequestReconcile, vars
  <2>5. QED
    BY <2>1, <2>2, <2>3, <2>4, OnlySerialSteps DEF SerialStep
<1>7. QED
  BY <1>1, <1>2, <1>6, RecordsKept

-----------------------------------------------------------------------------
(* Every vdev stays attended to.                                           *)

LEMMA ActionOfState ==
    \A h : /\ ActionFor(h) = "on" <=> h \in OnStates
           /\ ActionFor(h) = "off" <=> h = "ONLINE"
BY DEF ActionFor, OnStates

(* A helper that discovered the present state acts on it.                  *)
LEMMA ActionOnPresent ==
    ASSUME NEW p \in Proc, NEW g \in Guid, health[g] # None, snapH[p][g] = health[g]
    PROVE  Action(p, g) = ActionFor(health[g])
BY DEF Action

(* A new state, or an attached disk, leaves a request behind.              *)
LEMMA ChangeIsPending ==
    ASSUME TypeOK, IdsAreFresh, Untroubled, [Next]_vars, NEW g \in Guid,
           health'[g] # health[g], health'[g] # None, ActionFor(health'[g]) # "ignore"
    PROVE  Pending(g)'
<1> USE DEF world, process
<1>1. ASSUME NEW h \in Health, StateChange(g, h) PROVE Pending(g)'
  <2>1. /\ health'[g] = h /\ Event(g, h, nextId) \in queue' /\ Loaded' = Loaded
        /\ req' = req
    BY <1>1 DEF StateChange, TypeOK, Loaded
  <2>2. nextId # Loaded.last[g] /\ \A p \in Proc : req[p].id # nextId
    BY DEF IdsAreFresh, TypeOK
  <2>3. QED
    BY <2>1, <2>2 DEF Pending, Event
<1>2. ASSUME Attach(g) PROVE Pending(g)'
  <2>1. ReconcileRequest \in queue' /\ ReconcileRequest.mode = "reconcile"
    BY <1>2 DEF Attach, ReconcileRequest
  <2>2. QED
    BY <2>1 DEF Pending
<1>3. ASSUME NEW o \in Guid, Detach(o) PROVE FALSE
  BY <1>3 DEF Detach, TypeOK
<1>4. ASSUME NEW o \in Guid, (\E h \in Health : StateChange(o, h)) \/ Attach(o) PROVE o = g
  BY <1>4 DEF StateChange, Attach, TypeOK
<1>5. \E o \in Guid : (\E h \in Health : StateChange(o, h)) \/ Detach(o) \/ Attach(o)
  BY OnlySerialSteps
  DEF SerialStep, vars, RequestReconcile, LocateByHand, LocateEnds, ByHand,
      Start, Accept, Run, Discover, MapBays, Lock, SwitchOff, SwitchOn, Treated, Refuse, Save
<1>6. QED
  BY <1>1, <1>2, <1>3, <1>4, <1>5

(* A request that waits goes on waiting, or is what a helper works on.     *)
LEMMA PendingStays ==
    ASSUME TypeOK, IdsAreFresh, Untroubled, Sections, [Next]_vars, NEW g \in Guid, Pending(g)
    PROVE  Pending(g)' \/ \E p \in Proc : Upcoming(p, g)'
<1> USE DEF world, process
<1>1. PICK r \in queue :
        \/ r.mode = "reconcile"
        \/ /\ r.mode = "event" /\ r.guid = g /\ ActionFor(r.state) # "ignore"
           /\ r.id # Loaded.last[g]
           /\ \A p \in Proc : pc[p] # "idle" /\ req[p].mode = "event" /\ req[p].guid = g
                                 => req[p].id # r.id
  BY DEF Pending
<1>2. ASSUME NEW p \in Proc, Accept(p, r) PROVE Upcoming(p, g)'
  <2>1. FirstStep(r) = "discover"
    BY <1>1 DEF FirstStep
  <2>2. pc'[p] = "discover" /\ req'[p] = r /\ Loaded' = Loaded
    BY <1>2, <2>1 DEF Accept, TypeOK, Loaded
  <2>3. QED
    BY <1>1, <2>2 DEF Upcoming, Discovered
<1>3. CASE \A p \in Proc : ~Accept(p, r)
  <2>1. SerialStep
    BY OnlySerialSteps
  <2>2. r \in queue'
    <3>1. ASSUME NEW p \in Proc, NEW q \in queue, Accept(p, q) PROVE r \in queue'
      <4>1. q # r
        BY <1>3, <3>1
      <4>2. QED
        BY <3>1, <4>1 DEF Accept
    <3>2. QED
      BY <2>1, <3>1
      DEF SerialStep, vars, StateChange, Detach, Attach, RequestReconcile, LocateByHand, LocateEnds,
          ByHand, Start, Run, Discover, MapBays, Lock, SwitchOff, SwitchOn, Treated, Refuse, Save
  <2>3. CASE r.mode = "reconcile"
    BY <2>2, <2>3 DEF Pending
  <2>4. CASE r.mode = "event"
    <3>1. /\ r.guid = g /\ ActionFor(r.state) # "ignore" /\ r.id # Loaded.last[g]
          /\ \A p \in Proc : pc[p] # "idle" /\ req[p].mode = "event" /\ req[p].guid = g
                                => req[p].id # r.id
      BY <1>1, <2>4
    <3>2. r.id # Loaded'.last[g]
      <4>1. ASSUME NEW p \in Proc, Save(p), Loaded' = Commit(p) PROVE r.id # Loaded'.last[g]
        <5>1. data[p].last = Loaded.last /\ data[p] \in Data /\ pc[p] = "apply"
          BY <4>1 DEF Save, Done, Sections, TypeOK
        <5>2. CASE req[p].mode = "event" /\ req[p].guid = g
          BY <3>1, <4>1, <5>1, <5>2 DEF Commit, Data
        <5>3. CASE ~(req[p].mode = "event" /\ req[p].guid = g)
          BY <3>1, <4>1, <5>1, <5>3 DEF Commit, Data
        <5>4. QED
          BY <5>2, <5>3
      <4>2. QED
        BY <3>1, <4>1, LoadedStep
    <3>3. ASSUME NEW p \in Proc, pc'[p] # "idle", req'[p].mode = "event", req'[p].guid = g
          PROVE  req'[p].id # r.id
      <4>1. CASE pc[p] # "idle" /\ req'[p] = req[p]
        BY <3>1, <3>3, <4>1
      <4>2. ASSUME NEW q \in queue, Accept(p, q) PROVE req'[p].id # r.id
        <5>1. req'[p] = q
          BY <3>3, <4>2 DEF Accept, TypeOK
        <5>2. q # r
          BY <1>3, <4>2
        <5>3. QED
          BY <2>4, <3>3, <5>1, <5>2 DEF IdsAreFresh
      <4>3. ASSUME NEW o \in Proc, Run(o), ~(pc[p] # "idle" /\ req'[p] = req[p]) PROVE FALSE
        BY <3>3, <4>3 DEF Run, Discover, MapBays, Lock, SwitchOff, SwitchOn, Treated, Refuse, Abort,
                          Save, Done, Idle, TypeOK
      <4>4. ASSUME NEW o \in Proc, NEW q \in queue, Accept(o, q), o # p
            PROVE  pc[p] # "idle" /\ req'[p] = req[p]
        BY <3>3, <4>4 DEF Accept, TypeOK
      <4>5. UNCHANGED <<pc, req>> \/ \E o \in Proc : Start(o) \/ Run(o)
        BY <2>1 DEF SerialStep, vars, StateChange, Detach, Attach, RequestReconcile, LocateByHand,
                    LocateEnds, ByHand
      <4>6. QED
        BY <3>3, <4>1, <4>2, <4>3, <4>4, <4>5 DEF Start
    <3>4. QED
      BY <2>2, <2>4, <3>1, <3>2, <3>3 DEF Pending
  <2>5. QED
    BY <1>1, <2>3, <2>4
<1>4. QED
  BY <1>2, <1>3

-----------------------------------------------------------------------------
(* What a helper does about a vdev it works on.                            *)

(* A helper that will treat a vdev does so, and then its record is right.  *)
LEMMA UpcomingStays ==
    ASSUME Undisturbed, TypeOK, Serialized, VerifiedOwnership, Untroubled, Sections, [Next]_vars,
           NEW g \in Guid, NEW p \in Proc, Upcoming(p, g),
           health'[g] = health[g], health[g] # None, ActionFor(health[g]) # "ignore"
    PROVE  Upcoming(p, g)' \/ (RecordedRight(g) /\ UpToDate(g))'
<1> USE DEF world, process
<1>1. \A q \in Proc : q = p
  BY DEF Undisturbed
<1>2. pc[p] # "idle" /\ (pc[p] \in Discovered => snapH[p][g] = health[g])
  BY DEF Upcoming
<1>3. pc[p] \in Discovered => Action(p, g) = ActionFor(health[g])
  BY <1>2, ActionOnPresent
<1>4. ASSUME UNCHANGED <<pc[p], req[p], snapH[p]>>, Loaded' = Loaded,
             pc[p] = "apply" => g \in todo'[p]
      PROVE  Upcoming(p, g)'
  BY <1>4 DEF Upcoming
<1>5. bayOf' = bayOf /\ bayOf[g] = InitBay[g]
  BY OnlySerialSteps DEF Untroubled
<1>6. CASE Discover(p)
  <2>1. pc'[p] = "map" /\ req' = req /\ snapH'[p] = health' /\ Loaded' = Loaded
    BY <1>6 DEF Discover, TypeOK, Loaded
  <2>2. QED
    BY <1>6, <2>1 DEF Upcoming, Discover
<1>7. CASE MapBays(p)
  <2>1. pc'[p] = "lock" /\ pc[p] = "map" /\ req' = req /\ snapH' = snapH /\ Loaded' = Loaded
    BY <1>7 DEF MapBays, TypeOK, Loaded
  <2>2. QED
    BY <2>1 DEF Upcoming, Discovered
<1>8. CASE Lock(p)
  <2>1. /\ pc'[p] = "apply" /\ pc[p] = "lock" /\ req' = req /\ snapH' = snapH
        /\ todo'[p] = Worklist(p, Loaded)
    BY <1>8 DEF Lock, TypeOK
  <2>2. Relevant(p, g) /\ snapH[p][g] # None
    BY <1>2, <1>3, <2>1 DEF Relevant, Discovered
  <2>3. g \in Worklist(p, Loaded)
    BY <2>1, <2>2 DEF Upcoming, Worklist, Duplicate
  <2>4. QED
    BY <2>1, <2>3 DEF Upcoming, Discovered
<1>9. ASSUME NEW b \in Bay, SwitchOff(p, b) PROVE Upcoming(p, g)'
  BY <1>4, <1>9 DEF SwitchOff, Upcoming, Loaded
<1>10. ASSUME pc[p] = "apply" PROVE /\ g \in todo[p] /\ snapH[p][g] = health[g]
                                    /\ Action(p, g) = ActionFor(health[g])
                                    /\ TargetBay(p, g) = bayOf[g] /\ bayOf[g] \in Bay
  <2>1. g \in todo[p] /\ snapH[p][g] = health[g] /\ Action(p, g) = ActionFor(health[g])
    BY <1>2, <1>3, <1>10 DEF Upcoming, Discovered
  <2>2. TargetBay(p, g) = InitBay[g] /\ InitBay[g] \in Bay
    BY <1>10, <2>1, SeenIsUsable
  <2>3. QED
    BY <1>5, <2>1, <2>2
<1>11. ASSUME pc[p] = "apply", UNCHANGED <<pc, snapH>> PROVE UpToDate(g)'
  BY <1>1, <1>10, <1>11 DEF UpToDate
<1>12. ASSUME NEW x \in Guid, Treated(p, x)
       PROVE  Upcoming(p, g)' \/ (RecordedRight(g) /\ UpToDate(g))'
  <2>1. pc[p] = "apply" /\ UNCHANGED <<pc, req, snapH, file, lock, data>> /\ todo'[p] = todo[p] \ {x}
    BY <1>12 DEF Treated, TypeOK
  <2>2. CASE x # g
    BY <1>4, <1>10, <2>1, <2>2 DEF Loaded
  <2>3. CASE x = g
    <3>1. lock = p /\ p # None
      BY <2>1, NoneAssumption DEF Serialized
    <3>2. Records' = data[p].managed
      BY <2>1, <3>1 DEF Records, Effective
    <3>3. health[g] \in OnStates => data[p].managed[bayOf[g]] = g
      <4>1. Action(p, g) = "on" => data[p].managed[TargetBay(p, g)] = g
        BY <1>12, <2>3 DEF Treated
      <4>2. QED
        BY <1>10, <2>1, <4>1, ActionOfState
    <3>4. health[g] = "ONLINE" => \A b \in Bay : data[p].managed[b] # g
      <4>1. Action(p, g) = "off" => Clearing(p) = {} /\ Turn(p, g)
        BY <1>12, <2>3 DEF Treated
      <4>2. ASSUME NEW b \in Bay, Action(p, g) = "off", data[p].managed[b] = g PROVE FALSE
        <5>1. b \in Clearing(p)
          BY <4>1, <4>2, NoneAssumption DEF Clearing, ManagedKeys
        <5>2. QED
          BY <4>1, <4>2, <5>1
      <4>3. QED
        BY <1>10, <2>1, <4>2, ActionOfState
    <3>5. RecordedRight(g)'
      BY <1>5, <3>2, <3>3, <3>4 DEF RecordedRight
    <3>6. QED
      BY <1>11, <2>1, <3>5
  <2>4. QED
    BY <2>2, <2>3
<1>13. ASSUME NEW x \in Guid, NEW b \in Bay, SwitchOn(p, x, b)
       PROVE  Upcoming(p, g)' \/ (RecordedRight(g) /\ UpToDate(g))'
  <2>1. pc[p] = "apply" /\ UNCHANGED <<pc, req, snapH, file>> /\ todo'[p] = todo[p] \ {x}
    BY <1>13 DEF SwitchOn, TypeOK
  <2>2. CASE x # g
    BY <1>4, <1>10, <2>1, <2>2 DEF Loaded
  <2>3. CASE x = g
    <3>1. health[g] \in OnStates /\ b = bayOf[g]
      BY <1>10, <1>13, <2>1, <2>3, ActionOfState DEF SwitchOn, Lightable
    <3>2. Records' = [Records EXCEPT ![b] = g] /\ Records \in [Bay -> NoneOr(Guid)]
      BY <1>13, <2>3, RecordsSwitchedOn DEF TypeOK, Data
    <3>3. RecordedRight(g)'
      BY <1>5, <3>1, <3>2 DEF RecordedRight, OnStates
    <3>4. QED
      BY <1>11, <2>1, <3>3
  <2>4. QED
    BY <2>2, <2>3
<1>14. ASSUME NEW x \in Guid, Refuse(p, x) PROVE FALSE
  <2>1. pc[p] = "apply" /\ x \in todo[p]
    BY <1>14 DEF Refuse, Turn
  <2>2. req[p].mode = "event" /\ req[p].guid = x /\ snapH[p][x] = None
    BY <1>14, RefusalIsEarly
  <2>3. x = g
    BY <2>2 DEF Upcoming
  <2>4. QED
    BY <1>10, <2>1, <2>2, <2>3
<1>15. ~Save(p)
  BY <1>10 DEF Save, Done
<1>16. ASSUME NEW q \in Proc, Start(q) \/ Run(q)
       PROVE  Upcoming(p, g)' \/ (RecordedRight(g) /\ UpToDate(g))'
  <2>1. q = p /\ ~Start(p)
    BY <1>1, <1>2, <1>16 DEF Start, Accept
  <2>2. QED
    BY <1>6, <1>7, <1>8, <1>9, <1>12, <1>13, <1>14, <1>15, <1>16, <2>1 DEF Run
<1>17. UNCHANGED <<pc, req, snapH, todo, file>> \/ \E q \in Proc : Start(q) \/ Run(q)
  BY OnlySerialSteps
  DEF SerialStep, vars, StateChange, Detach, Attach, RequestReconcile, LocateByHand, LocateEnds, ByHand
<1>18. CASE UNCHANGED <<pc, req, snapH, todo, file>>
  BY <1>4, <1>18 DEF Upcoming, Loaded
<1>19. QED
  BY <1>16, <1>17, <1>18

(* A record that is right stays right while no helper knows the vdev in    *)
(* another state.                                                          *)
LEMMA RightStays ==
    ASSUME Undisturbed, TypeOK, Serialized, VerifiedOwnership, Untroubled, Sections, [Next]_vars,
           NEW g \in Guid, RecordedRight(g), UpToDate(g), health'[g] = health[g], health[g] # None
    PROVE  (RecordedRight(g) /\ UpToDate(g))'
<1> USE DEF world, process
<1>1. bayOf' = bayOf /\ bayOf[g] = InitBay[g] /\ bayOf[g] \in Bay
  BY OnlySerialSteps, InitAssumption DEF Untroubled, Undisturbed, NoneOr
<1>2. ASSUME NEW p \in Proc, pc[p] = "apply" PROVE Action(p, g) = ActionFor(health[g])
  BY <1>2, ActionOnPresent DEF UpToDate, Discovered
<1>3. ASSUME NEW p \in Proc, NEW b \in Bay, SwitchOff(p, b) PROVE (RecordedRight(g) /\ UpToDate(g))'
  <2>1. pc[p] = "apply" /\ UNCHANGED <<pc, snapH>>
    BY <1>3 DEF SwitchOff
  <2>2. /\ Records = data[p].managed /\ Records' = [Records EXCEPT ![b] = None]
        /\ Records \in [Bay -> NoneOr(Guid)]
    BY <1>3, RecordsSwitchedOff DEF TypeOK, Data
  <2>3. PICK x \in Guid : Action(p, x) = "off" /\ data[p].managed[b] = x
    BY <1>3 DEF SwitchOff, Least, Clearing, ManagedKeys, Untroubled
  <2>4. health[g] \in OnStates => b # bayOf[g]
    BY <1>2, <2>1, <2>2, <2>3, ActionOfState DEF RecordedRight
  <2>5. \A c \in Bay : Records'[c] = IF c = b THEN None ELSE Records[c]
    BY <2>2
  <2>6. RecordedRight(g)'
    BY <1>1, <2>4, <2>5, NoneAssumption DEF RecordedRight
  <2>7. QED
    BY <2>1, <2>6 DEF UpToDate
<1>4. ASSUME NEW p \in Proc, NEW x \in Guid, NEW b \in Bay, SwitchOn(p, x, b)
      PROVE  (RecordedRight(g) /\ UpToDate(g))'
  <2>1. pc[p] = "apply" /\ UNCHANGED <<pc, snapH>>
    BY <1>4 DEF SwitchOn
  <2>2. /\ Records = data[p].managed /\ Records' = [Records EXCEPT ![b] = x]
        /\ Records \in [Bay -> NoneOr(Guid)]
    BY <1>4, RecordsSwitchedOn DEF TypeOK, Data
  <2>3. Action(p, x) = "on" /\ Records[b] = None
    BY <1>4, <2>2 DEF SwitchOn, Lightable
  <2>4. health[g] = "ONLINE" => x # g
    BY <1>2, <2>1, <2>3, ActionOfState DEF OnStates
  <2>5. health[g] \in OnStates => b # bayOf[g]
    BY <2>3, NoneAssumption DEF RecordedRight
  <2>6. \A c \in Bay : Records'[c] = IF c = b THEN x ELSE Records[c]
    BY <2>2
  <2>7. RecordedRight(g)'
    BY <1>1, <2>4, <2>5, <2>6 DEF RecordedRight
  <2>8. QED
    BY <2>1, <2>7 DEF UpToDate
<1>5. CASE /\ \A p \in Proc, b \in Bay : ~SwitchOff(p, b)
           /\ \A p \in Proc, x \in Guid, b \in Bay : ~SwitchOn(p, x, b)
  <2>1. RecordedRight(g)'
    BY <1>1, <1>5, RecordsKept DEF RecordedRight
  <2>2. ASSUME NEW p \in Proc, NEW r \in queue, Accept(p, r) PROVE UpToDate(g)'
    <3>1. FirstStep(r) \notin Discovered
      BY DEF FirstStep, Untroubled, Discovered
    <3>2. QED
      BY <2>2, <3>1 DEF Accept, UpToDate, TypeOK
  <2>3. ASSUME NEW p \in Proc, Idle(p) PROVE UpToDate(g)'
    BY <2>3 DEF Idle, UpToDate, TypeOK, Discovered
  <2>4. ASSUME NEW p \in Proc, Discover(p) PROVE UpToDate(g)'
    BY <2>4 DEF Discover, UpToDate, TypeOK
  <2>5. ASSUME NEW p \in Proc, MapBays(p) \/ Lock(p) PROVE UpToDate(g)'
    BY <2>5 DEF MapBays, Lock, UpToDate, TypeOK, Discovered
  <2>6. ASSUME UNCHANGED <<pc, snapH>> PROVE UpToDate(g)'
    BY <2>6 DEF UpToDate
  <2>7. ASSUME NEW p \in Proc, Run(p) PROVE UpToDate(g)'
    BY <1>5, <2>3, <2>4, <2>5, <2>6, <2>7 DEF Run, Treated, Refuse, Abort, Save
  <2>8. UNCHANGED <<pc, snapH>> \/ \E p \in Proc : Start(p) \/ Run(p)
    BY OnlySerialSteps
    DEF SerialStep, vars, StateChange, Detach, Attach, RequestReconcile, LocateByHand, LocateEnds, ByHand
  <2>9. UpToDate(g)'
    BY <2>2, <2>6, <2>7, <2>8 DEF Start
  <2>10. QED
    BY <2>1, <2>9
<1>6. QED
  BY <1>3, <1>4, <1>5

LEMMA AttendedStep ==
    ASSUME Undisturbed, TypeOK, Serialized, VerifiedOwnership, Untroubled, IdsAreFresh, Sections,
           Attended, [Next]_vars
    PROVE  Attended'
<1> SUFFICES ASSUME NEW g \in Guid, health'[g] # None, ActionFor(health'[g]) # "ignore"
             PROVE  \/ Pending(g)'
                    \/ \E p \in Proc : Upcoming(p, g)'
                    \/ (RecordedRight(g) /\ UpToDate(g))'
  BY DEF Attended
<1>1. CASE health'[g] # health[g]
  BY <1>1, ChangeIsPending
<1>2. CASE health'[g] = health[g]
  <2>1. CASE Pending(g)
    BY <2>1, PendingStays
  <2>2. ASSUME NEW p \in Proc, Upcoming(p, g)
        PROVE  Upcoming(p, g)' \/ (RecordedRight(g) /\ UpToDate(g))'
    BY <1>2, <2>2, UpcomingStays
  <2>3. CASE RecordedRight(g) /\ UpToDate(g)
    BY <1>2, <2>3, RightStays
  <2>4. QED
    BY <1>2, <2>1, <2>2, <2>3 DEF Attended
<1>3. QED
  BY <1>1, <1>2

-----------------------------------------------------------------------------
(* The promise of the automation.                                          *)

LEMMA SerialInit ==
    ASSUME Undisturbed, Init
    PROVE  SerialInv
<1>1. Loaded = NewData /\ Records = NewData.managed
  BY CorruptAssumption, NewDataType DEF Init, Loaded, Records, Effective
<1>2. Untroubled
  <2>1. \A k \in Excluded : k \in Kind /\ budget[k] = 0
    BY DEF Undisturbed, Init, Excluded, Kind
  <2>2. QED
    BY <2>1 DEF Init, Untroubled, ReconcileRequest
<1>3. IdsAreFresh
  BY <1>1 DEF Init, IdsAreFresh, NewData, ReconcileRequest
<1>4. Sections
  BY DEF Init, Sections
<1>5. Attended
  <2>1. ASSUME NEW g \in Guid PROVE RecordedRight(g) /\ UpToDate(g)
    BY <1>1, NoneAssumption DEF Init, Undisturbed, RecordedRight, UpToDate, NewData, Discovered
  <2>2. QED
    BY <2>1 DEF Attended
<1>6. LitIsOwned
  BY DEF Init, LitIsOwned
<1>7. QED
  BY <1>2, <1>3, <1>4, <1>5, <1>6 DEF SerialInv

(* While one helper runs at a time and nothing fails, each vdev either is  *)
(* recorded as its state asks, or a request or a helper is left that will  *)
(* record it so, and every lit LED has an owner: whatever the disks, the   *)
(* bays and the number of requests (engine.go:104-146, state.go:72-93).    *)
THEOREM SerialInvariance ==
    ASSUME Undisturbed
    PROVE  Spec => []SerialInv
<1>1. Init => SerialInv
  BY SerialInit
<1>2. IInv /\ SerialInv /\ [Next]_vars => SerialInv'
  <2> SUFFICES ASSUME IInv, SerialInv, [Next]_vars PROVE SerialInv'
    OBVIOUS
  <2>1. /\ TypeOK /\ Serialized /\ VerifiedOwnership /\ EventsAreNew
        /\ Untroubled /\ IdsAreFresh /\ Sections /\ Attended /\ LitIsOwned
    BY DEF IInv, SerialInv
  <2>2. Untroubled'
    BY <2>1, UntroubledStep
  <2>3. IdsAreFresh'
    BY <2>1, IdsStep
  <2>4. Sections'
    BY <2>1, SectionsStep
  <2>5. Attended'
    BY <2>1, AttendedStep
  <2>6. LitIsOwned'
    BY <2>1, LitStep
  <2>7. QED
    BY <2>2, <2>3, <2>4, <2>5, <2>6 DEF SerialInv
<1>3. QED
  BY <1>1, <1>2, Invariance, PTL DEF Spec

(* When all is served, the file holds the records, and they suit the disks. *)
LEMMA QuietIsRecorded ==
    ASSUME IInv, SerialInv, Quiet, NEW g \in Guid, health[g] \in OnStates \cup {"ONLINE"}
    PROVE  RecordedRight(g) /\ Records = Loaded.managed
<1>1. ActionFor(health[g]) # "ignore" /\ health[g] # None
  BY NoneAssumption DEF ActionFor, OnStates, AllHealth
<1>2. ~Pending(g) /\ \A p \in Proc : ~Upcoming(p, g)
  BY DEF Quiet, Pending, Upcoming
<1>3. lock = None
  BY DEF Quiet, IInv, Serialized, TypeOK, NoneOr
<1>4. QED
  BY <1>1, <1>2, <1>3 DEF SerialInv, Attended, Records, Effective

(* While one helper runs at a time and nothing fails, no order of requests *)
(* leaves a faulted disk dark, in a bay nobody located by hand since the   *)
(* automation commanded it (README.md:155, engine.Handle).                 *)
THEOREM FaultedIsLit ==
    ASSUME Undisturbed
    PROVE  Spec => []SettledFaultedIsLit
<1>1. IInv /\ SerialInv => SettledFaultedIsLit
  <2> SUFFICES ASSUME IInv, SerialInv, Quiet, NEW g \in Guid, health[g] \in OnStates,
                      bayOf[g] \notin suspect \cup {None}
               PROVE  bayOf[g] \in lit
    BY DEF SettledFaultedIsLit
  <2>1. Loaded.managed[bayOf[g]] = g
    BY QuietIsRecorded DEF RecordedRight
  <2>2. bayOf[g] \in Bay
    BY DEF IInv, TypeOK, NoneOr
  <2>3. \A p \in Proc : touched[p] = {}
    BY DEF IInv, Serialized, Quiet
  <2>4. QED
    BY <2>1, <2>2, <2>3, NoneAssumption DEF IInv, HardwareAgrees
<1>2. QED
  BY <1>1, Invariance, SerialInvariance, PTL

(* While one helper runs at a time and nothing fails, no LED is left lit   *)
(* at the bay of a disk that is ONLINE once every request is served,       *)
(* located by hand before or not (README.md:156, engine.applyAction).      *)
THEOREM OnlineIsDark ==
    ASSUME Undisturbed
    PROVE  Spec => []QuietOnlineIsDark
<1>1. IInv /\ SerialInv => QuietOnlineIsDark
  <2> SUFFICES ASSUME IInv, SerialInv, Quiet, NEW g \in Guid, health[g] = "ONLINE",
                      bayOf[g] # None, bayOf[g] \in lit
               PROVE  FALSE
    BY DEF QuietOnlineIsDark
  <2>1. bayOf[g] \in Bay /\ hand[bayOf[g]] = 0
    BY DEF IInv, TypeOK, NoneOr, Quiet
  <2>2. Records[bayOf[g]] # None
    BY <2>1 DEF SerialInv, LitIsOwned
  <2>3. Records[bayOf[g]] \in Guid /\ InitBay[Records[bayOf[g]]] = bayOf[g]
    BY <2>1, <2>2, RecordsAreHome DEF IInv, SerialInv
  <2>4. Records[bayOf[g]] = g
    BY <2>3 DEF SerialInv, Untroubled, Undisturbed
  <2>5. QED
    BY <2>1, <2>4, QuietIsRecorded DEF RecordedRight
<1>2. QED
  BY <1>1, Invariance, SerialInvariance, PTL

=============================================================================
