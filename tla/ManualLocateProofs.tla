------------------------- MODULE ManualLocateProofs -------------------------
(* Proofs about ManualLocate, for any runs, disks, bays and names.         *)
EXTENDS ManualLocate, TLAPS

LEMMA SpendType ==
    ASSUME budget \in [Trouble -> Nat], NEW k \in Trouble, Spend(k)
    PROVE  budget' \in [Trouble -> Nat]
BY DEF Spend

LEMMA TroubledType ==
    ASSUME budget \in [Trouble -> Nat], NEW p, Troubled(p)
    PROVE  budget' \in [Trouble -> Nat]
BY SpendType DEF Troubled, Trouble

LEMMA InitIInv == Init => IInv
BY NoneAssumption, LimitAssumption, PlacedAssumption
DEF Init, IInv, TypeOK, Phases, LightHasOwner, CleanupAttempted

LEMMA TypeStep == TypeOK /\ Phases /\ [Next]_vars => TypeOK'
<1> SUFFICES ASSUME TypeOK, Phases, [Next]_vars PROVE TypeOK'
  OBVIOUS
<1> USE DEF TypeOK, Goto, Exit, args
<1>1. ASSUME NEW p \in Run, Start(p) PROVE TypeOK'
  BY <1>1 DEF Start
<1>2. ASSUME NEW p \in Run, Discover(p) PROVE TypeOK'
  <2>1. budget' \in [Trouble -> Nat]
    BY <1>2, SpendType DEF Discover, Trouble
  <2>2. bay' \in [Run -> Bay \cup {None}]
    BY <1>2 DEF Discover, BaySeen, Locatable
  <2>3. QED
    BY <1>2, <2>1, <2>2 DEF Discover
<1>3. ASSUME NEW p \in Run, Locate(p) PROVE TypeOK'
  <2>1. bay[p] \in Bay
    BY <1>3 DEF Locate, Phases
  <2>2. QED
    BY <1>3, <2>1 DEF Locate, SwitchOn, SwitchOff
<1>4. ASSUME NEW p \in Run, Wake(p) PROVE TypeOK'
  BY <1>4 DEF Wake, AfterWait
<1>5. ASSUME NEW p \in Run, Cleanup(p) PROVE TypeOK'
  BY <1>5 DEF Cleanup, SwitchOff
<1>6. ASSUME NEW p \in Run, Fault(p) PROVE TypeOK'
  <2>1. CASE DiscoverFails(p)
    BY <2>1, TroubledType DEF DiscoverFails
  <2>2. CASE LocateFails(p)
    <3>1. bay[p] \in Bay
      BY <2>2 DEF LocateFails, Phases
    <3>2. QED
      BY <2>2, <3>1, TroubledType DEF LocateFails, SwitchOn, SwitchOff
  <2>3. CASE CleanupFails(p)
    BY <2>3, SpendType DEF CleanupFails, SwitchOff, Trouble
  <2>4. CASE Interrupt(p)
    BY <2>4, SpendType DEF Interrupt, Trouble
  <2>5. CASE Kill(p)
    BY <2>5, SpendType DEF Kill, Trouble
  <2>6. QED
    BY <1>6, <2>1, <2>2, <2>3, <2>4, <2>5 DEF Fault
<1>7. ASSUME NEW d \in Disk, NEW b \in Bay, MoveDisk(d, b) PROVE TypeOK'
  BY <1>7, SpendType DEF MoveDisk, Trouble
<1>8. CASE UNCHANGED vars
  BY <1>8 DEF vars
<1>9. QED
  BY <1>1, <1>2, <1>3, <1>4, <1>5, <1>6, <1>7, <1>8 DEF Next, Step

LEMMA PhasesStep == TypeOK /\ Phases /\ [Next]_vars => Phases'
<1> SUFFICES ASSUME TypeOK, Phases, [Next]_vars PROVE Phases'
  OBVIOUS
<1> USE DEF TypeOK, Phases, Goto, Exit, args
<1>1. ASSUME NEW p \in Run, Start(p) \/ Wake(p) PROVE Phases'
  BY <1>1 DEF Start, Wake, AfterWait
<1>2. ASSUME NEW p \in Run, Discover(p) PROVE Phases'
  BY <1>2 DEF Discover, BaySeen, Locatable
<1>3. ASSUME NEW p \in Run, Locate(p) \/ Cleanup(p) PROVE Phases'
  BY <1>3 DEF Locate, Cleanup
<1>4. ASSUME NEW p \in Run, Fault(p) PROVE Phases'
  BY <1>4 DEF Fault, DiscoverFails, LocateFails, CleanupFails, Interrupt, Kill
<1>5. CASE (\E d \in Disk, b \in Bay : MoveDisk(d, b)) \/ UNCHANGED vars
  BY <1>5 DEF MoveDisk, vars
<1>6. QED
  BY <1>1, <1>2, <1>3, <1>4, <1>5 DEF Next, Step

(* A run that ends switched its own LED off or tells of a failure.         *)
LEMMA OwnerStep == TypeOK /\ Phases /\ LightHasOwner /\ [Next]_vars => LightHasOwner'
<1> SUFFICES ASSUME TypeOK, Phases, LightHasOwner, [Next]_vars PROVE LightHasOwner'
  OBVIOUS
<1> USE DEF TypeOK, LightHasOwner, Failed, Goto, Exit, args
<1>1. ASSUME NEW p \in Run, Start(p) \/ Wake(p) PROVE LightHasOwner'
  BY <1>1 DEF Start, Wake, AfterWait
<1>2. ASSUME NEW p \in Run, Discover(p) PROVE LightHasOwner'
  <2>1. \A b \in lit : by[b] # p
    BY <1>2 DEF Discover, Phases
  <2>2. QED
    BY <1>2, <2>1 DEF Discover
<1>3. ASSUME NEW p \in Run, Locate(p) PROVE LightHasOwner'
  <2>1. bay[p] \in Bay /\ \A b \in lit : by[b] # p
    BY <1>3 DEF Locate, Phases
  <2>2. QED
    BY <1>3, <2>1 DEF Locate, SwitchOn, SwitchOff
<1>4. ASSUME NEW p \in Run, Cleanup(p) PROVE LightHasOwner'
  BY <1>4 DEF Cleanup, SwitchOff, BayToClear
<1>5. ASSUME NEW p \in Run, LocateFails(p) PROVE LightHasOwner'
  <2>1. bay[p] \in Bay /\ \A b \in lit : by[b] # p
    BY <1>5 DEF LocateFails, Phases
  <2>2. QED
    BY <1>5, <2>1 DEF LocateFails, SwitchOn, SwitchOff
<1>6. ASSUME NEW p \in Run, CleanupFails(p) \/ DiscoverFails(p) \/ Interrupt(p) \/ Kill(p)
      PROVE  LightHasOwner'
  BY <1>6 DEF CleanupFails, DiscoverFails, Interrupt, Kill, SwitchOff
<1>7. CASE (\E d \in Disk, b \in Bay : MoveDisk(d, b)) \/ UNCHANGED vars
  BY <1>7 DEF MoveDisk, vars
<1>8. QED
  BY <1>1, <1>2, <1>3, <1>4, <1>5, <1>6, <1>7 DEF Next, Step, Fault

LEMMA AttemptStep == TypeOK /\ Phases /\ CleanupAttempted /\ [Next]_vars => CleanupAttempted'
<1> SUFFICES ASSUME TypeOK, Phases, CleanupAttempted, [Next]_vars PROVE CleanupAttempted'
  OBVIOUS
<1> USE DEF TypeOK, Phases, CleanupAttempted, Goto, Exit, args
<1>1. ASSUME NEW p \in Run, Start(p) \/ Step(p) PROVE CleanupAttempted'
  BY <1>1 DEF Start, Step, Discover, Locate, Wake, AfterWait, Cleanup
<1>2. ASSUME NEW p \in Run, Fault(p) PROVE CleanupAttempted'
  BY <1>2 DEF Fault, DiscoverFails, LocateFails, CleanupFails, Interrupt, Kill
<1>3. CASE (\E d \in Disk, b \in Bay : MoveDisk(d, b)) \/ UNCHANGED vars
  BY <1>3 DEF MoveDisk, vars
<1>4. QED
  BY <1>1, <1>2, <1>3 DEF Next

(* No run, move, failure or signal breaks the invariant.                   *)
THEOREM Invariance == Spec => []IInv
<1>1. IInv /\ [Next]_vars => IInv'
  BY TypeStep, PhasesStep, OwnerStep, AttemptStep DEF IInv
<1>2. QED
  BY <1>1, InitIInv, PTL DEF Spec

(* Every variable keeps its type.                                          *)
THEOREM TypeCorrect == Spec => []TypeOK
<1>1. IInv => TypeOK
  BY DEF IInv
<1>2. QED
  BY <1>1, Invariance, PTL

(* A lit LED belongs to a run that will switch it off, that told of a      *)
(* failure or that was killed (runLocate).                                 *)
THEOREM LightsAreOwned == Spec => []LightHasOwner
<1>1. IInv => LightHasOwner
  BY DEF IInv
<1>2. QED
  BY <1>1, Invariance, PTL

(* A run that reported its LED on tries to switch it off (runLocate).      *)
THEOREM CleanupIsAttempted == Spec => []CleanupAttempted
<1>1. IInv => CleanupAttempted
  BY DEF IInv
<1>2. QED
  BY <1>1, Invariance, PTL

-----------------------------------------------------------------------------
(* What a run is for those who share the LEDs.                             *)

holds == [p \in Run |-> IF pc[p] \in {"wait", "cleanup"} THEN bay[p] ELSE None]
over  == {p \in Run : pc[p] = "done"}
left  == {b \in Bay : \E p \in Run : Failed(p) /\ bay[p] = b}

(* A step that shows nothing of itself.                                    *)
LEMMA Hidden ==
    ASSUME UNCHANGED <<lit, holds, over, left>>
    PROVE  UNCHANGED Hand!vars
BY DEF Hand!vars, holds, over, left

LEMMA InitMaps == ASSUME Init PROVE Hand!Init
<1>1. lit = {} /\ over = {} /\ left = {}
  BY DEF Init, over, left, Failed
<1>2. holds = [p \in Run |-> None]
  BY DEF Init, holds
<1>3. QED
  BY <1>1, <1>2 DEF Hand!Init, holds, over, left

(* What is seen of a run that ends.                                        *)
LEMMA EndMaps ==
    ASSUME TypeOK, Phases, NEW p \in Run, NEW code, Exit(p, code), pc[p] # "done",
           UNCHANGED bay
    PROVE  /\ over' = over \cup {p}
           /\ holds' = [holds EXCEPT ![p] = None]
           /\ p \notin over
           /\ code \notin {"error", "killed"} \/ bay[p] = None => left' = left
           /\ code \in {"error", "killed"} /\ bay[p] \in Bay => left' = left \cup {bay[p]}
<1> USE DEF TypeOK, Exit, Goto
<1>1. /\ pc'[p] = "done" /\ result'[p] = code
      /\ \A q \in Run \ {p} : pc'[q] = pc[q] /\ result'[q] = result[q]
  OBVIOUS
<1>2. over' = over \cup {p} /\ p \notin over
  BY <1>1 DEF over
<1>3. holds' = [holds EXCEPT ![p] = None]
  BY <1>1 DEF holds
<1>4. \A q \in Run : Failed(q)' <=> Failed(q) \/ (q = p /\ code \in {"error", "killed"})
  BY <1>1 DEF Failed, Phases
<1>5. code \notin {"error", "killed"} \/ bay[p] = None => left' = left
  BY <1>4, NoneAssumption DEF left
<1>6. code \in {"error", "killed"} /\ bay[p] \in Bay => left' = left \cup {bay[p]}
  BY <1>4 DEF left
<1>7. QED
  BY <1>2, <1>3, <1>5, <1>6

LEMMA StepMaps ==
    ASSUME TypeOK, Phases, [Next]_vars
    PROVE  [Hand!Next]_(Hand!vars)
<1> USE DEF args
<1>1. ASSUME NEW p \in Run, Start(p) PROVE UNCHANGED Hand!vars
  <2>1. holds' = holds /\ over' = over /\ left' = left /\ lit' = lit
    BY <1>1 DEF Start, Goto, TypeOK, holds, over, left, Failed
  <2>2. QED
    BY <2>1, Hidden
<1>2. ASSUME NEW p \in Run, NEW b \in Bay, b = bay[p], Locate(p), p \notin off
      PROVE  Hand!Light(p, b)
  <2>1. pc[p] = "locate" /\ bay[p] \in Bay /\ pc'[p] = "wait" /\ lit' = lit \cup {bay[p]}
    BY <1>2 DEF Locate, SwitchOn, Goto, TypeOK, Phases
  <2>2. /\ UNCHANGED <<bay, result>>
        /\ \A q \in Run \ {p} : pc'[q] = pc[q]
    BY <1>2 DEF Locate, Goto, TypeOK
  <2>3. over' = over /\ left' = left /\ p \notin over /\ holds[p] = None
    BY <2>1, <2>2 DEF over, left, holds, Failed
  <2>4. holds' = [holds EXCEPT ![p] = bay[p]]
    BY <2>1, <2>2 DEF holds
  <2>5. QED
    BY <1>2, <2>1, <2>3, <2>4 DEF Hand!Light, holds, over, left
<1>3. ASSUME NEW p \in Run, NEW b \in Bay, b = bay[p], Locate(p), p \in off
      PROVE  Hand!Darken(p, b)
  <2>1. /\ Exit(p, "ok") /\ pc[p] = "locate" /\ UNCHANGED bay
        /\ lit' = lit \ {bay[p]} /\ holds[p] = None
    BY <1>3 DEF Locate, SwitchOff, holds
  <2>2. /\ over' = over \cup {p} /\ holds' = [holds EXCEPT ![p] = None]
        /\ p \notin over /\ left' = left
    <3>1. "ok" \notin {"error", "killed"} /\ pc[p] # "done"
      BY <2>1
    <3>2. QED
      BY <2>1, <3>1, EndMaps
  <2>3. QED
    BY <1>3, <2>1, <2>2 DEF Hand!Darken, Hand!Ends, holds, over, left
<1>4. ASSUME NEW p \in Run, Wake(p) PROVE UNCHANGED Hand!vars
  <2>1. /\ pc[p] = "wait" /\ pc'[p] = "cleanup" /\ UNCHANGED <<bay, result, lit>>
        /\ \A q \in Run \ {p} : pc'[q] = pc[q]
    BY <1>4 DEF Wake, AfterWait, Goto, TypeOK
  <2>2. holds' = holds /\ over' = over /\ left' = left
    BY <2>1 DEF holds, over, left, Failed
  <2>3. QED
    BY <2>1, <2>2, Hidden
<1>5. ASSUME NEW p \in Run, Cleanup(p) PROVE Hand!Finish(p)
  <2>1. PICK code \in {"interrupted", "ok"} :
           Exit(p, code) /\ pc[p] = "cleanup" /\ UNCHANGED bay /\ lit' = lit \ {bay[p]}
    BY <1>5 DEF Cleanup, SwitchOff, BayToClear
  <2>2. holds[p] = bay[p] /\ bay[p] # None
    BY <2>1, NoneAssumption DEF holds, Phases
  <2>3. /\ over' = over \cup {p} /\ holds' = [holds EXCEPT ![p] = None]
        /\ p \notin over /\ left' = left
    BY <2>1, EndMaps
  <2>4. QED
    BY <2>1, <2>2, <2>3 DEF Hand!Finish, Hand!Ends, holds, over, left
(* A run that ends with nothing to answer for, and one that fails.         *)
<1>6. ASSUME NEW p \in Run, NEW code, Exit(p, code), pc[p] \in {"discover"}, UNCHANGED <<bay, lit>>
      PROVE  Hand!GiveUp(p)
  <2>1. bay[p] = None /\ holds[p] = None /\ pc[p] # "done"
    BY <1>6 DEF Phases, holds
  <2>2. /\ over' = over \cup {p} /\ holds' = [holds EXCEPT ![p] = None]
        /\ p \notin over /\ left' = left
    BY <1>6, <2>1, EndMaps
  <2>3. QED
    BY <1>6, <2>1, <2>2 DEF Hand!GiveUp, Hand!Ends, holds, over, left
<1>7. ASSUME NEW p \in Run, NEW b \in Bay, b = bay[p], NEW code \in {"error", "killed"},
             Exit(p, code), UNCHANGED bay,
             \/ pc[p] = "locate" /\ lit' \in {lit, lit \cup {b}, lit \ {b}}
             \/ pc[p] \in {"wait", "cleanup"} /\ lit' \in {lit, lit \ {b}}
      PROVE  Hand!Next
  <2>1. bay[p] \in Bay /\ bay[p] # None /\ pc[p] # "done"
    BY <1>7, NoneAssumption DEF Phases
  <2>2. /\ over' = over \cup {p} /\ holds' = [holds EXCEPT ![p] = None]
        /\ p \notin over /\ left' = left \cup {bay[p]}
    BY <1>7, <2>1, EndMaps
  <2>3. holds[p] = IF pc[p] = "locate" THEN None ELSE b
    BY <1>7 DEF holds
  <2>4. Hand!Fail(p, b)
    BY <1>7, <2>1, <2>2, <2>3 DEF Hand!Fail, Hand!Ends, holds, over, left
  <2>5. QED
    BY <2>4 DEF Hand!Next
<1>8. ASSUME NEW p \in Run, Discover(p) PROVE Hand!GiveUp(p) \/ UNCHANGED Hand!vars
  <2>1. CASE Exit(p, "error") /\ UNCHANGED bay
    BY <1>6, <1>8, <2>1 DEF Discover
  <2>2. CASE Goto(p, "locate") /\ UNCHANGED result
    <3>1. /\ pc[p] = "discover" /\ pc'[p] = "locate" /\ UNCHANGED <<lit, result>>
          /\ \A q \in Run \ {p} : pc'[q] = pc[q] /\ bay'[q] = bay[q]
      BY <1>8, <2>2 DEF Discover, Goto, TypeOK
    <3>2. result[p] = "none"
      BY <3>1 DEF Phases
    <3>3. holds' = holds /\ over' = over /\ left' = left
      BY <3>1, <3>2 DEF holds, over, left, Failed
    <3>4. QED
      BY <3>1, <3>3, Hidden
  <2>3. QED
    BY <1>8, <2>1, <2>2 DEF Discover
<1>9. ASSUME NEW p \in Run, Fault(p)
      PROVE  Hand!GiveUp(p) \/ Hand!Next \/ UNCHANGED Hand!vars
  <2>1. CASE DiscoverFails(p)
    BY <1>6, <2>1 DEF DiscoverFails
  <2>2. CASE LocateFails(p)
    <3>1. PICK b \in Bay : b = bay[p]
      BY <2>2 DEF LocateFails, Phases
    <3>2. lit' \in {lit, lit \cup {b}, lit \ {b}} /\ pc[p] = "locate"
      BY <2>2, <3>1 DEF LocateFails, SwitchOn, SwitchOff
    <3>3. QED
      BY <1>7, <2>2, <3>1, <3>2 DEF LocateFails
  <2>3. CASE CleanupFails(p)
    <3>1. PICK b \in Bay : b = bay[p]
      BY <2>3 DEF CleanupFails, Phases
    <3>2. lit' \in {lit, lit \ {b}} /\ pc[p] = "cleanup"
      BY <2>3, <3>1 DEF CleanupFails, SwitchOff, BayToClear
    <3>3. QED
      BY <1>7, <2>3, <3>1, <3>2 DEF CleanupFails
  <2>4. CASE Interrupt(p)
    <3>1. holds' = holds /\ over' = over /\ left' = left /\ lit' = lit
      BY <2>4 DEF Interrupt, holds, over, left, Failed
    <3>2. QED
      BY <3>1, Hidden
  <2>5. CASE Kill(p)
    <3>1. /\ Exit(p, "killed") /\ UNCHANGED <<bay, lit>>
          /\ pc[p] \in {"discover", "locate", "wait", "cleanup"}
      BY <2>5 DEF Kill, TypeOK
    <3>2. CASE pc[p] = "discover"
      BY <1>6, <3>1, <3>2
    <3>3. CASE pc[p] # "discover"
      <4>1. PICK b \in Bay : b = bay[p]
        BY <3>1, <3>3 DEF Phases
      <4>2. QED
        BY <1>7, <3>1, <3>3, <4>1
    <3>4. QED
      BY <3>2, <3>3
  <2>6. QED
    BY <1>9, <2>1, <2>2, <2>3, <2>4, <2>5 DEF Fault
<1>10. CASE (\E d \in Disk, b \in Bay : MoveDisk(d, b)) \/ UNCHANGED vars
  <2>1. holds' = holds /\ over' = over /\ left' = left /\ lit' = lit
    BY <1>10 DEF MoveDisk, vars, holds, over, left, Failed
  <2>2. QED
    BY <2>1, Hidden
<1>11. ASSUME NEW p \in Run, Start(p) \/ Step(p) \/ Fault(p) PROVE Hand!Next \/ UNCHANGED Hand!vars
  <2>1. CASE Locate(p)
    <3>1. PICK b \in Bay : b = bay[p]
      BY <2>1 DEF Locate, Phases
    <3>2. Hand!Light(p, b) \/ Hand!Darken(p, b)
      BY <1>2, <1>3, <2>1, <3>1
    <3>3. QED
      BY <3>2 DEF Hand!Next
  <2>2. CASE Fault(p)
    BY <1>9, <2>2 DEF Hand!Next
  <2>3. CASE Cleanup(p)
    BY <1>5, <2>3 DEF Hand!Next
  <2>4. CASE Discover(p)
    BY <1>8, <2>4 DEF Hand!Next
  <2>5. QED
    BY <1>1, <1>4, <1>11, <2>1, <2>2, <2>3, <2>4 DEF Step
<1>12. QED
  BY <1>10, <1>11 DEF Next

(* A run commands the LED of one bay, lights it at most once and darkens   *)
(* it before it ends, unless it tells of a failure or is killed: what the  *)
(* automation takes for granted of those it shares the LEDs with           *)
(* (runLocate).                                                            *)
THEOREM Refinement == Spec => Promised
<1>1. IInv /\ [Next]_vars => [Hand!Next]_(Hand!vars)
  BY StepMaps DEF IInv
<1>2. Init => Hand!Init
  BY InitMaps
<1>3. QED
  BY <1>1, <1>2, Invariance, PTL DEF Spec, Promised, Hand!Spec
=============================================================================
