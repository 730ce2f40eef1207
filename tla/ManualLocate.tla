---------------------------- MODULE ManualLocate ----------------------------
(***************************************************************************)
(* The locate command of the zfs-pay CLI (internal/cli/runtime.go): each   *)
(* run finds the one disk its target names, switches on the locate LED of  *)
(* the bay that disk is in, waits for its timer or for Ctrl+C, and         *)
(* switches that LED off.  Runs share the LEDs and nothing else: no lock,  *)
(* no record.  Disks may be moved while a run waits.                       *)
(***************************************************************************)
EXTENDS Integers, FiniteSets

CONSTANTS
    Run,      \* invocations of "zfs-pay locate"
    Disk, Bay,
    Name,     \* device paths, serial numbers and vdev GUIDs
    Names,    \* [Disk -> SUBSET Name]: what each disk is called
    Placed,   \* [Disk -> Bay]: where the disks are at first
    None,     \* no bay
    Limit     \* how often each kind of trouble may happen

Trouble == {"move", "hide", "fail", "interrupt", "kill"}

ASSUME NamesAssumption == Names \in [Disk -> SUBSET Name]
ASSUME PlacedAssumption ==
    Placed \in [Disk -> Bay] /\ \A d, e \in Disk : Placed[d] = Placed[e] => d = e
ASSUME NoneAssumption  == None \notin Bay
ASSUME LimitAssumption == Limit \in [Trouble -> Nat]

Target == Name \cup Bay

VARIABLES
    bayOf,        \* [Disk -> Bay]: where the disks are
    lit,          \* the bays whose locate LED is on
    pc,           \* [Run -> {"new", "discover", "locate", "wait", "cleanup", "done"}]
    target,       \* [Run -> Target]
    off,          \* the runs with --off
    bay,          \* [Run -> the bay it selected, or None]
    interrupted,  \* the runs whose context was cancelled
    woken,        \* the runs that left the wait because of that
    result,       \* [Run -> {"none", "ok", "interrupted", "error", "killed"}]
    by,           \* history, [Bay -> the run that lit it last, or None]
    told,         \* history: the runs that reported their LED on
    tried,        \* history: the runs that tried to switch it off again
    budget        \* [Trouble -> Nat]: what Limit leaves

args == <<target, off>>
vars == <<bayOf, lit, pc, args, bay, interrupted, woken, result, by, told, tried, budget>>

TypeOK ==
    /\ bayOf \in [Disk -> Bay]
    /\ lit \subseteq Bay
    /\ pc \in [Run -> {"new", "discover", "locate", "wait", "cleanup", "done"}]
    /\ target \in [Run -> Target]
    /\ off \subseteq Run
    /\ bay \in [Run -> Bay \cup {None}]
    /\ interrupted \subseteq Run
    /\ woken \subseteq Run
    /\ result \in [Run -> {"none", "ok", "interrupted", "error", "killed"}]
    /\ by \in [Bay -> Run \cup {None}]
    /\ told \subseteq Run
    /\ tried \subseteq Run
    /\ budget \in [Trouble -> Nat]

(* parseLocateArgs gave every run a target and a bounded timeout.          *)
Init ==
    /\ bayOf = Placed
    /\ lit = {}
    /\ pc = [p \in Run |-> "new"]
    /\ target \in [Run -> Target]
    /\ off \in SUBSET Run
    /\ bay = [p \in Run |-> None]
    /\ interrupted = {}
    /\ woken = {}
    /\ result = [p \in Run |-> "none"]
    /\ by = [b \in Bay |-> None]
    /\ told = {}
    /\ tried = {}
    /\ budget = Limit

Spend(k) == /\ budget[k] > 0
            /\ budget' = [budget EXCEPT ![k] = @ - 1]

Goto(p, step) == pc' = [pc EXCEPT ![p] = step]

Exit(p, code) == /\ Goto(p, "done")
                 /\ result' = [result EXCEPT ![p] = code]

SwitchOn(p) == /\ lit' = lit \cup {bay[p]}
               /\ by' = [by EXCEPT ![bay[p]] = p]

SwitchOff(b) == lit' = lit \ {b} /\ by' = by

-----------------------------------------------------------------------------
Start(p) ==
    /\ pc[p] = "new"
    /\ Goto(p, "discover")
    /\ UNCHANGED <<bayOf, lit, args, bay, interrupted, woken, result, by, told, tried, budget>>

(* selectDisk: the disks that answer to t when the enclosure backends do   *)
(* not report the bays of the disks in hidden.                             *)
Answers(t, hidden) ==
    {d \in Disk : t \in Names[d] \/ (d \notin hidden /\ t = bayOf[d])}

(* Wrong on purpose: a disk without a bay is located as well.              *)
AnyDisk(hidden) == Disk
Locatable(hidden) == Disk \ hidden

BaySeen(d, hidden) == IF d \in hidden THEN None ELSE bayOf[d]

(* Inventory.Discover, Enclosures.Map, selectDisk, the capability, Plan.   *)
Discover(p) ==
    /\ pc[p] = "discover"
    /\ \E hidden \in SUBSET Disk :
          /\ IF hidden = {} THEN UNCHANGED budget ELSE Spend("hide")
          /\ \/ \E d \in Locatable(hidden) :
                   /\ Answers(target[p], hidden) = {d}
                   /\ bay' = [bay EXCEPT ![p] = BaySeen(d, hidden)]
                   /\ Goto(p, "locate")
                   /\ UNCHANGED result
             \/ /\ \A d \in Locatable(hidden) : Answers(target[p], hidden) # {d}
                /\ Exit(p, "error")
                /\ UNCHANGED bay
    /\ UNCHANGED <<bayOf, lit, args, interrupted, woken, by, told, tried>>

(* The LED command succeeds; a run with --off is finished.                 *)
Locate(p) ==
    /\ pc[p] = "locate"
    /\ \/ /\ p \notin off
          /\ SwitchOn(p)
          /\ told' = told \cup {p}
          /\ Goto(p, "wait")
          /\ UNCHANGED result
       \/ /\ p \in off
          /\ SwitchOff(bay[p])
          /\ Exit(p, "ok")
          /\ UNCHANGED told
    /\ UNCHANGED <<bayOf, args, bay, interrupted, woken, tried, budget>>

(* Wrong on purpose: only Ctrl+C ends the wait.                            *)
WakesInterrupted(p) == p \in interrupted
Wakes(p) == TRUE

(* Wrong on purpose: after Ctrl+C the command exits at once.               *)
AfterWaitExit(p) == IF p \in interrupted THEN "done" ELSE "cleanup"
AfterWait(p) == "cleanup"

(* The timer fires or the context is done; when both, either may win.      *)
Wake(p) ==
    /\ pc[p] = "wait"
    /\ Wakes(p)
    /\ woken' \in {woken} \cup (IF p \in interrupted THEN {woken \cup {p}} ELSE {})
    /\ Goto(p, AfterWait(p))
    /\ UNCHANGED <<bayOf, lit, args, bay, interrupted, result, by, told, tried, budget>>

(* Wrong on purpose: the bay the target names now, not the one it lit.     *)
BayNow(p) == IF \E d \in Disk : Answers(target[p], {}) = {d}
             THEN bayOf[CHOOSE d \in Disk : Answers(target[p], {}) = {d}]
             ELSE bay[p]
BayToClear(p) == bay[p]

Cleanup(p) ==
    /\ pc[p] = "cleanup"
    /\ SwitchOff(BayToClear(p))
    /\ tried' = tried \cup {p}
    /\ Exit(p, IF p \in woken THEN "interrupted" ELSE "ok")
    /\ UNCHANGED <<bayOf, args, bay, interrupted, woken, told, budget>>

-----------------------------------------------------------------------------
(* A command fails: by itself, or because Ctrl+C cancelled its context.    *)
Troubled(p) == IF p \in interrupted THEN UNCHANGED budget ELSE Spend("fail")

DiscoverFails(p) ==
    /\ pc[p] = "discover"
    /\ Troubled(p)
    /\ Exit(p, "error")
    /\ UNCHANGED <<bayOf, lit, args, bay, interrupted, woken, by, told, tried>>

(* The LED command fails, before or after the enclosure obeyed it.         *)
LocateFails(p) ==
    /\ pc[p] = "locate"
    /\ Troubled(p)
    /\ \/ p \notin off /\ SwitchOn(p)
       \/ p \in off /\ SwitchOff(bay[p])
       \/ UNCHANGED <<lit, by>>
    /\ Exit(p, "error")
    /\ UNCHANGED <<bayOf, args, bay, interrupted, woken, told, tried>>

(* The clean-up has a context of its own: Ctrl+C does not cancel it.       *)
CleanupFails(p) ==
    /\ pc[p] = "cleanup"
    /\ Spend("fail")
    /\ SwitchOff(BayToClear(p)) \/ UNCHANGED <<lit, by>>
    /\ tried' = tried \cup {p}
    /\ Exit(p, "error")
    /\ UNCHANGED <<bayOf, args, bay, interrupted, woken, told>>

(* signal.NotifyContext: SIGINT or SIGTERM cancels the context.            *)
Interrupt(p) ==
    /\ pc[p] \notin {"new", "done"}
    /\ p \notin interrupted
    /\ Spend("interrupt")
    /\ interrupted' = interrupted \cup {p}
    /\ UNCHANGED <<bayOf, lit, pc, args, bay, woken, result, by, told, tried>>

(* SIGKILL, SIGHUP of a lost terminal.                                     *)
Kill(p) ==
    /\ pc[p] \notin {"new", "done"}
    /\ Spend("kill")
    /\ Exit(p, "killed")
    /\ UNCHANGED <<bayOf, lit, args, bay, interrupted, woken, by, told, tried>>

MoveDisk(d, b) ==
    /\ \A e \in Disk : bayOf[e] # b
    /\ Spend("move")
    /\ bayOf' = [bayOf EXCEPT ![d] = b]
    /\ UNCHANGED <<lit, pc, args, bay, interrupted, woken, result, by, told, tried>>

Step(p) == Discover(p) \/ Locate(p) \/ Wake(p) \/ Cleanup(p)
Fault(p) == DiscoverFails(p) \/ LocateFails(p) \/ CleanupFails(p) \/ Interrupt(p) \/ Kill(p)

Next == \/ \E p \in Run : Start(p) \/ Step(p) \/ Fault(p)
        \/ \E d \in Disk, b \in Bay : MoveDisk(d, b)

Spec == Init /\ [][Next]_vars

(* The kernel runs a started command, and its timer fires.                 *)
FairSpec == Spec /\ \A p \in Run : WF_vars(Step(p))

-----------------------------------------------------------------------------
Failed(p) == result[p] \in {"error", "killed"}

(* A lit LED belongs to a run that will still switch it off, or to one     *)
(* that told its user of a failure or was killed: whatever other runs do   *)
(* and wherever the disk went, exit codes 0 and 130 mean that the LED this *)
(* run lit last is dark (runLocate).                                       *)
LightHasOwner ==
    \A b \in lit : LET p == by[b] IN
       /\ p \in Run
       /\ bay[p] = b
       /\ pc[p] \in {"wait", "cleanup"} \/ Failed(p)

(* A run that reported its LED on has tried to switch it off before it     *)
(* ends, by its timer or by Ctrl+C, unless it was killed (README.md:123).  *)
CleanupAttempted ==
    \A p \in told : pc[p] = "done" /\ result[p] # "killed" => p \in tried

(* For whoever shares the LEDs, a run is what HandLights promises: it      *)
(* commands one LED, on at most once and off before it ends, and leaves no *)
(* other behind, whatever signals, failures and moves come between         *)
(* (runLocate).                                                            *)
Hand == INSTANCE HandLights
          WITH holds <- [p \in Run |-> IF pc[p] \in {"wait", "cleanup"} THEN bay[p] ELSE None],
               over  <- {p \in Run : pc[p] = "done"},
               left  <- {b \in Bay : \E p \in Run : Failed(p) /\ bay[p] = b}
Promised == Hand!Spec

(* Every run ends: the wait has a bound.                                   *)
EveryRunEnds == \A p \in Run : pc[p] = "discover" ~> pc[p] = "done"

(* docs/cli.md:38, "cancellation also attempts a bounded cleanup before    *)
(* exiting": an interrupted run that lit an LED has tried to switch it off *)
(* when it ends.  Ctrl+C during the switch-on itself returns early.        *)
CancellationCleansUp ==
    \A b \in lit : LET p == by[b] IN
       p \in interrupted /\ pc[p] = "done" /\ result[p] # "killed" => p \in tried

-----------------------------------------------------------------------------
(* Why these hold: what is known of a run by where it is.                  *)
Phases ==
    \A p \in Run :
       /\ pc[p] \in {"locate", "wait", "cleanup"} => bay[p] \in Bay
       /\ pc[p] \in {"new", "discover"} => bay[p] = None
       /\ pc[p] # "done" => result[p] = "none"
       /\ p \in told => pc[p] \in {"wait", "cleanup", "done"}

IInv == TypeOK /\ Phases /\ LightHasOwner /\ CleanupAttempted
=============================================================================
