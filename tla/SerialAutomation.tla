-------------------------- MODULE SerialAutomation --------------------------
(***************************************************************************)
(* When one helper runs at a time and nothing breaks, the automation keeps *)
(* its promise: once every request is served, the LED of each faulted disk *)
(* is lit and that of each disk that is ONLINE is dark.  This module says  *)
(* what "nothing breaks" means and why the promise is kept, whatever the   *)
(* order of the requests, however often ZED repeats its events and while   *)
(* disks change state, are detached, attached and located by hand.         *)
(* Module SerialAutomationProofs proves it.                                *)
(***************************************************************************)
EXTENDS Automation

(* One helper; each drive stays in a bay of its own; no command, save or   *)
(* helper fails; no cleanup; the disks are not faulted when the package is *)
(* installed.  The runs that expect a violation show what each is for.     *)
Excluded == {"move", "cleanup", "outage", "fail", "kill", "corrupt", "reboot"}
Undisturbed ==
    /\ \A p, q \in Proc : p = q
    /\ \A k \in Excluded : Limit[k] = 0
    /\ \A g \in Guid : InitBay[g] # None /\ InitHealth[g] \notin OnStates
    /\ \A g, o \in Guid : InitBay[g] = InitBay[o] => g = o

(* Nothing of what is excluded has happened.                               *)
Untroubled ==
    /\ \A k \in Excluded : budget[k] = 0
    /\ bayOf = InitBay
    /\ \A x \in verified : InitBay[x[1]] = x[2]
    /\ \A r \in queue : r.mode # "cleanup"
    /\ \A p \in Proc : req[p].mode # "cleanup"
    /\ \A p \in Proc : pc[p] \in {"lock", "apply"} =>
          \A g \in Guid : snapH[p][g] # None => snapB[p][g] = InitBay[g]

(* The ids tell events apart, and a new event from all that were seen.     *)
IdsAreFresh ==
    /\ \A r, s \in queue : r.mode = "event" /\ s.mode = "event" /\ r.id = s.id => r = s
    /\ \A r \in queue : r.id < nextId
    /\ \A p \in Proc : req[p].id < nextId
    /\ \A g \in Guid : Loaded.last[g] < nextId

(* An open section treats the vdev of its event, or members of the pool;   *)
(* it has recorded nothing yet when it may still refuse.                   *)
Sections ==
    \A p \in Proc : pc[p] = "apply" =>
       /\ data[p].last = Loaded.last
       /\ req[p].mode = "event" => todo[p] \subseteq {req[p].guid}
       /\ req[p].mode = "reconcile" => \A g \in todo[p] : snapH[p][g] # None
       /\ \A g \in todo[p] : req[p].mode = "event" /\ Action(p, g) = "on"
                                => data[p].managed = Loaded.managed

(* A request that will have vdev g treated, by its present state: it is    *)
(* waiting, and no copy of it is at work;                                  *)
Pending(g) ==
    \E r \in queue :
       \/ r.mode = "reconcile"
       \/ /\ r.mode = "event" /\ r.guid = g /\ ActionFor(r.state) # "ignore"
          /\ r.id # Loaded.last[g]
          /\ \A p \in Proc : pc[p] # "idle" /\ req[p].mode = "event" /\ req[p].guid = g
                                => req[p].id # r.id
(* or a helper works on it, and has discovered this very state or will.    *)
Discovered == {"map", "lock", "apply"}
Upcoming(p, g) ==
    /\ pc[p] # "idle"
    /\ \/ req[p].mode = "reconcile"
       \/ /\ req[p].mode = "event" /\ req[p].guid = g
          /\ pc[p] # "apply" => req[p].id # Loaded.last[g]
    /\ pc[p] \in Discovered => snapH[p][g] = health[g]
    /\ pc[p] = "apply" => g \in todo[p]

(* What is recorded suits the state of the vdev.                           *)
Records == Effective.managed
RecordedRight(g) ==
    /\ health[g] \in OnStates => Records[bayOf[g]] = g
    /\ health[g] = "ONLINE" => \A b \in Bay : Records[b] # g
UpToDate(g) == \A p \in Proc : pc[p] \in Discovered => snapH[p][g] = health[g]

(* Every vdev is recorded right, or will be treated; and a helper that     *)
(* does not know its present state is not the last to treat it.            *)
Attended ==
    \A g \in Guid : health[g] # None /\ ActionFor(health[g]) # "ignore" =>
       \/ Pending(g)
       \/ \E p \in Proc : Upcoming(p, g)
       \/ RecordedRight(g) /\ UpToDate(g)

(* Who lit an LED answers for it: a record, or a locate command.           *)
LitIsOwned == \A b \in lit : Records[b] # None \/ hand[b] > 0

SerialInv == Untroubled /\ IdsAreFresh /\ Sections /\ Attended /\ LitIsOwned
=============================================================================
