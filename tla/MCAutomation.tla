---------------------------- MODULE MCAutomation ----------------------------
(* Small instances of Automation for TLC.                                  *)
EXTENDS Automation, TLC

(* So often each, and none of the other kinds.                             *)
Budget(some) == [k \in Kind |-> IF k \in DOMAIN some THEN some[k]
                               ELSE IF k = "disturbance" THEN 10 ELSE 0]

TwoHealthy == [g \in Guid |-> "ONLINE"]
OwnBays    == [g \in Guid |-> g]

(* Two helpers at a time and every kind of disturbance, of which at most   *)
(* two happen in one behaviour beside the changes of state.                *)
SharedLimit == [k \in Kind |-> 2]
Helpers == Permutations(Proc)

(* One helper at a time and no failure: what the automation promises when  *)
(* its requests are served one after the other, in any order, while disks  *)
(* are detached, attached or located by hand.                              *)
SerialLimit == Budget([change |-> 3, topology |-> 2, duplicate |-> 1, request |-> 1,
                       locate |-> 1, disturbance |-> 2])

(* Two helpers and two changes of state, nothing else.                     *)
RaceLimit == Budget([change |-> 2])

(* The package is installed in a machine with a faulted disk in bay 1 and  *)
(* a missing disk whose bay nobody knows, then reconciles.                 *)
BothFaulted   == [g \in Guid |-> "FAULTED"]
SecondMissing == [g \in Guid |-> IF g = 1 THEN 1 ELSE None]
BootLimit     == Budget([request |-> 1])

(* Disk 1 faults, is detached and pulled; disk 2 takes its bay and joins.  *)
SecondSpare  == [g \in Guid |-> IF g = 1 THEN "ONLINE" ELSE None]
ReplaceLimit == Budget([change |-> 1, topology |-> 2, move |-> 2])

(* One disk that faults and is located by hand, and a later reconcile.     *)
OverriddenLimit == Budget([change |-> 1, locate |-> 1, request |-> 1])
=============================================================================
