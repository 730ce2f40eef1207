----------------------------- MODULE HandLights -----------------------------
(***************************************************************************)
(* What "zfs-pay locate" promises to whoever shares the LEDs with it, the  *)
(* automation first of all: a run commands the LED of one bay, lights it   *)
(* at most once, darkens it when it is through, and only a run that tells  *)
(* of a failure, or is killed, may leave it otherwise.                     *)
(***************************************************************************)
CONSTANTS Run, Bay, None

VARIABLES
    lit,     \* the bays whose locate LED is on
    holds,   \* [Run -> the bay it lit and will darken, or None]
    over,    \* the runs that have ended
    left     \* the bays that failed or killed runs answer for no more

vars == <<lit, holds, over, left>>

Init == /\ lit = {}
        /\ holds = [p \in Run |-> None]
        /\ over = {}
        /\ left = {}

Ends(p) == /\ over' = over \cup {p}
           /\ holds' = [holds EXCEPT ![p] = None]

Light(p, b) == /\ p \notin over
               /\ holds[p] = None
               /\ lit' = lit \cup {b}
               /\ holds' = [holds EXCEPT ![p] = b]
               /\ UNCHANGED <<over, left>>

(* A run with --off.                                                       *)
Darken(p, b) == /\ p \notin over
                /\ holds[p] = None
                /\ lit' = lit \ {b}
                /\ Ends(p)
                /\ UNCHANGED left

Finish(p) == /\ p \notin over
             /\ holds[p] # None
             /\ lit' = lit \ {holds[p]}
             /\ Ends(p)
             /\ UNCHANGED left

(* A run that found no bay to locate.                                      *)
GiveUp(p) == /\ p \notin over
             /\ holds[p] = None
             /\ Ends(p)
             /\ UNCHANGED <<lit, left>>

(* Its one LED command may have been obeyed or not.                        *)
Fail(p, b) == /\ p \notin over
              /\ \/ holds[p] = None /\ lit' \in {lit, lit \cup {b}, lit \ {b}}
                 \/ holds[p] = b /\ lit' \in {lit, lit \ {b}}
              /\ left' = left \cup {b}
              /\ Ends(p)

Next == \E p \in Run : \/ Finish(p)
                       \/ GiveUp(p)
                       \/ \E b \in Bay : Light(p, b) \/ Darken(p, b) \/ Fail(p, b)

Spec == Init /\ [][Next]_vars
=============================================================================
