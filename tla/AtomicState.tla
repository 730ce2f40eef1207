---------------------------- MODULE AtomicState -----------------------------
(***************************************************************************)
(* What state.Store promises to the automation: a register of applied      *)
(* updates.  An update takes effect at once or never, on top of every      *)
(* update before it; a success is told only after the effect; a damaged    *)
(* file is set aside, not overwritten unread; and a power loss takes back  *)
(* only effects whose success was not told, or told without durability.    *)
(***************************************************************************)
CONSTANT Update     \* the calls of Store.Update

VARIABLES
    ids,       \* the updates in effect
    ok,        \* the register is readable
    saved,     \* updates in effect when the register was set aside
    status,    \* [Update -> {"new", "open", "acked", "failed"}]
    volatile   \* updates that were acknowledged but are not durable

vars == <<ids, ok, saved, status, volatile>>

Init == /\ ids = {} /\ ok = TRUE /\ saved = {}
        /\ status = [u \in Update |-> "new"]
        /\ volatile = {}

Open(u) == /\ status[u] = "new"
           /\ status' = [status EXCEPT ![u] = "open"]
           /\ UNCHANGED <<ids, ok, saved, volatile>>

Apply(u) == /\ status[u] = "open"
            /\ ids' = ids \cup {u}
            /\ ok' = TRUE
            /\ UNCHANGED <<saved, status, volatile>>

Acknowledge(u) == /\ status[u] = "open"
                  /\ u \in ids \cup saved
                  /\ status' = [status EXCEPT ![u] = "acked"]
                  /\ volatile' \in {volatile, volatile \cup {u}}
                  /\ UNCHANGED <<ids, ok, saved>>

(* The caller learns of a failure, or dies: the effect is there or not.    *)
Fail(u) == /\ status[u] = "open"
           /\ status' = [status EXCEPT ![u] = "failed"]
           /\ UNCHANGED <<ids, ok, saved, volatile>>

Damage == /\ ok' = FALSE
          /\ UNCHANGED <<ids, saved, status, volatile>>

SetAside == /\ ~ok
            /\ ok' = TRUE
            /\ saved' = saved \cup ids
            /\ ids' = {}
            /\ UNCHANGED <<status, volatile>>

(* Every open call dies, and what is not durable may be gone.              *)
PowerLoss == /\ ids' \cup saved' \subseteq ids \cup saved
             /\ {u \in Update : status[u] = "acked"} \ volatile \subseteq ids' \cup saved'
             /\ ok' \in BOOLEAN
             /\ status' = [u \in Update |-> IF status[u] = "open" THEN "failed" ELSE status[u]]
             /\ UNCHANGED volatile

Next == \/ \E u \in Update : Open(u) \/ Apply(u) \/ Acknowledge(u) \/ Fail(u)
        \/ Damage
        \/ SetAside
        \/ PowerLoss

Spec == Init /\ [][Next]_vars
=============================================================================
