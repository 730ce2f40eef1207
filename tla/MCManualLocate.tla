--------------------------- MODULE MCManualLocate ---------------------------
(* A small instance of ManualLocate for TLC: two disks, each with a name   *)
(* of its own, that share a third one, as cables or adapters with the same *)
(* serial number do.                                                       *)
EXTENDS ManualLocate, TLC

CONSTANTS d1, d2, b1, b2, b3, n1, n2, shared

MCNames == d1 :> {n1, shared} @@ d2 :> {n2, shared}

MCPlaced == d1 :> b1 @@ d2 :> b2

MCLimit == [k \in Trouble |-> 1]
=============================================================================
