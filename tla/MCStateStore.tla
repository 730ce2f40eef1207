---------------------------- MODULE MCStateStore ----------------------------
(* A small instance of StateStore for TLC.                                 *)
EXTENDS StateStore, TLC

MCLimit == [k \in Trouble |-> 1]
=============================================================================
