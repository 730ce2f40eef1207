---------------------------- MODULE MCDiscovery ----------------------------
(* A small instance of Discovery for TLC.  Vdev 1 is named by id; 4 is     *)
(* another partition of its drive; 3 may replace 2, or be the spare of two *)
(* pools.  Place p1 is seen by StorCLI and SES, p2 by SES, p3 by none.     *)
EXTENDS Discovery, TLC

CONSTANTS d1, d2, d3, n1, n2, n3, p1, p2, p3, s1, s2, s3, w1, w2, w3

MCDriveOf == 1 :> d1 @@ 2 :> d2 @@ 3 :> d3 @@ 4 :> d1
MCPrinted == d1 :> {"serial", "wwn"} @@ d2 :> {} @@ d3 :> {"wwn"}

Leaf(g, s) == [guid |-> g, shape |-> s]
MCLayout == { <<Leaf(1, "ok"), Leaf(2, "ok")>>,
              <<Leaf(1, "ok"), Leaf(3, "ok")>>,
              <<Leaf(4, "ok"), Leaf(1, "ok"), Leaf(2, "ok")>>,
              <<Leaf(3, "bad"), Leaf(3, "bad")>> }

(* Vdev 2 has its kernel name, 4 its slot, and 3, whose drive is gone, a   *)
(* kernel name that is another drive's by now.                             *)
MCStart ==
    { [node |-> n1 :> d1 @@ n2 :> d2 @@ n3 :> None,
       name |-> 1 :> d1 @@ 2 :> n2 @@ 3 :> n2 @@ 4 :> p1,
       place |-> d1 :> p1 @@ d2 :> p2 @@ d3 :> None] }

(* All ways to place the drives, with the third one there or gone, and     *)
(* with paths that are right, stale, or those of other drives.  Only the   *)
(* discoveries of MCStart, which is one of them, are disturbed.            *)
MCWirings ==
    { [node |-> n1 :> d1 @@ n2 :> d2 @@ n3 :> third,
       name |-> 1 :> d1 @@ 2 :> two @@ 3 :> three @@ 4 :> four,
       place |-> d1 :> at[1] @@ d2 :> at[2] @@ d3 :> IF third = None THEN None ELSE at[3]] :
       third \in {None, d3}, two \in {n1, n2, n3}, three \in {n2, n3, p1, d3}, four \in {n1, p1},
       at \in {<<p1, p2, p3>>, <<p1, p3, p2>>, <<p2, p1, p3>>,
               <<p2, p3, p1>>, <<p3, p1, p2>>, <<p3, p2, p1>>} }

Id(s, w) == [serial |-> s, wwn |-> w]
(* All different; a serial number twice, with a WWN to tell the drives     *)
(* apart, beside a drive with a WWN only; a serial number twice and        *)
(* nothing to tell the drives apart, beside a drive without anything.      *)
MCIdentities ==
    { d1 :> Id(s1, w1) @@ d2 :> Id(s2, None) @@ d3 :> Id(s3, w3),
      d1 :> Id(s1, w1) @@ d2 :> Id(None, w2) @@ d3 :> Id(s1, w3),
      d1 :> Id(s1, None) @@ d2 :> Id(s1, None) @@ d3 :> Id(None, None) }

MCLimit == [hotplug |-> 2, pool |-> 1, command |-> 2, backend |-> 1]

OneDisturbed == Calm /\ ~Calm' => [node |-> node, name |-> name, place |-> place] \in MCStart

(* The pool may change in the middle of the fallback, when each vdev is    *)
(* found by its own path.                                                  *)
MCFound == { [node |-> n1 :> d1 @@ n2 :> d2 @@ n3 :> d3,
              name |-> 1 :> d1 @@ 2 :> n2 @@ 3 :> n3 @@ 4 :> p1,
              place |-> d1 :> p1 @@ d2 :> p2 @@ d3 :> p3] }
MCPoolChange == [hotplug |-> 0, pool |-> 1, command |-> 1, backend |-> 0]

(* Vdev 2 has the serial number of drive d1, which alone is in a place of  *)
(* StorCLI, and the drive of vdev 3 is gone and its name is that of d1.    *)
MCMisplaced == { [s EXCEPT !.name = 1 :> d1 @@ 2 :> n2 @@ 3 :> n1 @@ 4 :> p1] : s \in MCStart }
MCTwo == { <<Leaf(2, "ok"), Leaf(3, "bad")>> }
MCDuplicate == { d1 :> Id(s1, w1) @@ d2 :> Id(s1, w2) @@ d3 :> Id(s3, w3) }
MCHotplug == [hotplug |-> 1, pool |-> 0, command |-> 0, backend |-> 0]

(* What changes after the discovery has ended changes nothing it found.    *)
Running == pc \notin {"done", "failed"}
=============================================================================
