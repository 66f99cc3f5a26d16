------------------------------ MODULE MCCgymGet ------------------------------
(***************************************************************************)
(* Small instances of CgymGet.                                             *)
(***************************************************************************)
EXTENDS CgymGetProps, TLC

CONSTANTS v1, v2, v0       \* two versions of the same size, and an empty one

MCVersions == {v1, v2, v0}
MCSizes3   == (v1 :> 3) @@ (v2 :> 3) @@ (v0 :> 0)
MCSizes2   == (v1 :> 2) @@ (v2 :> 2) @@ (v0 :> 0)

(* The mirrors hold the same file.                                         *)
MCAgreed == {[s \in Servers |-> v1]}

(* Or the second one does not, or the file is empty.                       *)
MCMixed == {[s \in Servers |-> IF s = 1 THEN v1 ELSE v] : v \in {v1, v2, NoVersion}}
             \cup {[s \in Servers |-> v0]}
=============================================================================
