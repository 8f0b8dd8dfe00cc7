---------------------------- MODULE MCInventory ----------------------------
EXTENDS Inventory, TLC

CONSTANTS k1, v1, n1

(* Nothing known, one key with a value, a number or null. *)
Snapshots == {<< >>, k1 :> v1, k1 :> n1, k1 :> Nil}
=============================================================================
