---------------------------- MODULE MCNvsStorage ----------------------------
(* NVS storage with three pages of four entries. *)
EXTENDS NvsStorage, TLC

MCWhole == 1 :> 1 @@ 2 :> 2
MCRest == 1 :> 0 @@ 2 :> 1
MCSlots == {[key |-> 1, type |-> "int"], [key |-> 2, type |-> "str"], [key |-> 3, type |-> "blob"]}
=============================================================================
