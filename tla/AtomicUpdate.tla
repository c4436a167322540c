---------------------------- MODULE AtomicUpdate ----------------------------
(***************************************************************************)
(* What a firmware update promises: there is always one whole firmware     *)
(* that the next boot will run; an update replaces it in one step, by a    *)
(* firmware the server published, and only while the running firmware is   *)
(* the installed one; a boot, by a restart or after a power failure, runs  *)
(* what is installed.                                                      *)
(***************************************************************************)
CONSTANT Versions
VARIABLES installed, running

Init == installed \in Versions /\ running = installed

Install(v) ==
  /\ running = installed
  /\ installed' = v /\ UNCHANGED running

Boot == running' = installed /\ UNCHANGED installed

Next == Boot \/ \E v \in Versions : Install(v)

Spec == Init /\ [][Next]_<<installed, running>>
=============================================================================
