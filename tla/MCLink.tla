------------------------------- MODULE MCLink -------------------------------
(***************************************************************************)
(* A station joins a network: it runs the handshakes of WpaHandshake, an   *)
(* RSN pair associating twice, or it asks for credentials with the WPS     *)
(* task of WpsTask.  `method` says which of the two a behaviour is about;  *)
(* the other one stays in its initial state.                               *)
(***************************************************************************)
EXTENDS WpaHandshake, WpsTask

VARIABLE method

MCJoins == [p \in Protos |-> IF p = "RSN" THEN 2 ELSE 1]

LinkInit ==
  /\ Init /\ WpsInit
  /\ method \in {"wpa", "wps"}
  /\ method = "wps" => conf.proto = "RSN" /\ conf.ieSame /\ conf.assocSame /\ conf.staPmk = "psk"

LinkNext ==
  \/ method = "wpa" /\ Next /\ UNCHANGED <<method, wa>>
  \/ method = "wps" /\ WpsNext /\ UNCHANGED <<method, vars>>

LinkSpec == LinkInit /\ [][LinkNext]_<<vars, method, wa>> /\ Fairness /\ WpsFairness
=============================================================================
