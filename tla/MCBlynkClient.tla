--------------------------- MODULE MCBlynkClient ---------------------------
(* Small instances of BlynkClient for TLC *)
EXTENDS BlynkClient

OneRequest == {"r1"}
TwoRequests == {"r1", "r2"}
=============================================================================
