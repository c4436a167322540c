--------------------------- MODULE MCWifiProvision ---------------------------
(* Small instances of WifiProvision for TLC *)
EXTENDS WifiProvision

MCCreds == {"home", "typo"}
MCGood == {"home"}
BothStarts == BOOLEAN
StartsAgain == {TRUE}
=============================================================================
