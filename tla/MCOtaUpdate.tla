---------------------------- MODULE MCOtaUpdate ----------------------------
EXTENDS OtaUpdate

\* Two versions of different length
TwoVersions == {"v1", "v2"}
TwoSizes == [v \in TwoVersions |-> IF v = "v1" THEN 200 ELSE 500]
=============================================================================
