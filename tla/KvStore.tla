------------------------------ MODULE KvStore ------------------------------
(***************************************************************************)
(* What the NVS library promises (nvs_flash/README.rst, line 61): a set of *)
(* key-value pairs that calls change in one step each, and that a loss of  *)
(* power at any moment leaves as it was, the pair being written excepted.  *)
(***************************************************************************)
CONSTANTS Slots, Vals, None
VARIABLES store, call, err, void

vars == <<store, call>>

Init ==
    /\ store = [s \in Slots |-> None]
    /\ call.op = "boot"

\* Nothing is promised of the pairs in void.
Becomes(S, v) == \A s \in Slots \ void' : store'[s] = IF s \in S THEN v ELSE store[s]

\* A call begins, returns, or ends with the power: no pair changes.
Turn == call' # call /\ Becomes({}, None)

\* The one step in which a call takes effect. Erasing everything is a series of such steps, and a
\* blob whose update fails may be lost (nvs_storage.cpp, line 248).
Commit ==
    /\ UNCHANGED call
    /\ \/ call.op = "set" /\ Becomes({call.slot}, call.v)
       \/ call.op = "erase" /\ Becomes({call.slot}, None)
       \/ call.op = "set" /\ call.slot.type = "blob" /\ err # "ok" /\ Becomes({call.slot}, None)
       \/ call.op = "erase_all" /\ \E s \in Slots : Becomes({s}, None)
       \/ void # {} /\ Becomes({}, None)

Spec == Init /\ [][Turn \/ Commit]_vars
=============================================================================
