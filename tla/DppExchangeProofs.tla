------------------------- MODULE DppExchangeProofs --------------------------
(***************************************************************************)
(* Two devices that run dpp.c agree: whoever reports success has a peer    *)
(* that derived the same key and took the other role, for any roles, keys  *)
(* and commands, any number of exchanges, and frames that are lost,        *)
(* repeated, reordered or left over.  The heart of the argument is that    *)
(* the roles of the two are settled by what they were given, so that the   *)
(* responses to one request can differ in keys but not in the role taken.  *)
(*                                                                         *)
(* The second half is about what is configured after that: connectors are  *)
(* for the key of the device that keeps them, configurations are usable,   *)
(* and configured devices agree when they are introduced.  There the point *)
(* is which keys the initiator can have taken for the responder's: those a *)
(* response offered, and after its success the responder offers no more.   *)
(***************************************************************************)
EXTENDS DppExchange, SequenceTheorems, TLAPS

(* The role the responder takes, and who is then the configurator. *)
Role == RoleFor(given.ri, given.rr)
ResponderConfigures == IF Role = "C" THEN TRUE ELSE FALSE
InitiatorConfigures == IF Role = "C" THEN FALSE ELSE TRUE

(* A frame says what its sender did: a request names the initiator's roles,  *)
(* a response or a confirm with status OK was made by a device that derived  *)
(* the key it is protected with.                                             *)
FrameHonest(m) ==
    /\ m.type = "req" => m.capab = given.ri
    /\ m.type = "resp" /\ m.status = "OK" =>
          /\ Role # "none"
          /\ m.capab = IF Role = "C" THEN "C" ELSE "E"
          /\ <<"r", m.inner, ResponderConfigures>> \in agreed
    /\ m.type = "conf" /\ m.status = "OK" =>
          <<"i", m.key, InitiatorConfigures>> \in agreed

AirHonest == \A m \in air : FrameHonest(m)

(* struct dpp_authentication. *)
AuthFields ==
    {"initiator", "roles", "configurator", "own", "peer", "pk", "ppk", "in", "rn", "M", "N", "L",
     "ke", "success", "pending", "remove", "curve", "peer_version", "conf", "sta", "ap", "en",
     "role", "confs", "net", "refused"}
IsAuth(a) == a = [f \in AuthFields |-> a[f]]

(* After its success an initiator has no Mx, so that no late response can    *)
(* make it derive another key.                                               *)
IniSound ==
    ini # None =>
       /\ IsAuth(ini)
       /\ ini.success =>
             /\ ini.M = {} /\ ini.configurator = InitiatorConfigures
             /\ <<"r", ini.ke, ResponderConfigures>> \in agreed

(* The same of a responder, which may still be asked for another response    *)
(* while it is pending.                                                      *)
ResSound ==
    res # None =>
       /\ IsAuth(res)
       /\ res.ke # <<>> \/ res.pending =>
             Role # "none" /\ res.configurator = ResponderConfigures
       /\ res.success =>
             /\ res.M = {} /\ res.ke # <<>>
             /\ <<"i", res.ke, InitiatorConfigures>> \in agreed

AgreeInv == AirHonest /\ IniSound /\ ResSound

(* What the steps that change no more than the configuration fields keep. *)
SameAuth(a, b) ==
    /\ IsAuth(b)
    /\ b.success = a.success /\ b.M = a.M /\ b.configurator = a.configurator
    /\ b.ke = a.ke /\ b.pending = a.pending

-----------------------------------------------------------------------------
(* Every value of RoleFor is one of three (the role dpp_auth_req_rx takes). *)
LEMMA RoleValues == Role \in {"C", "E", "none"}
BY DEF Role, RoleFor

(* Frames sent before stay honest while the devices' roles stay and no      *)
(* agreement is forgotten; a new one has to be honest itself.                *)
LEMMA AirKept ==
    ASSUME AirHonest, given' = given, agreed \subseteq agreed',
           NEW f, air' \subseteq air \cup {f}, FrameHonest(f)'
    PROVE  AirHonest'
<1>1. ASSUME NEW m \in air PROVE FrameHonest(m)'
  BY <1>1 DEF AirHonest, FrameHonest, Role, ResponderConfigures, InitiatorConfigures
<1> QED BY <1>1 DEF AirHonest

LEMMA AirSame ==
    ASSUME AirHonest, given' = given, agreed \subseteq agreed', air' = air
    PROVE  AirHonest'
BY DEF AirHonest, FrameHonest, Role, ResponderConfigures, InitiatorConfigures

(* So does what is known of a device of which only fields of the             *)
(* configuration change.                                                     *)
LEMMA IniKept ==
    ASSUME IniSound, given' = given, agreed \subseteq agreed',
           ini # None, SameAuth(ini, ini')
    PROVE  IniSound'
BY DEF IniSound, SameAuth, Role, ResponderConfigures, InitiatorConfigures

LEMMA IniSame ==
    ASSUME IniSound, given' = given, agreed \subseteq agreed', ini' = ini
    PROVE  IniSound'
BY DEF IniSound, Role, ResponderConfigures, InitiatorConfigures

LEMMA ResKept ==
    ASSUME ResSound, given' = given, agreed \subseteq agreed',
           res # None, SameAuth(res, res')
    PROVE  ResSound'
BY DEF ResSound, SameAuth, Role, ResponderConfigures, InitiatorConfigures

LEMMA ResSame ==
    ASSUME ResSound, given' = given, agreed \subseteq agreed', res' = res
    PROVE  ResSound'
BY DEF ResSound, Role, ResponderConfigures, InitiatorConfigures

(* A new authentication (dpp_alloc_auth, dpp_set_configurator). *)
LEMMA AuthNew ==
    ASSUME NEW i, NEW r
    PROVE  /\ IsAuth(Auth(i, r)) /\ Auth(i, r).success = FALSE /\ Auth(i, r).roles = r
           /\ Auth(i, r).pending = FALSE /\ Auth(i, r).ke = <<>>
<1> DEFINE k == "C" \in r
           none == <<>>
<1>1. PICK cv, cf, st, ap :
        Auth(i, r) =
         [initiator |-> i, roles |-> r, configurator |-> k,
          own |-> NoKey, peer |-> NoKey, pk |-> NoKey, ppk |-> NoKey, in |-> NoKey, rn |-> NoKey,
          M |-> {}, N |-> {}, L |-> {}, ke |-> none, success |-> FALSE, pending |-> FALSE,
          remove |-> FALSE, curve |-> cv, peer_version |-> 1, conf |-> cf, sta |-> st, ap |-> ap,
          en |-> NoKey, role |-> "none", confs |-> none, net |-> NoKey, refused |-> None]
  BY Zenon DEF Auth
<1> HIDE DEF k, none
<1>2. IsAuth(Auth(i, r)) BY <1>1 DEF IsAuth, AuthFields
<1>3. /\ Auth(i, r).success = FALSE /\ Auth(i, r).roles = r
      /\ Auth(i, r).pending = FALSE /\ Auth(i, r).ke = none
  BY <1>1
<1> QED BY <1>2, <1>3 DEF none

(* dpp_auth_init: the request names the roles the initiator was given. *)
LEMMA InitKeeps ==
    ASSUME AgreeInv, dpp_auth_init(used)
    PROVE  AgreeInv'
<1>1. PICK bi : \E a \in {[Auth(TRUE, given.ri) EXCEPT
                  !.peer = bi.key, !.own = IF given.own THEN BI ELSE used + 1,
                  !.in = used, !.pk = used, !.M = dpp_ecdh(used, bi.key)]} :
          /\ ini' = a
          /\ air' = air \cup {[type |-> "req", rhash |-> a.peer, ihash |-> a.own, ipk |-> a.pk,
                               key |-> dpp_derive_k1(a), in |-> a.in, capab |-> a.roles]}
  BY DEF dpp_auth_init
<1>2. PICK a : /\ a.success = FALSE /\ a.roles = given.ri
               /\ IsAuth(a) /\ ini' = a
               /\ air' = air \cup {[type |-> "req", rhash |-> a.peer, ihash |-> a.own, ipk |-> a.pk,
                               key |-> dpp_derive_k1(a), in |-> a.in, capab |-> a.roles]}
  <2>1. PICK a : /\ a = [Auth(TRUE, given.ri) EXCEPT
                       !.peer = bi.key, !.own = IF given.own THEN BI ELSE used + 1,
                       !.in = used, !.pk = used, !.M = dpp_ecdh(used, bi.key)]
                 /\ ini' = a
                 /\ air' = air \cup {[type |-> "req", rhash |-> a.peer, ihash |-> a.own, ipk |-> a.pk,
                               key |-> dpp_derive_k1(a), in |-> a.in, capab |-> a.roles]}
    BY <1>1
  <2>2. a.success = FALSE /\ a.roles = given.ri /\ IsAuth(a)
    <3>1. PICK z, own, M : /\ z = Auth(TRUE, given.ri)
                           /\ a = [z EXCEPT !.peer = bi.key, !.own = own,
                                            !.in = used, !.pk = used, !.M = M]
      BY Zenon, <2>1
    <3>2. IsAuth(z) /\ z.success = FALSE /\ z.roles = given.ri BY <3>1, AuthNew
    <3> QED BY <3>1, <3>2 DEF IsAuth, AuthFields
  <2> QED BY <2>1, <2>2
<1>3. PICK m : m.type = "req" /\ m.capab = given.ri /\ air' = air \cup {m}
  BY <1>2
<1>4. UNCHANGED <<given, res, agreed>> BY DEF dpp_auth_init
<1>5. FrameHonest(m)' BY <1>3, <1>4 DEF FrameHonest
<1>6. AirHonest' BY <1>3, <1>4, <1>5, AirKept DEF AgreeInv
<1>7. IniSound' BY <1>2 DEF IniSound
<1>8. ResSound' BY <1>4, ResSame DEF AgreeInv
<1> QED BY <1>6, <1>7, <1>8 DEF AgreeInv

(* dpp_auth_build_resp_ok: a response that is made tells the key derived,    *)
(* and without Mx none is made and ke stays.                                 *)
LEMMA RespondKeeps ==
    ASSUME NEW a, AgreeInv, UNCHANGED <<given, ini>>, RespondOk(a, used),
           IsAuth(a), Role # "none", a.configurator = ResponderConfigures,
           a.success => /\ a.M = {} /\ a.ke # <<>>
                        /\ <<"i", a.ke, InitiatorConfigures>> \in agreed
    PROVE  AgreeInv'
<1>1. PICK b, ke : /\ b = ResponderKeys(a, used) /\ ke = dpp_derive_ke(b)
                   /\ \/ /\ ke = <<>> /\ res' = b
                         /\ UNCHANGED <<air, agreed>>
                      \/ /\ ke # <<>> /\ res' = [b EXCEPT !.ke = ke]
                         /\ air' = air \cup {dpp_auth_build_resp_ok([b EXCEPT !.ke = ke])}
                         /\ agreed' = agreed \cup {<<"r", ke, a.configurator>>}
  BY DEF RespondOk
<1>2. /\ IsAuth(b) /\ b.M = a.M /\ b.configurator = a.configurator
      /\ b.success = a.success /\ b.ke = a.ke /\ b.pending = a.pending
  BY <1>1, ZenonT(60) DEF ResponderKeys, IsAuth, AuthFields
<1>3. b.M = {} => ke = <<>> BY <1>1 DEF dpp_derive_ke
<1>4. Role' = Role /\ ResponderConfigures' = ResponderConfigures
        /\ InitiatorConfigures' = InitiatorConfigures
  BY DEF Role, ResponderConfigures, InitiatorConfigures
<1>5. CASE ke = <<>>
  <2>1. res' = b /\ UNCHANGED <<air, agreed>> BY <1>1, <1>5
  <2>2. AirHonest' BY <2>1, AirSame DEF AgreeInv
  <2>3. IniSound' BY <2>1, IniSame DEF AgreeInv
  <2>4. ResSound' BY <2>1, <1>2, <1>4 DEF ResSound
  <2> QED BY <2>2, <2>3, <2>4 DEF AgreeInv
<1>6. CASE ke # <<>>
  <2>1. PICK c : c = [b EXCEPT !.ke = ke] OBVIOUS
  <2>2. /\ IsAuth(c) /\ c.configurator = a.configurator
        /\ c.success = a.success /\ c.ke = ke
    BY <2>1, <1>2 DEF IsAuth, AuthFields
  <2>3. PICK m : /\ m.type = "resp" /\ m.status = "OK" /\ m.inner = ke
                 /\ m.capab = IF c.configurator THEN "C" ELSE "E"
                 /\ air' = air \cup {m}
    BY <1>1, <1>6, <2>1, <2>2 DEF dpp_auth_build_resp_ok
  <2>4. res' = c /\ agreed' = agreed \cup {<<"r", ke, a.configurator>>}
    BY <1>1, <1>6, <2>1
  <2>5. FrameHonest(m)'
    BY <1>4, <2>2, <2>3, <2>4 DEF FrameHonest, ResponderConfigures
  <2>6. AirHonest' BY <2>3, <2>4, <2>5, AirKept DEF AgreeInv
  <2>7. IniSound' BY <2>4, IniSame DEF AgreeInv
  <2>8. ~c.success BY <1>2, <1>3, <1>6, <2>2
  <2>9. ResSound' BY <2>2, <2>4, <2>8, <1>4 DEF ResSound
  <2> QED BY <2>6, <2>7, <2>9 DEF AgreeInv
<1> QED BY <1>5, <1>6

(* dpp_auth_req_rx: the role follows from the roles in the request, which    *)
(* are the initiator's.                                                      *)
LEMMA RequestKeeps ==
    ASSUME AgreeInv, NEW m \in air, dpp_auth_req_rx(m, used)
    PROVE  AgreeInv'
<1>1. m.type = "req" /\ UNCHANGED <<given, ini>> BY DEF dpp_auth_req_rx
<1>2. m.capab = given.ri BY <1>1 DEF AgreeInv, AirHonest, FrameHonest
<1>3. PICK pair \in {dpp_bootstrap_find_pair(m.ihash, m.rhash)}, role \in {RoleFor(m.capab, given.rr)} :
       \E a \in {[Auth(FALSE, given.rr) EXCEPT
                    !.own = pair.own, !.peer = pair.peer, !.in = m.in, !.ppk = m.ipk,
                    !.M = dpp_ecdh(m.ipk, pair.own),
                    !.configurator = IF role = "none" THEN "C" \in given.rr ELSE role = "C"]} :
       /\ pair.own # NoKey
       /\ m.key = dpp_derive_k1(a)
       /\ count' = [count EXCEPT !.auth = @ + 1]
       /\ \/ /\ role = "none"
             /\ res' = [a EXCEPT !.remove = TRUE]
             /\ air' = air \cup {dpp_auth_build_resp_status(a, "NOT_COMPATIBLE")}
             /\ UNCHANGED <<used, agreed>>
          \/ /\ role # "none" /\ given.mutual /\ pair.peer = NoKey
             /\ res' = [a EXCEPT !.pending = TRUE]
             /\ air' = air \cup {dpp_auth_build_resp_status(a, "RESPONSE_PENDING")}
             /\ UNCHANGED <<used, agreed>>
          \/ /\ role # "none" /\ ~(given.mutual /\ pair.peer = NoKey)
             /\ RespondOk(a, used)
       /\ UNCHANGED <<given, table, ini, now>>
  BY Zenon DEF dpp_auth_req_rx
<1>4. role = Role BY <1>2 DEF Role
<1>5. PICK k : k = (IF role = "none" THEN "C" \in given.rr ELSE role = "C") OBVIOUS
<1>6. PICK a \in {[Auth(FALSE, given.rr) EXCEPT
                    !.own = pair.own, !.peer = pair.peer, !.in = m.in, !.ppk = m.ipk,
                    !.M = dpp_ecdh(m.ipk, pair.own), !.configurator = k]} :
          \/ /\ role = "none"
             /\ res' = [a EXCEPT !.remove = TRUE]
             /\ air' = air \cup {dpp_auth_build_resp_status(a, "NOT_COMPATIBLE")}
             /\ UNCHANGED <<used, agreed>>
          \/ /\ role # "none" /\ given.mutual /\ pair.peer = NoKey
             /\ res' = [a EXCEPT !.pending = TRUE]
             /\ air' = air \cup {dpp_auth_build_resp_status(a, "RESPONSE_PENDING")}
             /\ UNCHANGED <<used, agreed>>
          \/ /\ role # "none" /\ ~(given.mutual /\ pair.peer = NoKey)
             /\ RespondOk(a, used)
  BY Zenon, <1>3, <1>5
<1>7. /\ IsAuth(a) /\ a.success = FALSE /\ a.pending = FALSE /\ a.ke = <<>>
      /\ Role # "none" => a.configurator = ResponderConfigures
  <2>1. PICK z :
          /\ z = Auth(FALSE, given.rr)
          /\ a = [z EXCEPT !.own = pair.own, !.peer = pair.peer, !.in = m.in, !.ppk = m.ipk,
                           !.M = dpp_ecdh(m.ipk, pair.own), !.configurator = k]
    BY Zenon, <1>6
  <2>2. IsAuth(z) /\ z.success = FALSE /\ z.pending = FALSE /\ z.ke = <<>>
    BY <2>1, AuthNew, ZenonT(60)
  <2>3. /\ IsAuth(a) /\ a.success = z.success /\ a.pending = z.pending /\ a.ke = z.ke
        /\ a.configurator = k
    <3>1. PICK M : a = [z EXCEPT !.own = pair.own, !.peer = pair.peer, !.in = m.in, !.ppk = m.ipk,
                                 !.M = M, !.configurator = k]
      BY Zenon, <2>1
    <3>2. DOMAIN z = AuthFields BY <2>2 DEF IsAuth
    <3>3. IsAuth(a) BY <3>1, <3>2 DEF IsAuth, AuthFields
    <3> QED BY <3>1, <3>2, <3>3 DEF AuthFields
  <2>4. Role # "none" => k = ResponderConfigures BY <1>4, <1>5 DEF ResponderConfigures
  <2> QED BY <2>2, <2>3, <2>4
<1>8. Role' = Role /\ ResponderConfigures' = ResponderConfigures
        /\ InitiatorConfigures' = InitiatorConfigures
  BY <1>1 DEF Role, ResponderConfigures, InitiatorConfigures
<1>9. ASSUME NEW st \in {"NOT_COMPATIBLE", "RESPONSE_PENDING"},
             air' = air \cup {dpp_auth_build_resp_status(a, st)}, UNCHANGED agreed
      PROVE  AirHonest' /\ IniSound'
  <2>1. PICK f : f.type = "resp" /\ f.status = st /\ air' = air \cup {f}
    <3>1. PICK f : f = dpp_auth_build_resp_status(a, st) OBVIOUS
    <3>2. f.type = "resp" /\ f.status = st BY <3>1 DEF dpp_auth_build_resp_status
    <3> QED BY <3>1, <3>2, <1>9
  <2>2. FrameHonest(f)' BY <2>1, <1>9 DEF FrameHonest
  <2>3. AirHonest' BY <2>1, <2>2, <1>1, <1>9, AirKept DEF AgreeInv
  <2>4. IniSound' BY <1>1, <1>9, IniSame DEF AgreeInv
  <2> QED BY <2>3, <2>4
<1>10. CASE Role = "none"
  <2>1. /\ res' = [a EXCEPT !.remove = TRUE]
        /\ air' = air \cup {dpp_auth_build_resp_status(a, "NOT_COMPATIBLE")}
        /\ UNCHANGED agreed
    BY <1>4, <1>6, <1>10
  <2>2. IsAuth(res') /\ res'.success = FALSE /\ res'.pending = FALSE /\ res'.ke = <<>>
    BY <2>1, <1>7 DEF IsAuth, AuthFields
  <2>3. ResSound' BY <2>2 DEF ResSound
  <2> QED BY <1>9, <2>1, <2>3 DEF AgreeInv
<1>11. CASE Role # "none" /\ given.mutual /\ pair.peer = NoKey
  <2>1. /\ res' = [a EXCEPT !.pending = TRUE]
        /\ air' = air \cup {dpp_auth_build_resp_status(a, "RESPONSE_PENDING")}
        /\ UNCHANGED agreed
    BY <1>4, <1>6, <1>11
  <2>2. /\ IsAuth(res') /\ res'.success = FALSE /\ res'.configurator = a.configurator
    BY <2>1, <1>7 DEF IsAuth, AuthFields
  <2>3. ResSound' BY <2>2, <1>7, <1>8, <1>11 DEF ResSound
  <2> QED BY <1>9, <2>1, <2>3 DEF AgreeInv
<1>12. CASE Role # "none" /\ ~(given.mutual /\ pair.peer = NoKey)
  <2>1. RespondOk(a, used) BY <1>4, <1>6, <1>12
  <2> QED BY <2>1, <1>1, <1>7, <1>12, RespondKeeps
<1> QED BY <1>10, <1>11, <1>12

(* dpp_add_qr_code: the authentication that waits for the code answers once  *)
(* more, in the role it already has.                                         *)
LEMMA ScanKeeps ==
    ASSUME AgreeInv, dpp_add_qr_code(used)
    PROVE  AgreeInv'
<1>1. UNCHANGED <<given, ini>> BY DEF dpp_add_qr_code
<1>2. CASE res # None /\ res.pending /\ RespondOk([res EXCEPT !.peer = BI], used)
  <2>1. PICK a : a = [res EXCEPT !.peer = BI] OBVIOUS
  <2>2. IsAuth(res) BY <1>2 DEF AgreeInv, ResSound
  <2>3. /\ IsAuth(a) /\ a.success = res.success /\ a.M = res.M /\ a.ke = res.ke
        /\ a.configurator = res.configurator
    BY <2>1, <2>2 DEF IsAuth, AuthFields
  <2>4. /\ Role # "none" /\ a.configurator = ResponderConfigures
        /\ a.success => /\ a.M = {} /\ a.ke # <<>>
                        /\ <<"i", a.ke, InitiatorConfigures>> \in agreed
    BY <1>2, <2>3 DEF AgreeInv, ResSound
  <2>5. RespondOk(a, used) BY <1>2, <2>1
  <2> QED BY <1>1, <2>3, <2>4, <2>5, RespondKeeps
<1>3. CASE UNCHANGED <<res, air, used, agreed>>
  BY <1>1, <1>3, AirSame, IniSame, ResSame DEF AgreeInv
<1> QED BY <1>2, <1>3 DEF dpp_add_qr_code

(* dpp_auth_conf_rx: a confirm with the responder's key was made by an       *)
(* initiator that derived it.                                                *)
LEMMA ConfirmKeeps ==
    ASSUME AgreeInv, NEW m \in air, dpp_auth_conf_rx(m)
    PROVE  AgreeInv'
<1>1. /\ m.type = "conf" /\ m.status = "OK" /\ res # None
      /\ m.key = res.ke /\ res.ke # <<>> /\ res' = dpp_auth_success(res)
      /\ UNCHANGED <<given, ini, air, agreed>>
  BY DEF dpp_auth_conf_rx
<1>2. <<"i", res.ke, InitiatorConfigures>> \in agreed
  BY <1>1 DEF AgreeInv, AirHonest, FrameHonest
<1>3. IsAuth(res) BY <1>1 DEF AgreeInv, ResSound
<1>4. /\ IsAuth(res') /\ res'.ke = res.ke /\ res'.configurator = res.configurator
      /\ res'.M = {}
  BY <1>1, <1>3 DEF dpp_auth_success, IsAuth, AuthFields
<1>5. Role' = Role /\ ResponderConfigures' = ResponderConfigures
        /\ InitiatorConfigures' = InitiatorConfigures
  BY <1>1 DEF Role, ResponderConfigures, InitiatorConfigures
<1>6. Role # "none" /\ res.configurator = ResponderConfigures
  BY <1>1 DEF AgreeInv, ResSound
<1>7. ResSound' BY <1>1, <1>2, <1>4, <1>5, <1>6 DEF ResSound
<1>8. AirHonest' /\ IniSound' BY <1>1, AirSame, IniSame DEF AgreeInv
<1> QED BY <1>7, <1>8 DEF AgreeInv

(* The role left to the initiator is the other one than the responder's. *)
LEMMA RoleOpposite ==
    ASSUME NEW a, NEW c \in {"C", "E"}, RoleAfter(a, c) # "none"
    PROVE  (RoleAfter(a, c) = "C") <=> (c = "E")
BY DEF RoleAfter

(* dpp_auth_success keeps the key and the role, and forgets Mx. *)
LEMMA SuccessSound ==
    ASSUME NEW a, IsAuth(a)
    PROVE  /\ IsAuth(dpp_auth_success(a)) /\ dpp_auth_success(a).success = TRUE
           /\ dpp_auth_success(a).M = {} /\ dpp_auth_success(a).ke = a.ke
           /\ dpp_auth_success(a).configurator = a.configurator
BY DEF dpp_auth_success, IsAuth, AuthFields

(* What a response m with status OK may make of the authentication a: a      *)
(* keeps its key and its success, or it succeeds with the key of m.          *)
Outcome(a, m, r, k) ==
    /\ IsAuth(r.auth)
    /\ \/ /\ r.auth.success = a.success /\ r.auth.M = a.M
          /\ r.auth.success => r.auth.ke = a.ke
          /\ r.auth.configurator \in {a.configurator, k}
          /\ r.agreed = {}
          /\ r.frames = {} \/ \E f : /\ f.type = "conf" /\ f.status # "OK"
                                     /\ r.frames = {f}
       \/ /\ r.auth.success = TRUE /\ r.auth.M = {} /\ r.auth.ke = m.inner
          /\ r.auth.configurator = k
          /\ r.agreed = {<<"i", m.inner, k>>}
          /\ \E f : f.type = "conf" /\ f.key = m.inner /\ r.frames = {f}

(* AfterResponse has no other outcome: when Mx is gone no key is derived.    *)
LEMMA ResponseOutcomes ==
    ASSUME NEW a, NEW m, NEW r, NEW k, IsAuth(a), m.capab \in {"C", "E"}, a.success => a.M = {},
           r = AfterResponse(a, m), k = IF m.capab = "E" THEN TRUE ELSE FALSE
    PROVE  Outcome(a, m, r, k)
<1> DEFINE
      keys == [a EXCEPT !.own = IF m.ihash = NoKey THEN NoKey ELSE @,
                        !.ppk = m.rpk, !.N = dpp_ecdh(a.pk, m.rpk)]
      read == [keys EXCEPT !.rn = m.rn]
      with == [read EXCEPT !.L = IF read.own # NoKey
                                 THEN dpp_auth_derive_l(read.own, read.peer, m.rpk) ELSE @]
      role == RoleAfter(with, m.capab)
      took == [with EXCEPT !.configurator = role = "C"]
      ke   == dpp_derive_ke(took)
      done == [took EXCEPT !.ke = ke]
      Only(b) == [auth |-> b, frames |-> {}, agreed |-> {}]
      Refuse(b, status) == [auth |-> [b EXCEPT !.remove = TRUE],
                            frames |-> {dpp_auth_build_conf(b, status)}, agreed |-> {}]
      tag == dpp_gen_r_auth(done, done.pk, done.ppk, done.own, done.peer)
      won == [auth |-> dpp_auth_success(done), frames |-> {dpp_auth_build_conf(done, "OK")},
              agreed |-> {<<"i", done.ke, done.configurator>>}]
<1>1. r = IF m.key # dpp_derive_k2(keys) THEN Only(keys)
          ELSE IF m.in # a.in THEN Only(read)
          ELSE IF role = "none" THEN Refuse(with, "NOT_COMPATIBLE")
          ELSE IF ke = <<>> THEN Only(took)
          ELSE IF m.inner # done.ke THEN Only(done)
          ELSE IF m.tag # tag THEN Refuse(done, "AUTH_FAILURE")
          ELSE won
  BY DEF AfterResponse
<1>2. /\ IsAuth(keys) /\ keys.success = a.success /\ keys.M = a.M /\ keys.ke = a.ke
      /\ keys.configurator = a.configurator
  BY DEF IsAuth, AuthFields
<1> HIDE DEF keys
<1>3. /\ IsAuth(read) /\ read.success = a.success /\ read.M = a.M /\ read.ke = a.ke
      /\ read.configurator = a.configurator
  BY <1>2 DEF IsAuth, AuthFields
<1> HIDE DEF read
<1>4. /\ IsAuth(with) /\ with.success = a.success /\ with.M = a.M /\ with.ke = a.ke
      /\ with.configurator = a.configurator
  BY <1>3 DEF IsAuth, AuthFields
<1> HIDE DEF with
<1>5. role # "none" => (role = "C") = k BY RoleOpposite
<1> HIDE DEF role
<1>6. role # "none" => took = [with EXCEPT !.configurator = k] BY Zenon, <1>5
<1> HIDE DEF took
<1>7. role # "none" =>
        /\ IsAuth(took) /\ took.success = a.success /\ took.M = a.M /\ took.ke = a.ke
        /\ took.configurator = k
  BY <1>4, <1>6 DEF IsAuth, AuthFields
<1>8. took.M = {} => ke = <<>> BY DEF dpp_derive_ke
<1> HIDE DEF ke
<1>9. role # "none" =>
        /\ IsAuth(done) /\ done.success = a.success /\ done.M = a.M /\ done.ke = ke
        /\ done.configurator = k
  BY <1>7 DEF IsAuth, AuthFields
<1>10. /\ (Only(keys)).auth = keys /\ (Only(read)).auth = read
       /\ (Only(took)).auth = took /\ (Only(done)).auth = done
  OBVIOUS
<1> HIDE DEF done, tag
<1> DEFINE
      Quietly == /\ r.agreed = {}
                 /\ r.frames = {} \/ \E f : /\ f.type = "conf" /\ f.status # "OK" /\ r.frames = {f}
      Kept == /\ r.auth.success = a.success /\ r.auth.M = a.M
              /\ r.auth.success => r.auth.ke = a.ke
              /\ r.auth.configurator \in {a.configurator, k}
              /\ Quietly
      Won == /\ r.auth.success = TRUE /\ r.auth.M = {} /\ r.auth.ke = m.inner
             /\ r.auth.configurator = k
             /\ r.agreed = {<<"i", m.inner, k>>}
             /\ \E f : /\ f.type = "conf" /\ f.key = m.inner /\ r.frames = {f}
<1>11. ASSUME NEW b, r = Only(b) PROVE r.auth = b /\ Quietly
  BY <1>11
<1>12. ASSUME NEW b, NEW st \in {"NOT_COMPATIBLE", "AUTH_FAILURE"}, IsAuth(b), r = Refuse(b, st)
       PROVE  /\ Quietly /\ IsAuth(r.auth) /\ r.auth.success = b.success /\ r.auth.M = b.M
              /\ r.auth.ke = b.ke /\ r.auth.configurator = b.configurator
  <2>1. PICK f : f = dpp_auth_build_conf(b, st) OBVIOUS
  <2>2. f.type = "conf" /\ f.status = st BY <2>1 DEF dpp_auth_build_conf
  <2>3. r.frames = {f} /\ r.agreed = {} /\ r.auth = [b EXCEPT !.remove = TRUE]
    BY <1>12, <2>1
  <2>4. /\ IsAuth(r.auth) /\ r.auth.success = b.success /\ r.auth.M = b.M
        /\ r.auth.ke = b.ke /\ r.auth.configurator = b.configurator
    BY <1>12, <2>3 DEF IsAuth, AuthFields
  <2> QED BY <2>2, <2>3, <2>4
<1> DEFINE Good == IsAuth(r.auth) /\ (Kept \/ Won)
<1>13. ASSUME r = Only(keys) PROVE Good
  BY <1>13, <1>2, <1>11
<1>14. ASSUME r = Only(read) PROVE Good
  BY <1>14, <1>3, <1>11
<1>15. ASSUME r = Refuse(with, "NOT_COMPATIBLE") PROVE Good
  <2> HIDE DEF Quietly, Refuse
  <2> QED BY <1>15, <1>4, <1>12
<1>16. ASSUME role # "none", r = Only(took) PROVE Good
  <2> HIDE DEF Quietly
  <2> QED BY <1>16, <1>7, <1>11
<1>17. ASSUME role # "none", ke # <<>>, r = Only(done) \/ r = Refuse(done, "AUTH_FAILURE")
       PROVE  Good
  <2> HIDE DEF Quietly, Only, Refuse
  <2>1. ~a.success BY <1>7, <1>8, <1>17
  <2>2. /\ Quietly /\ IsAuth(r.auth) /\ r.auth.success = done.success /\ r.auth.M = done.M
        /\ r.auth.configurator = done.configurator
    BY <1>9, <1>11, <1>12, <1>17
  <2> QED BY <2>1, <2>2, <1>9, <1>17
<1>18. ASSUME role # "none", m.inner = done.ke, r = won PROVE Good
  <2>1. PICK f : f = dpp_auth_build_conf(done, "OK") OBVIOUS
  <2>2. f.type = "conf" /\ f.key = done.ke BY <2>1 DEF dpp_auth_build_conf
  <2>3. /\ r.auth = dpp_auth_success(done) /\ r.frames = {f}
        /\ r.agreed = {<<"i", done.ke, done.configurator>>}
    BY <1>18, <2>1
  <2>4. /\ IsAuth(r.auth) /\ r.auth.success = TRUE /\ r.auth.M = {} /\ r.auth.ke = done.ke
        /\ r.auth.configurator = done.configurator
    <3>1. IsAuth(done) BY <1>9, <1>18
    <3>2. r.auth = dpp_auth_success(done) BY <2>3
    <3> HIDE DEF won
    <3> QED BY Zenon, <3>1, <3>2, SuccessSound
  <2>5. done.configurator = k BY <1>9, <1>18
  <2>6. Won BY <1>18, <2>2, <2>3, <2>4, <2>5
  <2> QED BY <2>4, <2>6
<1> HIDE DEF Only, Refuse, won, Good
<1>19. done.ke = ke \/ role = "none" BY <1>9
<1>20. Good BY <1>1, <1>13, <1>14, <1>15, <1>16, <1>17, <1>18, <1>19
<1> QED BY <1>20 DEF Good, Outcome

(* dpp_auth_resp_rx: a response was made by a responder that took the other  *)
(* role, and the initiator that accepts it derived the key inside it.        *)
LEMMA ResponseKeeps ==
    ASSUME AgreeInv, NEW m \in air, dpp_auth_resp_rx(m)
    PROVE  AgreeInv'
<1>1. /\ m.type = "resp" /\ m.status = "OK" /\ ini # None
      /\ UNCHANGED <<given, res>>
  BY DEF dpp_auth_resp_rx
<1>2. /\ Role # "none" /\ m.capab = IF Role = "C" THEN "C" ELSE "E"
      /\ <<"r", m.inner, ResponderConfigures>> \in agreed
  BY <1>1 DEF AgreeInv, AirHonest, FrameHonest
<1>3. PICK r : /\ r = AfterResponse(ini, m)
               /\ ini' = r.auth /\ air' = air \cup r.frames /\ agreed' = agreed \cup r.agreed
  BY DEF dpp_auth_resp_rx
<1>4. PICK k : k = IF m.capab = "E" THEN TRUE ELSE FALSE OBVIOUS
<1>5. k = InitiatorConfigures BY <1>2, <1>4 DEF InitiatorConfigures
<1>6. /\ IsAuth(ini)
      /\ ini.success => /\ ini.M = {} /\ ini.configurator = InitiatorConfigures
                        /\ <<"r", ini.ke, ResponderConfigures>> \in agreed
  BY <1>1 DEF AgreeInv, IniSound
<1>7. m.capab \in {"C", "E"} BY <1>2
<1>8. Outcome(ini, m, r, k)
  BY <1>3, <1>4, <1>6, <1>7, ResponseOutcomes
<1>9. Role' = Role /\ ResponderConfigures' = ResponderConfigures
        /\ InitiatorConfigures' = InitiatorConfigures
  BY <1>1 DEF Role, ResponderConfigures, InitiatorConfigures
<1>10. agreed \subseteq agreed' BY <1>3
<1>11. ResSound' BY <1>1, <1>10, ResSame DEF AgreeInv
<1>12. IniSound' BY <1>2, <1>3, <1>5, <1>6, <1>8, <1>9, <1>10 DEF IniSound, Outcome
<1>13. AirHonest'
  <2>1. CASE r.frames = {}
    BY <2>1, <1>1, <1>3, <1>10, AirSame DEF AgreeInv
  <2>2. ASSUME NEW f, f.type = "conf", r.frames = {f},
               f.status # "OK" \/ (f.key = m.inner /\ r.agreed = {<<"i", m.inner, k>>})
        PROVE  AirHonest'
    <3>1. FrameHonest(f)' BY <2>2, <1>3, <1>5, <1>9 DEF FrameHonest
    <3> QED BY <2>2, <3>1, <1>1, <1>3, <1>10, AirKept DEF AgreeInv
  <2> QED BY <1>8, <2>1, <2>2 DEF Outcome
<1> QED BY <1>11, <1>12, <1>13 DEF AgreeInv

-----------------------------------------------------------------------------
(* A step of the configuration changes neither the key nor the role of the   *)
(* device that takes it, and the frames it sends carry no authentication.    *)
LEMMA ConfigKeeps ==
    ASSUME AgreeInv, UNCHANGED <<given, agreed>>,
           NEW w \in {"i", "r"}, NEW b, AuthOf(w) # None, SetAuth(w, b),
           IsAuth(AuthOf(w)) => SameAuth(AuthOf(w), b),
           NEW f, air' = air \/ air' = air \cup {f}, f.type \in {"ask", "answer"}
    PROVE  AgreeInv'
<1>1. FrameHonest(f)' BY DEF FrameHonest
<1>2. AirHonest' BY <1>1, AirKept DEF AgreeInv
<1>3. CASE w = "i"
  <2>1. ini # None /\ ini' = b /\ res' = res /\ AuthOf(w) = ini BY <1>3 DEF AuthOf, SetAuth
  <2>2. SameAuth(ini, ini') BY <2>1 DEF AgreeInv, IniSound
  <2> QED BY <1>2, <2>1, <2>2, IniKept, ResSame DEF AgreeInv
<1>4. CASE w = "r"
  <2>1. res # None /\ res' = b /\ ini' = ini /\ AuthOf(w) = res BY <1>4 DEF AuthOf, SetAuth
  <2>2. SameAuth(res, res') BY <2>1 DEF AgreeInv, ResSound
  <2> QED BY <1>2, <2>1, <2>2, ResKept, IniSame DEF AgreeInv
<1> QED BY <1>3, <1>4

(* dpp_build_conf_req_helper: the enrollee asks. *)
LEMMA AskKeeps ==
    ASSUME AgreeInv, NEW w \in {"i", "r"}, NEW role, dpp_build_conf_req_helper(w, role, used)
    PROVE  AgreeInv'
<1>1. PICK a : a = AuthOf(w) OBVIOUS
<1>2. PICK b : b = [a EXCEPT !.en = used, !.role = role] OBVIOUS
<1>3. PICK f : f = [type |-> "ask", from |-> w, key |-> a.ke, en |-> used, role |-> role] OBVIOUS
<1>4. /\ a # None /\ SetAuth(w, b) /\ air' = air \cup {f} /\ UNCHANGED <<given, agreed>>
  BY <1>1, <1>2, <1>3 DEF dpp_build_conf_req_helper
<1>5. IsAuth(a) => SameAuth(a, b) BY <1>2 DEF SameAuth, IsAuth, AuthFields
<1>6. f.type = "ask" BY <1>3
<1> QED BY <1>1, <1>4, <1>5, <1>6, ConfigKeeps

(* dpp_conf_req_rx: the configurator answers. *)
LEMMA AnswerKeeps ==
    ASSUME AgreeInv, NEW m \in air, NEW w \in {"i", "r"}, dpp_conf_req_rx(w, m)
    PROVE  AgreeInv'
<1>1. PICK a : a = AuthOf(w) OBVIOUS
<1>2. PICK b : b = [a EXCEPT !.en = m.en] OBVIOUS
<1>3. PICK f : f = dpp_build_conf_resp(a, w, m) OBVIOUS
<1>4. /\ a # None /\ SetAuth(w, b) /\ air' = air \cup {f} /\ UNCHANGED <<given, agreed>>
  BY <1>1, <1>2, <1>3 DEF dpp_conf_req_rx
<1>5. IsAuth(a) => SameAuth(a, b) BY <1>2 DEF SameAuth, IsAuth, AuthFields
<1>6. f.type = "answer" BY <1>3 DEF dpp_build_conf_resp
<1> QED BY <1>1, <1>4, <1>5, <1>6, ConfigKeeps

(* dpp_conf_resp_rx: the enrollee takes the configuration, or refuses it. *)
LEMMA ConfiguredKeeps ==
    ASSUME AgreeInv, NEW m \in air, NEW w \in {"i", "r"}, dpp_conf_resp_rx(w, m)
    PROVE  AgreeInv'
<1>1. PICK a : a = AuthOf(w) OBVIOUS
<1>2. PICK b, c, n, x : /\ b = [a EXCEPT !.confs = c, !.net = n, !.refused = x]
                        /\ SetAuth(w, b)
  <2>1. PICK p : SetAuth(w, [a EXCEPT !.confs = p.confs, !.net = p.net,
                                      !.refused = IF p.ok THEN @ ELSE m.obj])
    BY Zenon, <1>1 DEF dpp_conf_resp_rx
  <2> QED BY Zenon, <2>1
<1>3. a # None /\ m.type = "answer" /\ UNCHANGED <<air, given, agreed>>
  BY <1>1 DEF dpp_conf_resp_rx
<1>4. IsAuth(a) => SameAuth(a, b) BY <1>2 DEF SameAuth, IsAuth, AuthFields
<1> QED BY <1>1, <1>2, <1>3, <1>4, ConfigKeeps

-----------------------------------------------------------------------------
(* The invariant, step by step. *)
LEMMA AgreeStep ==
    ASSUME AgreeInv, [Next]_vars
    PROVE  AgreeInv'
<1>1. CASE dpp_auth_init(used) BY <1>1, InitKeeps
<1>2. CASE DropInitiator
  <2>1. ini' = None /\ UNCHANGED <<given, res, air, agreed>>
    BY <1>2 DEF DropInitiator, dpp_auth_deinit
  <2> QED BY <2>1, AirSame, ResSame DEF AgreeInv, IniSound
<1>3. CASE DropResponder
  <2>1. res' = None /\ UNCHANGED <<given, ini, air, agreed>>
    BY <1>3 DEF DropResponder, dpp_auth_deinit
  <2> QED BY <2>1, AirSame, IniSame DEF AgreeInv, ResSound
<1>4. CASE dpp_add_qr_code(used) BY <1>4, ScanKeeps
<1>5. CASE Tick \/ UNCHANGED vars
  <2>1. UNCHANGED <<given, ini, res, air, agreed>> BY <1>5 DEF Tick, vars
  <2> QED BY <2>1, AirSame, IniSame, ResSame DEF AgreeInv
<1>6. ASSUME NEW m \in air,
             dpp_auth_req_rx(m, used) \/ dpp_auth_resp_rx(m) \/ dpp_auth_conf_rx(m)
      PROVE  AgreeInv'
  BY <1>6, RequestKeeps, ResponseKeeps, ConfirmKeeps
<1>7. ASSUME NEW m \in air, NEW w \in {"i", "r"}, dpp_conf_req_rx(w, m) \/ dpp_conf_resp_rx(w, m)
      PROVE  AgreeInv'
  BY <1>7, AnswerKeeps, ConfiguredKeeps
<1>8. ASSUME NEW w \in {"i", "r"}, NEW role, dpp_build_conf_req_helper(w, role, used)
      PROVE  AgreeInv'
  BY <1>8, AskKeeps
<1> QED BY <1>1, <1>2, <1>3, <1>4, <1>5, <1>6, <1>7, <1>8 DEF Next

(* What the invariant says of a device that succeeded. *)
LEMMA AgreeInvAgrees ==
    ASSUME AgreeInv
    PROVE  AuthAgree
<1>1. PICK i, r : i = InitiatorConfigures /\ r = ResponderConfigures /\ i # r
  <2>1. InitiatorConfigures # ResponderConfigures
    BY DEF InitiatorConfigures, ResponderConfigures
  <2> QED BY <2>1
<1>2. ASSUME NEW w \in {"i", "r"}, AuthOf(w) # None, AuthOf(w).success
      PROVE  \E h \in agreed : h[1] # w /\ h[2] = AuthOf(w).ke /\ h[3] # AuthOf(w).configurator
  <2>1. CASE w = "i"
    <3>1. /\ AuthOf(w) = ini /\ ini.configurator = i /\ <<"r", ini.ke, r>> \in agreed
      BY <1>1, <1>2, <2>1 DEF AuthOf, AgreeInv, IniSound
    <3> QED BY <1>1, <2>1, <3>1
  <2>2. CASE w = "r"
    <3>1. /\ AuthOf(w) = res /\ res.configurator = r /\ <<"i", res.ke, i>> \in agreed
      BY <1>1, <1>2, <2>2 DEF AuthOf, AgreeInv, ResSound
    <3> QED BY <1>1, <2>2, <3>1
  <2> QED BY <2>1, <2>2
<1> QED BY <1>2 DEF AuthAgree

(* A device that reports success (dpp_auth_success) has a peer that derived  *)
(* the same key in the same exchange and took the other role, for any roles, *)
(* keys and commands the two were given and any number of exchanges, with    *)
(* frames lost, repeated, reordered or left over from exchanges dropped.     *)
THEOREM PeersAgree == Spec => []AuthAgree
<1>1. Init => AgreeInv
  BY DEF Init, AgreeInv, AirHonest, IniSound, ResSound
<1>2. AgreeInv /\ [Next]_vars => AgreeInv' BY AgreeStep
<1>3. AgreeInv => AuthAgree BY AgreeInvAgrees
<1> QED BY <1>1, <1>2, <1>3, PTL DEF Spec

-----------------------------------------------------------------------------
(* A number that was used for a key or a nonce ("used" is the next one).     *)
Drawn(k) == k \in Nat /\ k < used

(* A key the initiator may take for the responder's: that of a response with *)
(* status OK, or none yet.                                                   *)
Offered(k) == k = NoKey \/ \E f \in air : f.type = "resp" /\ f.status = "OK" /\ f.rpk = k

(* A key ke made with a nonce of the responder that was drawn                *)
(* (dpp_derive_ke).                                                          *)
Derived(k) == k # <<>> /\ Drawn(k[3])

(* The key of a request for a configuration that the responder sent: if the  *)
(* responder's present authentication has it, that authentication succeeded. *)
Asked(k) == Derived(k) /\ (res # None /\ res.ke = k => res.success)

(* A configuration object as dpp_build_conf_obj makes it: a connector        *)
(* exactly for DPP's AKM, certifying a drawn key and signed with the key the *)
(* object names.                                                             *)
ObjSound(o) ==
    \/ o.connector = None /\ "dpp" \notin o.akm
    \/ /\ o.connector # None /\ "dpp" \in o.akm
       /\ Drawn(o.connector.key)
       /\ o.connector.kid = o.csign /\ o.connector.sig.over = "hash"
       /\ o.connector.groups # {}

(* An object whose credentials the enrollee does not refuse                  *)
(* (dpp_parse_cred_legacy).                                                  *)
ObjFits(o) ==
    /\ o.cred # "malformed"
    /\ dpp_akm_psk(o.akm) \/ dpp_akm_sae(o.akm) => dpp_parse_cred_legacy(o)
    /\ dpp_akm_dpp(o.akm) \/ dpp_akm_legacy(o.akm)
    /\ o.connector # None => o.connector.expiry \in Nat

(* What a configurator makes of a command: such an object, or the bare half. *)
ObjFair(o) == LeftBare(o) \/ ObjFits(o)

(* What the frames sent so far say of keys and objects.  An answer of the    *)
(* initiator (from # "r") certifies a key that a response offered.           *)
FrameSound(m) ==
    /\ m.type = "req" => Drawn(m.ipk)
    /\ m.type = "resp" /\ m.status = "OK" => Drawn(m.rpk)
    /\ m.type = "ask" /\ m.from # "i" => Asked(m.key)
    /\ m.type = "answer" =>
         /\ m.from # "r" => Asked(m.key)
         /\ m.status = "OK" =>
              /\ ObjSound(m.obj)
              /\ CommandsTyped => ObjFair(m.obj)
              /\ m.from # "r" /\ m.obj.connector # None => Offered(m.obj.connector.key)

(* A sequence.                                                               *)
IsSeq(s) == Len(s) \in Nat /\ s = [i \in 1 .. Len(s) |-> s[i]]

(* The i-th object of a device's table is good and has a connector.          *)
Kept(a, i) == a.confs[i].good /\ a.confs[i].connector # None

(* A refused object that expired, or certifies another key than k.           *)
Excused(o, k) ==
    /\ o.connector # None
    /\ Drawn(o.connector.key) /\ o.connector.expiry \in Nat
    /\ dpp_key_expired(o.connector.expiry, now) \/ o.connector.key # k

(* What holds of the configurations of either device; of one it refused,     *)
(* that it was left bare, expired or certifies another key.                  *)
HolderSound(a) ==
    /\ IsSeq(a.confs)
    /\ a.sta = dpp_configuration_parse(given.cmd).sta
    /\ a.ap = dpp_configuration_parse(given.cmd).ap
    /\ \A i \in 1 .. Len(a.confs) : ObjSound(a.confs[i])
    /\ \A i \in 1 .. Len(a.confs) : Kept(a, i) => a.confs[i].connector.key = a.net
    /\ CommandsTyped => (a.refused # None =>
           LeftBare(a.refused) \/ Excused(a.refused, a.pk))

(* The initiator never changes its protocol key, so that every connector it  *)
(* keeps is for that key.                                                    *)
IniHolder ==
    ini # None =>
       /\ HolderSound(ini) /\ Offered(ini.ppk)
       /\ \A i \in 1 .. Len(ini.confs) : Kept(ini, i) => ini.net = ini.pk

(* The responder may draw another key after its success, when a code is      *)
(* scanned again; no response offers that key, so that no connector can      *)
(* certify it.                                                               *)
ResHolder ==
    res # None =>
       /\ HolderSound(res) /\ Drawn(res.ppk)
       /\ res.ke # <<>> => Derived(res.ke)
       /\ res.confs # <<>> => res.success
       /\ \A i \in 1 .. Len(res.confs) : Kept(res, i) => res.net = res.pk \/ ~Offered(res.pk)

(* The numbers, and what the devices were given.                             *)
Steady ==
    /\ used \in Nat /\ used > 0 /\ now \in Nat
    /\ given \in Setups /\ dpp_configuration_parse(given.cmd).ok

AirSound == \A m \in air : FrameSound(m)

(* The inductive invariant of what is configured; it needs AgreeInv, after   *)
(* which no response is made with a key once the responder succeeded.        *)
ConfInv == Steady /\ AirSound /\ IniHolder /\ ResHolder
-----------------------------------------------------------------------------
(* What every step does to numbers, time and frames: they only become more.  *)
Grows ==
    /\ given' = given
    /\ used \in Nat /\ used' \in Nat /\ used <= used'
    /\ now \in Nat /\ now' \in Nat /\ now <= now'
    /\ air \subseteq air'

(* What was drawn stays drawn.                                               *)
LEMMA DrawnKept ==
    ASSUME Grows, NEW k, Drawn(k)
    PROVE  Drawn(k)'
BY DEF Grows, Drawn

(* A key that was offered stays so: frames are never taken back.             *)
LEMMA OfferedKept ==
    ASSUME Grows, NEW k, Offered(k)
    PROVE  Offered(k)'
BY DEF Grows, Offered

(* So an object stays sound.                                                 *)
LEMMA ObjKept ==
    ASSUME Grows, NEW o, ObjSound(o)
    PROVE  ObjSound(o)'
<1>1. Drawn(o.connector.key) => Drawn(o.connector.key)' BY DrawnKept
<1> QED BY <1>1 DEF ObjSound

(* What a command leaves bare does not change with the state.                *)
LEMMA FairKept ==
    ASSUME Grows, NEW o
    PROVE  (LeftBare(o) => LeftBare(o)') /\ (ObjFair(o) => ObjFair(o)')
BY DEF Grows, ObjFair, LeftBare

(* So does a frame, as long as the requests sent stay the work of the        *)
(* responder's successes.                                                    *)
LEMMA FrameKept ==
    ASSUME Grows, \A k : Asked(k) => Asked(k)', NEW m, FrameSound(m)
    PROVE  FrameSound(m)'
<1>1. m.type = "req" => Drawn(m.ipk)' BY DrawnKept DEF FrameSound
<1>2. m.type = "resp" /\ m.status = "OK" => Drawn(m.rpk)' BY DrawnKept DEF FrameSound
<1>3. m.type = "ask" /\ m.from # "i" => Asked(m.key)' BY DEF FrameSound
<1>4. ASSUME m.type = "answer"
      PROVE  /\ m.from # "r" => Asked(m.key)'
             /\ m.status = "OK" =>
                  /\ ObjSound(m.obj)'
                  /\ CommandsTyped => ObjFair(m.obj)'
                  /\ m.from # "r" /\ m.obj.connector # None => Offered(m.obj.connector.key)'
  BY <1>4, ObjKept, FairKept, OfferedKept DEF FrameSound
<1> QED BY <1>1, <1>2, <1>3, <1>4 DEF FrameSound

(* So do the configurations of a device that does nothing; one refused as    *)
(* expired stays expired.                                                    *)
LEMMA HolderKept ==
    ASSUME Grows, NEW a, HolderSound(a)
    PROVE  HolderSound(a)'
<1>1. \A i \in 1 .. Len(a.confs) : ObjSound(a.confs[i])' BY ObjKept DEF HolderSound
<1>2. ASSUME NEW o, NEW k, Excused(o, k) PROVE Excused(o, k)'
  <2>1. Drawn(o.connector.key)' BY <1>2, DrawnKept DEF Excused
  <2>2. ASSUME NEW e \in Nat, dpp_key_expired(e, now) PROVE dpp_key_expired(e, now')
    BY <2>2 DEF dpp_key_expired, Grows
  <2> QED BY <1>2, <2>1, <2>2 DEF Excused
<1>3. given' = given BY DEF Grows
<1>4. CommandsTyped => (a.refused # None =>
          LeftBare(a.refused)' \/ Excused(a.refused, a.pk)')
  BY <1>2, FairKept DEF HolderSound
<1> QED BY <1>1, <1>3, <1>4 DEF HolderSound, Kept

(* Two authentications with the same configurations.                         *)
SameConfs(a, b) ==
    /\ b.confs = a.confs /\ b.net = a.net /\ b.refused = a.refused
    /\ b.sta = a.sta /\ b.ap = a.ap

(* A device that keeps its configurations and its key keeps what holds of    *)
(* them (dpp_auth_success, dpp_conf_req_rx).                                 *)
LEMMA HolderSame ==
    ASSUME NEW a, NEW b, HolderSound(a), SameConfs(a, b), b.pk = a.pk
    PROVE  HolderSound(b)
BY DEF HolderSound, SameConfs, Kept

(* So does one that draws another key (dpp_auth_build_resp_ok): no object    *)
(* certifies a key not drawn before.                                         *)
LEMMA HolderNewKey ==
    ASSUME NEW a, NEW b, HolderSound(a), SameConfs(a, b), b.pk = used
    PROVE  HolderSound(b)
<1>1. ASSUME NEW k, Drawn(k) PROVE k # used BY <1>1 DEF Drawn
<1>2. ASSUME NEW o, NEW k, Excused(o, k) PROVE Excused(o, used) BY <1>1, <1>2 DEF Excused
<1> QED BY <1>2 DEF HolderSound, SameConfs, Kept

(* Append makes a sequence one longer (conf_obj[num_conf_obj++]).            *)
LEMMA AppendKeeps ==
    ASSUME NEW s, IsSeq(s), NEW e, NEW t, t = Append(s, e)
    PROVE  /\ IsSeq(t) /\ Len(t) = Len(s) + 1 /\ t[Len(s) + 1] = e
           /\ \A i \in 1 .. Len(s) : t[i] = s[i]
<1> DEFINE S == {s[i] : i \in 1 .. Len(s)} \cup {e}
<1>1. s \in [1 .. Len(s) -> S] BY DEF IsSeq
<1>2. s \in Seq(S) /\ e \in S BY <1>1 DEF IsSeq
<1> HIDE DEF S
<1>3. /\ t \in Seq(S) /\ Len(t) = Len(s) + 1 /\ t[Len(s) + 1] = e
      /\ \A i \in 1 .. Len(s) : t[i] = s[i]
  BY <1>2
<1>4. IsSeq(t) BY <1>3, Zenon, LenProperties DEF IsSeq
<1> QED BY <1>3, <1>4
-----------------------------------------------------------------------------
(* The AKMs dpp_akm_from_str knows.                                          *)
Akms == {"psk", "sae", "dpp"}

(* A configuration the credentials of which are complete                     *)
(* (dpp_configuration_valid), unless it was left bare.                       *)
ConfFits(c) ==
    c # None => /\ LeftBare(c) \/ dpp_configuration_valid(c)
                /\ c.akm \subseteq Akms /\ c.akm # {} /\ c.expiry \in Nat

(* The AKM found in a command is one its objects name.                       *)
LEMMA AkmKnown ==
    ASSUME NEW cmd, NEW role, DOMAIN cmd \in {1 .. 1, 1 .. 2},
           \A i \in DOMAIN cmd : cmd[i][role] \subseteq Akms
    PROVE  CmdAkm(cmd, role) \subseteq Akms
<1> DEFINE at == {i \in DOMAIN cmd : cmd[i][role] # {}}
           c == CHOOSE i \in at : \A j \in at : i <= j
<1>1. CmdAkm(cmd, role) = IF at = {} THEN {} ELSE cmd[c][role] BY DEF CmdAkm
<1>2. at # {} => \E i \in at : \A j \in at : i <= j
  <2>1. at \subseteq {1, 2} OBVIOUS
  <2> HIDE DEF at
  <2>2. 1 \in at => \A j \in at : 1 <= j BY <2>1
  <2>3. ASSUME at # {}, 1 \notin at PROVE at = {2} BY <2>1, <2>3
  <2> QED BY <2>1, <2>2, <2>3
<1>3. at # {} => c \in at BY <1>2
<1> HIDE DEF c
<1> QED BY <1>1, <1>3

(* What dpp_configuration_parse accepts of a command is complete, but for    *)
(* the station's half of one for both roles.                                 *)
LEMMA CommandFits ==
    ASSUME CommandsTyped, given \in Setups, dpp_configuration_parse(given.cmd).ok
    PROVE  /\ ConfFits(dpp_configuration_parse(given.cmd).sta)
           /\ ConfFits(dpp_configuration_parse(given.cmd).ap)
<1> DEFINE cmd == given.cmd
           one == dpp_configuration_parse_helper(cmd)
           parse == dpp_configuration_parse(cmd)
           sta == CmdAkm(cmd, "sta")
           ap  == CmdAkm(cmd, "ap")
           akm == IF ap # {} THEN ap ELSE sta
           role == IF ap # {} THEN "ap" ELSE "sta"
           plain == Configuration(role, akm)
           full == [plain
                    EXCEPT !.ssid = CmdHas(cmd, "ssid"), !.pass = CmdHas(cmd, "pass"),
                           !.psk = CmdHas(cmd, "psk"),
                           !.group = IF CmdHas(cmd, "group") THEN "G" ELSE "*",
                           !.expiry = IF CmdHas(cmd, "expiry") THEN 1 ELSE 0]
<1>1. sta \subseteq Akms /\ ap \subseteq Akms
  BY AkmKnown DEF CommandsTyped, Akms
<1>2. full.akm = akm /\ full.expiry \in Nat
  <2>1. PICK e : e = IF CmdHas(cmd, "expiry") THEN 1 ELSE 0 OBVIOUS
  <2>2. PICK s, p, k, g : full = [plain EXCEPT !.ssid = s, !.pass = p, !.psk = k, !.group = g, !.expiry = e]
    BY Zenon, <2>1
  <2>3. e \in Nat BY <2>1
  <2> HIDE DEF akm, role, full
  <2> QED BY <2>2, <2>3 DEF Configuration
<1>3. one = IF sta = {} /\ ap = {} THEN [ok |-> TRUE, sta |-> None, ap |-> None]
            ELSE IF ~dpp_configuration_valid(full) THEN [ok |-> FALSE, sta |-> None, ap |-> None]
            ELSE [ok  |-> TRUE,
                  sta |-> IF sta = {} THEN None ELSE IF ap = {} THEN full ELSE Configuration("sta", sta),
                  ap  |-> IF ap = {} THEN None ELSE full]
  BY Zenon DEF dpp_configuration_parse_helper
<1>4. parse = one \/ parse = [ok |-> FALSE, sta |-> None, ap |-> None]
  BY Zenon DEF dpp_configuration_parse
<1> HIDE DEF one, parse, sta, ap, full, plain
<1>5. parse.ok BY Zenon DEF parse
<1>6. parse = one BY <1>4, <1>5
<1>7. CASE sta = {} /\ ap = {}
  <2>1. parse.sta = None /\ parse.ap = None BY <1>3, <1>6, <1>7
  <2> QED BY <2>1 DEF ConfFits, parse
<1>8. CASE ~(sta = {} /\ ap = {})
  <2>1. dpp_configuration_valid(full) BY <1>3, <1>5, <1>6, <1>8
  <2>2. ConfFits(full)
    BY <1>1, <1>2, <1>8, <2>1 DEF ConfFits
  <2>3. ConfFits(None) BY DEF ConfFits
  <2>4. PICK c : c = Configuration("sta", sta) OBVIOUS
  <2>5. sta # {} /\ ap # {} => ConfFits(c)
    <3>1. ~c.ssid /\ c.akm = sta /\ c.expiry \in Nat BY <2>4 DEF Configuration
    <3>2. sta # {} /\ ap # {} => LeftBare(c) BY <3>1 DEF LeftBare, sta, ap
    <3> QED BY <1>1, <3>1, <3>2 DEF ConfFits
  <2>6. one = [ok  |-> TRUE,
               sta |-> IF sta = {} THEN None ELSE IF ap = {} THEN full ELSE c,
               ap  |-> IF ap = {} THEN None ELSE full]
    BY Zenon, <1>3, <1>8, <2>1, <2>4
  <2>7. PICK s, t : /\ s = IF sta = {} THEN None ELSE IF ap = {} THEN full ELSE c
                    /\ t = IF ap = {} THEN None ELSE full
    OBVIOUS
  <2>8. parse = [ok |-> TRUE, sta |-> s, ap |-> t] BY Zenon, <1>6, <2>6, <2>7
  <2>9. parse.sta = s /\ parse.ap = t BY <2>8
  <2>10. ConfFits(s) /\ ConfFits(t) BY <2>2, <2>3, <2>5, <2>7
  <2> HIDE DEF cmd
  <2>11. ConfFits(parse.sta) /\ ConfFits(parse.ap) BY <2>9, <2>10
  <2> QED BY Zenon, <2>11 DEF parse, cmd
<1> QED BY <1>7, <1>8

(* dpp_build_conf_obj makes sound objects that certify the peer's key, and   *)
(* usable ones of a complete configuration.                                  *)
LEMMA BuiltSound ==
    ASSUME NEW a, NEW role, NEW o, o = dpp_build_conf_obj(a, role), o # None, Drawn(a.ppk)
    PROVE  /\ ObjSound(o)
           /\ o.connector # None => o.connector.key = a.ppk
           /\ ConfFits(a.sta) /\ ConfFits(a.ap) => ObjFair(o)
<1>1. PICK conf : /\ conf \in {a.sta, a.ap} /\ conf # None
                  /\ o = IF dpp_akm_dpp(conf.akm) THEN dpp_build_conf_obj_dpp(a, conf)
                         ELSE dpp_build_conf_obj_legacy(a, conf)
  BY DEF dpp_build_conf_obj
<1>2. ConfFits(a.sta) /\ ConfFits(a.ap) =>
        /\ LeftBare(conf) \/ dpp_configuration_valid(conf)
        /\ conf.akm \subseteq Akms /\ conf.akm # {} /\ conf.expiry \in Nat
  BY <1>1 DEF ConfFits
<1>3. CASE dpp_akm_dpp(conf.akm)
  <2> DEFINE akm == IF dpp_akm_ver2(conf.akm) /\ a.peer_version < 2 THEN {"dpp"} ELSE conf.akm
             legacy == dpp_akm_psk(akm) \/ dpp_akm_sae(akm)
             cred == IF legacy THEN dpp_build_legacy_cred_params(conf) ELSE "none"
             con == [kid |-> a.conf.key, groups |-> {<<conf.group, conf.netrole>>},
                     key |-> a.ppk, curve |-> a.curve, expiry |-> conf.expiry,
                     sig |-> crypto_ecdsa_get_sign(a.conf.key)]
  <2>1. o = [ssid |-> conf.ssid, akm |-> akm, csign |-> a.conf.key, cred |-> cred, connector |-> con]
    BY <1>1, <1>3, Zenon DEF dpp_build_conf_obj_dpp
  <2>2. con # None BY DEF None
  <2>3. con.kid = a.conf.key /\ con.key = a.ppk /\ con.sig.over = "hash" /\ con.expiry = conf.expiry
    BY DEF crypto_ecdsa_get_sign
  <2>4. con.groups # {} OBVIOUS
  <2>5. "dpp" \in akm /\ (akm = {"dpp"} \/ akm = conf.akm) BY <1>3 DEF dpp_akm_dpp
  <2>6. ASSUME dpp_configuration_valid(conf)
        PROVE  cred # "malformed" /\ (legacy => cred = "pass" \/ (cred = "psk_hex" /\ ~dpp_akm_sae(akm)))
    BY <2>5, <2>6 DEF dpp_configuration_valid, dpp_build_legacy_cred_params, dpp_akm_psk, dpp_akm_sae
  <2> HIDE DEF akm, cred, con
  <2>7. o.akm = akm /\ o.csign = a.conf.key /\ o.cred = cred /\ o.connector = con /\ o.ssid = conf.ssid
    BY <2>1
  <2>8. ObjSound(o) BY <2>2, <2>3, <2>4, <2>5, <2>7 DEF ObjSound
  <2>9. ASSUME dpp_configuration_valid(conf), conf.expiry \in Nat PROVE ObjFits(o)
    BY <2>3, <2>5, <2>6, <2>7, <2>9 DEF ObjFits, dpp_parse_cred_legacy, dpp_akm_dpp
  <2>10. LeftBare(conf) => LeftBare(o) BY <2>7 DEF LeftBare
  <2> QED BY <1>2, <2>3, <2>7, <2>8, <2>9, <2>10 DEF ObjFair
<1>4. CASE ~dpp_akm_dpp(conf.akm)
  <2> DEFINE cred == dpp_build_legacy_cred_params(conf)
  <2>1. o = [ssid |-> conf.ssid, akm |-> conf.akm, csign |-> 0, connector |-> None, cred |-> cred]
    BY <1>1, <1>4 DEF dpp_build_conf_obj_legacy
  <2>2. o.akm = conf.akm /\ o.connector = None /\ o.cred = cred /\ o.ssid = conf.ssid BY <2>1
  <2>3. ObjSound(o) BY <1>4, <2>2 DEF ObjSound, dpp_akm_dpp
  <2>4. ASSUME dpp_configuration_valid(conf), conf.akm \subseteq Akms, conf.akm # {}
        PROVE  ObjFits(o)
    <3>1. dpp_akm_legacy(conf.akm) /\ (dpp_akm_psk(conf.akm) \/ dpp_akm_sae(conf.akm))
      <4>1. conf.akm \subseteq {"psk", "sae"} BY <1>4, <2>4 DEF Akms, dpp_akm_dpp
      <4> QED BY <2>4, <4>1 DEF dpp_akm_legacy, dpp_akm_psk, dpp_akm_sae
    <3>2. cred = "pass" \/ (cred = "psk_hex" /\ ~dpp_akm_sae(conf.akm))
      BY <2>4, <3>1 DEF dpp_configuration_valid, dpp_build_legacy_cred_params
    <3> HIDE DEF cred
    <3>3. cred # "malformed" BY <3>2
    <3> QED BY <2>2, <3>1, <3>2, <3>3 DEF ObjFits, dpp_parse_cred_legacy
  <2>5. LeftBare(conf) => LeftBare(o) BY <2>2 DEF LeftBare
  <2> QED BY <1>2, <2>2, <2>3, <2>4, <2>5 DEF ObjFair
<1> QED BY <1>3, <1>4
-----------------------------------------------------------------------------
(* An object e added to the table: a connector kept as good is for the       *)
(* protocol key, which becomes the network access key; otherwise that key    *)
(* stays.                                                                    *)
Entry(e, a, o, p) ==
    /\ ObjSound(e)
    /\ \/ e.good /\ e.connector # None /\ e.connector.key = a.pk /\ p.net = a.pk
          /\ o.connector # None /\ o.connector.key = a.pk
       \/ ~(e.good /\ e.connector # None) /\ p.net = a.net

(* What dpp_parse_conf_obj does to the table.                                *)
Parsed(a, o, p) ==
    \/ p.confs = a.confs /\ p.net = a.net
    \/ \E e : p.confs = Append(a.confs, e) /\ Entry(e, a, o, p)

(* dpp_parse_conf_obj does nothing else, and refuses a usable object only    *)
(* when it expired or is for another key.                                    *)
LEMMA ParseSound ==
    ASSUME NEW a, NEW o, NEW p, p = dpp_parse_conf_obj(a, o, now), ObjSound(o)
    PROVE  /\ Parsed(a, o, p)
           /\ ~p.ok /\ ObjFits(o) => Excused(o, a.pk)
<1> DEFINE good == IF dpp_akm_legacy(o.akm) THEN dpp_parse_cred_legacy(o)
                   ELSE dpp_akm_dpp(o.akm) /\ dpp_parse_cred_dpp(a, o, now)
<1>1. p = IF o.cred = "malformed" THEN [ok |-> FALSE, confs |-> a.confs, net |-> a.net]
          ELSE IF Len(a.confs) = DPP_MAX_CONF_OBJ THEN [ok |-> TRUE, confs |-> a.confs, net |-> a.net]
          ELSE [ok |-> good, confs |-> Append(a.confs, ConfObj(o, good)),
                net |-> IF good /\ dpp_akm_dpp(o.akm) THEN a.pk ELSE a.net]
  BY Zenon DEF dpp_parse_conf_obj
<1>2. dpp_akm_legacy(o.akm) => ~dpp_akm_dpp(o.akm) BY DEF dpp_akm_legacy, dpp_akm_dpp
<1>3. dpp_akm_dpp(o.akm) <=> o.connector # None BY DEF ObjSound, dpp_akm_dpp
<1>4. good /\ dpp_akm_dpp(o.akm) => o.connector.key = a.pk
  BY <1>2 DEF dpp_parse_cred_dpp, dpp_parse_connector
<1>5. ASSUME ~good, ObjFits(o)
      PROVE  Excused(o, a.pk)
  <2>1. ~dpp_akm_legacy(o.akm)
    <3>1. dpp_akm_legacy(o.akm) => dpp_akm_psk(o.akm) \/ dpp_akm_sae(o.akm)
      BY DEF dpp_akm_legacy, dpp_akm_psk, dpp_akm_sae
    <3> QED BY <1>5, <3>1 DEF ObjFits
  <2>2. dpp_akm_dpp(o.akm) BY <1>5, <2>1 DEF ObjFits
  <2>3. /\ o.connector # None /\ Drawn(o.connector.key) /\ o.connector.expiry \in Nat
        /\ o.connector.groups # {} /\ o.connector.kid = o.csign /\ o.connector.sig.over = "hash"
    BY <1>3, <1>5, <2>2 DEF ObjSound, ObjFits
  <2>4. dpp_process_signed_connector(o.connector, o.csign) = "OK"
    BY <2>3 DEF dpp_process_signed_connector, crypto_edcsa_sign_verify
  <2>5. ~dpp_parse_connector(a, o.connector, now)
    BY <1>5, <2>1, <2>2, <2>4 DEF dpp_parse_cred_dpp, ObjFits
  <2> QED BY <2>3, <2>5 DEF dpp_parse_connector, Excused
<1> HIDE DEF good
<1>6. ASSUME o.cred = "malformed" \/ Len(a.confs) = DPP_MAX_CONF_OBJ
      PROVE  p.confs = a.confs /\ p.net = a.net /\ (ObjFits(o) => p.ok)
  BY <1>1, <1>6 DEF ObjFits
<1>7. ASSUME o.cred # "malformed", Len(a.confs) # DPP_MAX_CONF_OBJ
      PROVE  Parsed(a, o, p) /\ (p.ok <=> good)
  <2>1. PICK e : e = ConfObj(o, good) OBVIOUS
  <2>2. e.connector = o.connector /\ e.akm = o.akm /\ e.csign = o.csign /\ (e.good <=> good)
    BY <2>1 DEF ConfObj
  <2>3. ObjSound(e) BY <2>2 DEF ObjSound
  <2>4. /\ p.ok <=> good
        /\ p.confs = Append(a.confs, e)
        /\ p.net = IF good /\ dpp_akm_dpp(o.akm) THEN a.pk ELSE a.net
    BY <1>1, <1>7, <2>1
  <2>5. Entry(e, a, o, p)
    <3>1. CASE good /\ dpp_akm_dpp(o.akm)
      <4>1. p.net = a.pk /\ o.connector # None /\ o.connector.key = a.pk
        BY <1>3, <1>4, <2>4, <3>1
      <4> QED BY <2>2, <2>3, <3>1, <4>1 DEF Entry
    <3>2. CASE ~(good /\ dpp_akm_dpp(o.akm))
      <4>1. p.net = a.net /\ ~(e.good /\ e.connector # None)
        BY <1>3, <2>2, <2>4, <3>2
      <4> QED BY <2>3, <4>1 DEF Entry
    <3> QED BY <3>1, <3>2
  <2>6. Parsed(a, o, p) BY <2>4, <2>5 DEF Parsed
  <2> QED BY <2>4, <2>6
<1>8. Parsed(a, o, p) BY <1>6, <1>7 DEF Parsed
<1>9. ~p.ok /\ ObjFits(o) => ~good BY <1>6, <1>7
<1> QED BY <1>5, <1>8, <1>9

(* The assignments of dpp_conf_resp_rx.                                      *)
Takes(a, o, p, b) ==
    /\ p = dpp_parse_conf_obj(a, o, now)
    /\ b = [a EXCEPT !.confs = p.confs, !.net = p.net, !.refused = IF p.ok THEN @ ELSE o]

(* What a device knows after them.                                           *)
Taken(a, b) ==
    /\ HolderSound(b) /\ SameAuth(a, b) /\ b.pk = a.pk /\ b.ppk = a.ppk
    /\ \A i \in 1 .. Len(b.confs) : Kept(b, i) =>
          b.net = b.pk \/ (b.net = a.net /\ \E j \in 1 .. Len(a.confs) : Kept(a, j))

(* A device that takes an object keeps what holds of its table, unless       *)
(* connectors it has are for another key than the object's, when the object  *)
(* is for its present key.                                                   *)
LEMMA TookSound ==
    ASSUME NEW a, NEW o, NEW p, NEW b, IsAuth(a), HolderSound(a),
           ObjSound(o), CommandsTyped => ObjFair(o), Takes(a, o, p, b),
           \A i \in 1 .. Len(a.confs) : Kept(a, i) =>
               a.net = a.pk \/ o.connector = None \/ o.connector.key # a.pk
    PROVE  Taken(a, b)
<1>1. PICK x : /\ x = IF p.ok THEN a.refused ELSE o
               /\ b = [a EXCEPT !.confs = p.confs, !.net = p.net, !.refused = x]
  BY Zenon DEF Takes
<1>2. /\ b.confs = p.confs /\ b.net = p.net /\ b.refused = x
      /\ b.pk = a.pk /\ b.ppk = a.ppk /\ b.sta = a.sta /\ b.ap = a.ap
      /\ SameAuth(a, b)
  BY <1>1 DEF IsAuth, AuthFields, SameAuth
<1>3. /\ Parsed(a, o, p)
      /\ ~p.ok /\ CommandsTyped => LeftBare(o) \/ Excused(o, a.pk)
  BY ParseSound DEF Takes, ObjFair
<1>4. CommandsTyped => (b.refused # None =>
           LeftBare(b.refused) \/ Excused(b.refused, b.pk))
  <2>1. CASE p.ok BY <1>1, <1>2, <2>1 DEF HolderSound
  <2>2. CASE ~p.ok BY <1>1, <1>2, <1>3, <2>2
  <2> QED BY <2>1, <2>2
<1>5. b.sta = dpp_configuration_parse(given.cmd).sta /\ b.ap = dpp_configuration_parse(given.cmd).ap
  BY <1>2 DEF HolderSound
<1>6. CASE p.confs = a.confs /\ p.net = a.net
  <2>1. \A i \in 1 .. Len(b.confs) : Kept(b, i) <=> Kept(a, i) BY <1>2, <1>6 DEF Kept
  <2>2. HolderSound(b) BY <1>2, <1>4, <1>5, <1>6, <2>1 DEF HolderSound
  <2> QED BY <1>2, <1>6, <2>1, <2>2 DEF Taken
<1>7. ASSUME NEW e, p.confs = Append(a.confs, e), Entry(e, a, o, p)
      PROVE  /\ HolderSound(b)
             /\ \A i \in 1 .. Len(b.confs) : Kept(b, i) =>
                 b.net = b.pk \/ (b.net = a.net /\ \E j \in 1 .. Len(a.confs) : Kept(a, j))
  <2>1. /\ IsSeq(b.confs) /\ Len(b.confs) = Len(a.confs) + 1 /\ b.confs[Len(a.confs) + 1] = e
        /\ \A i \in 1 .. Len(a.confs) : b.confs[i] = a.confs[i]
        /\ Len(a.confs) \in Nat
    BY <1>2, <1>7, AppendKeeps DEF HolderSound, IsSeq
  <2>2. \A i \in 1 .. Len(b.confs) : i \in 1 .. Len(a.confs) \/ i = Len(a.confs) + 1 BY <2>1
  <2>3. \A i \in 1 .. Len(a.confs) : Kept(b, i) <=> Kept(a, i) BY <2>1 DEF Kept
  <2>4. \A i \in 1 .. Len(b.confs) : ObjSound(b.confs[i])
    BY <1>7, <2>1, <2>2 DEF HolderSound, Entry
  <2>5. \A i \in 1 .. Len(a.confs) : Kept(b, i) => b.net = a.net
    <3>1. CASE p.net = a.net BY <1>2, <3>1
    <3>2. CASE p.net = a.pk /\ o.connector # None /\ o.connector.key = a.pk
      BY <1>2, <2>3, <3>2
    <3> QED BY <1>7, <3>1, <3>2 DEF Entry
  <2>6. \A i \in 1 .. Len(a.confs) : Kept(b, i) => b.confs[i].connector.key = b.net
    BY <2>1, <2>3, <2>5 DEF HolderSound
  <2>7. Kept(b, Len(a.confs) + 1) => e.connector.key = b.net /\ b.net = b.pk
    BY <1>2, <1>7, <2>1 DEF Kept, Entry
  <2>8. \A i \in 1 .. Len(b.confs) : Kept(b, i) => b.confs[i].connector.key = b.net
    BY <2>1, <2>2, <2>6, <2>7
  <2>9. HolderSound(b) BY <1>4, <1>5, <2>1, <2>4, <2>8 DEF HolderSound
  <2>10. \A i \in 1 .. Len(b.confs) : Kept(b, i) =>
            b.net = b.pk \/ (b.net = a.net /\ \E j \in 1 .. Len(a.confs) : Kept(a, j))
    BY <2>2, <2>3, <2>5, <2>7
  <2> QED BY <2>9, <2>10
<1> QED BY <1>2, <1>3, <1>6, <1>7 DEF Parsed, Taken
-----------------------------------------------------------------------------
(* The requests sent stay the work of the responder's successes.             *)
AsksKept == \A k : Asked(k) => Asked(k)'

(* They do when the responder stops, starts without a key, or keeps key and  *)
(* success.                                                                  *)
LEMMA AskedKept ==
    ASSUME Grows,
           \/ res' = None
           \/ res'.ke = <<>>
           \/ res # None /\ res'.ke = res.ke /\ (res.success => res'.success)
    PROVE  AsksKept
<1> SUFFICES ASSUME NEW k, Asked(k) PROVE Asked(k)' BY DEF AsksKept
<1>1. Derived(k)' BY DrawnKept DEF Asked, Derived
<1> QED BY <1>1 DEF Asked, Derived

(* All frames stay sound when a sound one is added.                          *)
LEMMA FramesKept ==
    ASSUME AirSound, Grows, AsksKept, NEW f, air' \subseteq air \cup {f}, FrameSound(f)'
    PROVE  AirSound'
<1>1. \A m \in air : FrameSound(m)' BY FrameKept DEF AirSound, AsksKept
<1> QED BY <1>1 DEF AirSound

(* All the more when none is.                                                *)
LEMMA FramesSame ==
    ASSUME AirSound, Grows, AsksKept, air' = air
    PROVE  AirSound'
<1>1. \A m \in air : FrameSound(m)' BY FrameKept DEF AirSound, AsksKept
<1> QED BY <1>1 DEF AirSound

(* The initiator's part of the invariant, when it keeps key and              *)
(* configurations and takes an offered key for the peer's.                   *)
LEMMA IniHolderKept ==
    ASSUME IniHolder, Grows, ini # None, SameConfs(ini, ini'), ini'.pk = ini.pk,
           NEW k, k = ini'.ppk, Offered(k)'
    PROVE  IniHolder'
<1>1. PICK a : a = ini OBVIOUS
<1>2. PICK b : b = ini' OBVIOUS
<1>3. HolderSound(a) BY <1>1 DEF IniHolder
<1>4. SameConfs(a, b) /\ b.pk = a.pk BY <1>1, <1>2
<1>5. HolderSound(b)' BY <1>3, <1>4, HolderSame, HolderKept
<1>6. \A i \in 1 .. Len(b.confs) : Kept(b, i) => b.net = b.pk
  BY <1>1, <1>4 DEF IniHolder, SameConfs, Kept
<1>7. Offered(b.ppk)' BY <1>2
<1> QED BY <1>2, <1>5, <1>6, <1>7 DEF IniHolder

(* The same when it does nothing.                                            *)
LEMMA IniHolderSame ==
    ASSUME IniHolder, Grows, ini' = ini
    PROVE  IniHolder'
<1>1. CASE ini = None BY <1>1 DEF IniHolder
<1>2. CASE ini # None
  <2>1. PICK k : k = ini.ppk OBVIOUS
  <2>2. Offered(k)' BY <1>2, <2>1, OfferedKept DEF IniHolder
  <2>3. k = ini'.ppk BY <2>1
  <2> QED BY <1>2, <2>2, <2>3, IniHolderKept DEF SameConfs
<1> QED BY <1>1, <1>2

(* No new key is offered in a step.                                          *)
NoOffer == \A k : Offered(k)' => Offered(k)

(* Only a response with status OK offers one.                                *)
LEMMA QuietFrame ==
    ASSUME NEW f, air' \subseteq air \cup {f}, f.type # "resp" \/ f.status # "OK"
    PROVE  NoOffer
BY DEF NoOffer, Offered

(* The responder's part, when it keeps its keys and configurations.          *)
LEMMA ResHolderKept ==
    ASSUME ResHolder, Grows, NoOffer, res # None, SameConfs(res, res'), res'.pk = res.pk,
           res'.ppk = res.ppk, res'.ke = res.ke, res.success => res'.success
    PROVE  ResHolder'
<1>1. PICK a : a = res OBVIOUS
<1>2. PICK b : b = res' OBVIOUS
<1>3. HolderSound(a) BY <1>1 DEF ResHolder
<1>4. SameConfs(a, b) /\ b.pk = a.pk /\ b.ppk = a.ppk /\ b.ke = a.ke /\ (a.success => b.success)
  BY <1>1, <1>2
<1>5. HolderSound(b)' BY <1>3, <1>4, HolderSame, HolderKept
<1>6. Drawn(b.ppk)' BY <1>1, <1>4, DrawnKept DEF ResHolder
<1>7. b.ke # <<>> => Derived(b.ke)' BY <1>1, <1>4, DrawnKept DEF ResHolder, Derived
<1>8. b.confs # <<>> => b.success BY <1>1, <1>4 DEF ResHolder, SameConfs
<1>9. \A i \in 1 .. Len(b.confs) : Kept(b, i) => b.net = b.pk \/ ~Offered(b.pk)'
  BY <1>1, <1>4 DEF ResHolder, SameConfs, Kept, NoOffer
<1> QED BY <1>2, <1>5, <1>6, <1>7, <1>8, <1>9 DEF ResHolder

(* The same when it does nothing.                                            *)
LEMMA ResHolderSame ==
    ASSUME ResHolder, Grows, NoOffer, res' = res
    PROVE  ResHolder'
<1>1. CASE res = None BY <1>1 DEF ResHolder
<1>2. CASE res # None BY <1>2, ResHolderKept DEF SameConfs
<1> QED BY <1>1, <1>2

(* A new authentication has the commands that were given and no              *)
(* configuration.                                                            *)
NewAuth(z) ==
    /\ IsAuth(z) /\ z.success = FALSE /\ z.ke = <<>>
    /\ z.confs = <<>> /\ z.refused = None /\ z.ppk = NoKey
    /\ z.sta = dpp_configuration_parse(given.cmd).sta
    /\ z.ap = dpp_configuration_parse(given.cmd).ap

(* That is what dpp_set_configurator makes.                                  *)
LEMMA AuthNewConfs ==
    ASSUME NEW i, NEW r
    PROVE  NewAuth(Auth(i, r))
<1> DEFINE k == "C" \in r
           none == <<>>
           parse == dpp_configuration_parse(given.cmd)
<1>1. PICK cv, cf :
        Auth(i, r) =
         [initiator |-> i, roles |-> r, configurator |-> k,
          own |-> NoKey, peer |-> NoKey, pk |-> NoKey, ppk |-> NoKey, in |-> NoKey, rn |-> NoKey,
          M |-> {}, N |-> {}, L |-> {}, ke |-> none, success |-> FALSE, pending |-> FALSE,
          remove |-> FALSE, curve |-> cv, peer_version |-> 1, conf |-> cf,
          sta |-> parse.sta, ap |-> parse.ap,
          en |-> NoKey, role |-> "none", confs |-> none, net |-> NoKey, refused |-> None]
  BY Zenon DEF Auth
<1> HIDE DEF k, none, parse
<1>2. /\ Auth(i, r).confs = none /\ Auth(i, r).refused = None /\ Auth(i, r).ppk = NoKey
      /\ Auth(i, r).sta = parse.sta /\ Auth(i, r).ap = parse.ap
  BY <1>1
<1> QED BY <1>2, AuthNew DEF NewAuth, none, parse

(* Of no configurations everything holds.                                    *)
LEMMA NewHolder ==
    ASSUME NEW a, a.confs = <<>>, a.refused = None,
           a.sta = dpp_configuration_parse(given.cmd).sta,
           a.ap = dpp_configuration_parse(given.cmd).ap
    PROVE  HolderSound(a)
<1>1. Len(a.confs) = 0 OBVIOUS
<1>2. IsSeq(a.confs) BY <1>1 DEF IsSeq
<1>3. 1 .. Len(a.confs) = {} BY <1>1
<1> QED BY <1>2, <1>3 DEF HolderSound
-----------------------------------------------------------------------------
(* dpp_auth_init: the initiator draws the only protocol key it will have.    *)
LEMMA InitConf ==
    ASSUME ConfInv, dpp_auth_init(used)
    PROVE  ConfInv'
<1>1. used' = used + 2 /\ UNCHANGED <<given, res, now>> BY DEF dpp_auth_init
<1>2. PICK bi : \E a \in {[Auth(TRUE, given.ri) EXCEPT
                  !.peer = bi.key, !.own = IF given.own THEN BI ELSE used + 1,
                  !.in = used, !.pk = used, !.M = dpp_ecdh(used, bi.key)]} :
          /\ ini' = a
          /\ air' = air \cup {[type |-> "req", rhash |-> a.peer, ihash |-> a.own, ipk |-> a.pk,
                               key |-> dpp_derive_k1(a), in |-> a.in, capab |-> a.roles]}
  BY DEF dpp_auth_init
<1>3. PICK a, z, own, M, u :
          /\ z = Auth(TRUE, given.ri) /\ u = used
          /\ a = [z EXCEPT !.peer = bi.key, !.own = own, !.in = u, !.pk = u, !.M = M]
          /\ ini' = a
          /\ air' = air \cup {[type |-> "req", rhash |-> a.peer, ihash |-> a.own, ipk |-> a.pk,
                               key |-> dpp_derive_k1(a), in |-> a.in, capab |-> a.roles]}
  BY Zenon, <1>2
<1>4. /\ IsAuth(z) /\ z.confs = <<>> /\ z.refused = None /\ z.ppk = NoKey
      /\ z.sta = dpp_configuration_parse(given.cmd).sta
      /\ z.ap = dpp_configuration_parse(given.cmd).ap
  <2>1. NewAuth(z) BY Zenon, <1>3, AuthNewConfs
  <2> QED BY Zenon, <2>1 DEF NewAuth
<1>5. /\ a.confs = z.confs /\ a.refused = z.refused /\ a.ppk = z.ppk /\ a.sta = z.sta /\ a.ap = z.ap
      /\ a.pk = u
  BY <1>3, <1>4 DEF IsAuth, AuthFields
<1>6. HolderSound(a) BY <1>4, <1>5, NewHolder
<1>7. PICK f : f.type = "req" /\ f.ipk = u /\ air' = air \cup {f} BY <1>3, <1>5
<1>8. Grows /\ Steady' BY <1>1, <1>7 DEF ConfInv, Steady, Grows
<1>9. FrameSound(f)'
  <2>1. Drawn(u)' BY <1>1, <1>3 DEF Drawn, ConfInv, Steady
  <2> QED BY <1>7, <2>1 DEF FrameSound
<1>10. AsksKept
  <2>1. CASE res = None BY <1>1, <1>8, <2>1, AskedKept
  <2>2. CASE res # None BY <1>1, <1>8, <2>2, AskedKept
  <2> QED BY <2>1, <2>2
<1>11. AirSound' BY <1>7, <1>8, <1>9, <1>10, FramesKept DEF ConfInv
<1>12. IniHolder'
  <2>1. HolderSound(a)' BY <1>6, <1>8, HolderKept
  <2>2. Offered(a.ppk)' BY <1>4, <1>5 DEF Offered
  <2>3. 1 .. Len(a.confs) = {} BY <1>4, <1>5
  <2> QED BY <1>3, <2>1, <2>2, <2>3 DEF IniHolder
<1>13. ResHolder' BY <1>1, <1>7, <1>8, QuietFrame, ResHolderSame DEF ConfInv
<1> QED BY <1>8, <1>11, <1>12, <1>13 DEF ConfInv

(* dpp_auth_build_resp_ok: a response that is made offers a new key before   *)
(* there is any configuration; one that fails offers nothing.                *)
LEMMA RespondConf ==
    ASSUME NEW a, ConfInv, UNCHANGED <<given, ini, now>>, RespondOk(a, used),
           IsAuth(a), HolderSound(a), Drawn(a.ppk),
           a.ke # <<>> => Derived(a.ke),
           a.confs # <<>> => a.success,
           a.success => a.M = {},
           \A k : Asked(k) /\ a.ke = k => a.success
    PROVE  ConfInv'
<1>1. PICK b, ke : /\ b = ResponderKeys(a, used) /\ ke = dpp_derive_ke(b)
                   /\ \/ /\ ke = <<>> /\ res' = b
                         /\ UNCHANGED <<air, agreed>>
                      \/ /\ ke # <<>> /\ res' = [b EXCEPT !.ke = ke]
                         /\ air' = air \cup {dpp_auth_build_resp_ok([b EXCEPT !.ke = ke])}
                   /\ used' = used + 1
  BY DEF RespondOk
<1>2. /\ IsAuth(b) /\ b.M = a.M /\ b.success = a.success /\ b.ke = a.ke /\ b.ppk = a.ppk
      /\ b.pk = used /\ b.rn = used /\ SameConfs(a, b)
  <2>1. PICK N, L, u : b = [a EXCEPT !.rn = u, !.pk = u, !.N = N, !.L = L] /\ u = used
    BY <1>1, Zenon DEF ResponderKeys
  <2> QED BY <2>1 DEF IsAuth, AuthFields, SameConfs
<1>3. Grows /\ Steady'
  BY <1>1 DEF ConfInv, Steady, Grows
<1>4. HolderSound(b) BY <1>2, HolderNewKey
<1>5. IniHolder' BY <1>3, IniHolderSame DEF ConfInv
<1>6. CASE ke = <<>>
  <2>1. res' = b /\ air' = air BY <1>1, <1>6
  <2>2. AsksKept
    <3> SUFFICES ASSUME NEW k, Asked(k) PROVE Asked(k)' BY DEF AsksKept
    <3>1. Derived(k)' BY <1>3, DrawnKept DEF Asked, Derived
    <3>2. b.ke = k => b.success BY <1>2
    <3> QED BY <2>1, <3>1, <3>2 DEF Asked
  <2>3. AirSound' BY <1>3, <2>1, <2>2, FramesSame DEF ConfInv
  <2>4. ~Offered(b.pk)'
    <3>1. \A f \in air : f.type = "resp" /\ f.status = "OK" => f.rpk # used
      BY DEF ConfInv, AirSound, FrameSound, Drawn
    <3>2. used # NoKey BY DEF ConfInv, Steady, NoKey
    <3> QED BY <1>2, <2>1, <3>1, <3>2 DEF Offered
  <2>5. /\ HolderSound(b)' /\ Drawn(b.ppk)' /\ (b.ke # <<>> => Derived(b.ke)')
    BY <1>2, <1>3, <1>4, HolderKept, DrawnKept DEF Derived
  <2>6. b.confs # <<>> => b.success BY <1>2 DEF SameConfs
  <2>7. ResHolder' BY <2>1, <2>4, <2>5, <2>6 DEF ResHolder
  <2> QED BY <1>3, <1>5, <2>3, <2>7 DEF ConfInv
<1>7. CASE ke # <<>>
  <2>1. PICK c : c = [b EXCEPT !.ke = ke] OBVIOUS
  <2>2. /\ IsAuth(c) /\ c.success = a.success /\ c.ke = ke /\ c.ppk = a.ppk /\ c.pk = b.pk
        /\ SameConfs(b, c)
    BY <1>2, <2>1 DEF IsAuth, AuthFields, SameConfs
  <2>3. PICK m : /\ m.type = "resp" /\ m.status = "OK" /\ m.rpk = c.pk
                 /\ air' = air \cup {m}
    BY <1>1, <1>7, <2>1, <2>2 DEF dpp_auth_build_resp_ok
  <2>4. res' = c BY <1>1, <1>7, <2>1
  <2>5. b.M # {} /\ ke[3] = used
    <3>1. PICK i, M, N, L : ke = <<"ke", i, b.rn, M, N, L>> /\ b.M # {}
      BY <1>1, <1>7 DEF dpp_derive_ke
    <3> QED BY <1>2, <3>1
  <2>6. Drawn(ke[3])' /\ Drawn(c.pk)'
    BY <1>1, <1>2, <2>2, <2>5 DEF Drawn, ConfInv, Steady
  <2>7. AsksKept
    <3> SUFFICES ASSUME NEW k, Asked(k) PROVE Asked(k)' BY DEF AsksKept
    <3>1. Derived(k)' BY <1>3, DrawnKept DEF Asked, Derived
    <3>2. k # ke BY <2>5 DEF Asked, Derived, Drawn
    <3> QED BY <2>2, <2>4, <3>1, <3>2 DEF Asked
  <2>8. FrameSound(m)' BY <2>3, <2>6 DEF FrameSound
  <2>9. AirSound' BY <1>3, <2>3, <2>7, <2>8, FramesKept DEF ConfInv
  <2>10. c.confs = <<>> BY <1>2, <2>2, <2>5 DEF SameConfs
  <2>11. HolderSound(c)' /\ Drawn(c.ppk)'
    BY <1>3, <1>4, <2>2, HolderSame, HolderKept, DrawnKept
  <2>12. 1 .. Len(c.confs) = {} BY <2>10
  <2>13. ResHolder' BY <1>7, <2>2, <2>4, <2>6, <2>10, <2>11, <2>12 DEF ResHolder, Derived
  <2> QED BY <1>3, <1>5, <2>9, <2>13 DEF ConfInv
<1> QED BY <1>6, <1>7

(* dpp_auth_req_rx.                                                          *)
LEMMA RequestConf ==
    ASSUME AgreeInv, ConfInv, NEW m \in air, dpp_auth_req_rx(m, used)
    PROVE  ConfInv'
<1>1. m.type = "req" /\ UNCHANGED <<given, ini, now>> BY DEF dpp_auth_req_rx
<1>2. Drawn(m.ipk) BY <1>1 DEF ConfInv, AirSound, FrameSound
<1>3. PICK pair \in {dpp_bootstrap_find_pair(m.ihash, m.rhash)}, role \in {RoleFor(m.capab, given.rr)} :
     \E a \in {[Auth(FALSE, given.rr) EXCEPT
                  !.own = pair.own, !.peer = pair.peer, !.in = m.in, !.ppk = m.ipk,
                  !.M = dpp_ecdh(m.ipk, pair.own),
                  !.configurator = IF role = "none" THEN "C" \in given.rr ELSE role = "C"]} :
     /\ pair.own # NoKey
     /\ m.key = dpp_derive_k1(a)
     /\ count' = [count EXCEPT !.auth = @ + 1]
     /\ \/ /\ role = "none"
           /\ res' = [a EXCEPT !.remove = TRUE]
           /\ air' = air \cup {dpp_auth_build_resp_status(a, "NOT_COMPATIBLE")}
           /\ UNCHANGED <<used, agreed>>
        \/ /\ role # "none" /\ given.mutual /\ pair.peer = NoKey
           /\ res' = [a EXCEPT !.pending = TRUE]
           /\ air' = air \cup {dpp_auth_build_resp_status(a, "RESPONSE_PENDING")}
           /\ UNCHANGED <<used, agreed>>
        \/ /\ role # "none" /\ ~(given.mutual /\ pair.peer = NoKey)
           /\ RespondOk(a, used)
     /\ UNCHANGED <<given, table, ini, now>>
  BY Zenon DEF dpp_auth_req_rx
<1>3a. PICK k : k = (IF role = "none" THEN "C" \in given.rr ELSE role = "C") OBVIOUS
<1>3b. PICK d \in {[Auth(FALSE, given.rr) EXCEPT
                  !.own = pair.own, !.peer = pair.peer, !.in = m.in, !.ppk = m.ipk,
                  !.M = dpp_ecdh(m.ipk, pair.own), !.configurator = k]} :
        \/ /\ res' = [d EXCEPT !.remove = TRUE]
           /\ air' = air \cup {dpp_auth_build_resp_status(d, "NOT_COMPATIBLE")}
           /\ UNCHANGED <<used, agreed>>
        \/ /\ res' = [d EXCEPT !.pending = TRUE]
           /\ air' = air \cup {dpp_auth_build_resp_status(d, "RESPONSE_PENDING")}
           /\ UNCHANGED <<used, agreed>>
        \/ RespondOk(d, used)
  BY Zenon, <1>3, <1>3a
<1>4. PICK a, z, M :
          /\ z = Auth(FALSE, given.rr)
          /\ a = [z EXCEPT !.own = pair.own, !.peer = pair.peer, !.in = m.in, !.ppk = m.ipk,
                           !.M = M, !.configurator = k]
          /\ \/ /\ res' = [a EXCEPT !.remove = TRUE]
                /\ air' = air \cup {dpp_auth_build_resp_status(a, "NOT_COMPATIBLE")}
                /\ UNCHANGED <<used, agreed>>
             \/ /\ res' = [a EXCEPT !.pending = TRUE]
                /\ air' = air \cup {dpp_auth_build_resp_status(a, "RESPONSE_PENDING")}
                /\ UNCHANGED <<used, agreed>>
             \/ RespondOk(a, used)
  BY Zenon, <1>3b
<1>5. /\ IsAuth(z) /\ z.confs = <<>> /\ z.refused = None /\ z.success = FALSE /\ z.ke = <<>>
      /\ z.sta = dpp_configuration_parse(given.cmd).sta
      /\ z.ap = dpp_configuration_parse(given.cmd).ap
  <2>1. NewAuth(z) BY Zenon, <1>4, AuthNewConfs
  <2> QED BY Zenon, <2>1 DEF NewAuth
<1>6. /\ IsAuth(a) /\ a.confs = z.confs /\ a.refused = z.refused /\ a.sta = z.sta /\ a.ap = z.ap
      /\ a.success = z.success /\ a.ke = z.ke /\ a.ppk = m.ipk
  <2>1. DOMAIN z = AuthFields BY <1>5 DEF IsAuth
  <2>2. IsAuth(a) BY <1>4, <2>1 DEF IsAuth, AuthFields
  <2> QED BY <1>4, <2>1, <2>2 DEF AuthFields
<1>7. HolderSound(a) BY <1>5, <1>6, NewHolder
<1>8. ASSUME NEW c, NEW st \in {"NOT_COMPATIBLE", "RESPONSE_PENDING"}, res' = c,
             c.confs = a.confs, c.refused = a.refused, c.sta = a.sta, c.ap = a.ap,
             c.ke = a.ke, c.ppk = a.ppk,
             air' = air \cup {dpp_auth_build_resp_status(a, st)}, UNCHANGED used
      PROVE  ConfInv'
  <2>1. PICK f : f.type = "resp" /\ f.status = st /\ air' = air \cup {f}
    <3>1. PICK f : f = dpp_auth_build_resp_status(a, st) OBVIOUS
    <3>2. f.type = "resp" /\ f.status = st BY <3>1 DEF dpp_auth_build_resp_status
    <3> QED BY <3>1, <3>2, <1>8
  <2>2. Grows /\ Steady' BY <1>1, <1>8 DEF ConfInv, Steady, Grows
  <2>3. AsksKept BY <1>5, <1>6, <1>8, <2>2, AskedKept
  <2>4. FrameSound(f)' BY <1>8, <2>1 DEF FrameSound
  <2>5. AirSound' BY <2>1, <2>2, <2>3, <2>4, FramesKept DEF ConfInv
  <2>6. IniHolder' BY <1>1, <2>2, IniHolderSame DEF ConfInv
  <2>7. HolderSound(c)' BY <1>5, <1>6, <1>8, <2>2, NewHolder, HolderKept
  <2>8. Drawn(c.ppk)' BY <1>2, <1>6, <1>8, <2>2, DrawnKept
  <2>9. 1 .. Len(c.confs) = {} BY <1>5, <1>6, <1>8
  <2>10. ResHolder' BY <1>5, <1>6, <1>8, <2>7, <2>8, <2>9 DEF ResHolder
  <2> QED BY <2>2, <2>5, <2>6, <2>10 DEF ConfInv
<1>9. CASE RespondOk(a, used)
  <2>1. \A k2 : Asked(k2) => k2 # <<>> BY DEF Asked, Derived
  <2> QED BY <1>1, <1>2, <1>5, <1>6, <1>7, <1>9, <2>1, RespondConf
<1>10. CASE /\ res' = [a EXCEPT !.remove = TRUE]
            /\ air' = air \cup {dpp_auth_build_resp_status(a, "NOT_COMPATIBLE")}
            /\ UNCHANGED <<used, agreed>>
  <2>1. PICK c : c = [a EXCEPT !.remove = TRUE] OBVIOUS
  <2>2. /\ c.confs = a.confs /\ c.refused = a.refused /\ c.sta = a.sta /\ c.ap = a.ap
        /\ c.ke = a.ke /\ c.ppk = a.ppk
    BY <1>6, <2>1 DEF IsAuth, AuthFields
  <2> QED BY <1>8, <1>10, <2>1, <2>2
<1>11. CASE /\ res' = [a EXCEPT !.pending = TRUE]
            /\ air' = air \cup {dpp_auth_build_resp_status(a, "RESPONSE_PENDING")}
            /\ UNCHANGED <<used, agreed>>
  <2>1. PICK c : c = [a EXCEPT !.pending = TRUE] OBVIOUS
  <2>2. /\ c.confs = a.confs /\ c.refused = a.refused /\ c.sta = a.sta /\ c.ap = a.ap
        /\ c.ke = a.ke /\ c.ppk = a.ppk
    BY <1>6, <2>1 DEF IsAuth, AuthFields
  <2> QED BY <1>8, <1>11, <2>1, <2>2
<1> QED BY <1>4, <1>9, <1>10, <1>11

(* dpp_add_qr_code: scanned after a success, the code changes the protocol   *)
(* key and offers nothing.                                                   *)
LEMMA ScanConf ==
    ASSUME AgreeInv, ConfInv, dpp_add_qr_code(used)
    PROVE  ConfInv'
<1>1. UNCHANGED <<given, ini, now>> BY DEF dpp_add_qr_code
<1>2. CASE res # None /\ RespondOk([res EXCEPT !.peer = BI], used)
  <2>1. PICK a : a = [res EXCEPT !.peer = BI] OBVIOUS
  <2>2. IsAuth(res) BY <1>2 DEF AgreeInv, ResSound
  <2>3. /\ IsAuth(a) /\ a.success = res.success /\ a.M = res.M /\ a.ke = res.ke
        /\ a.ppk = res.ppk /\ a.pk = res.pk /\ SameConfs(res, a)
    BY <2>1, <2>2 DEF IsAuth, AuthFields, SameConfs
  <2>4. PICK r : r = res OBVIOUS
  <2>5. HolderSound(a)
    <3>1. HolderSound(r) /\ SameConfs(r, a) /\ a.pk = r.pk BY <1>2, <2>3, <2>4 DEF ConfInv, ResHolder
    <3> QED BY <3>1, HolderSame
  <2>6. /\ Drawn(a.ppk) /\ (a.ke # <<>> => Derived(a.ke)) /\ (a.confs # <<>> => a.success)
    BY <1>2, <2>3 DEF ConfInv, ResHolder, SameConfs
  <2>7. a.success => a.M = {} BY <1>2, <2>3 DEF AgreeInv, ResSound
  <2>8. \A k : Asked(k) /\ a.ke = k => a.success BY <1>2, <2>3 DEF Asked
  <2>9. RespondOk(a, used) BY <1>2, <2>1
  <2> QED BY <1>1, <2>3, <2>5, <2>6, <2>7, <2>8, <2>9, RespondConf
<1>3. CASE UNCHANGED <<res, air, used, agreed>>
  <2>1. Grows /\ Steady' BY <1>1, <1>3 DEF ConfInv, Steady, Grows
  <2>2. AsksKept
    <3>1. CASE res = None BY <1>3, <2>1, <3>1, AskedKept
    <3>2. CASE res # None BY <1>3, <2>1, <3>2, AskedKept
    <3> QED BY <3>1, <3>2
  <2>3. NoOffer BY <1>3 DEF NoOffer, Offered
  <2> QED BY <1>1, <1>3, <2>1, <2>2, <2>3, FramesSame, IniHolderSame, ResHolderSame DEF ConfInv
<1> QED BY <1>2, <1>3 DEF dpp_add_qr_code

(* dpp_auth_conf_rx.                                                         *)
LEMMA ConfirmConf ==
    ASSUME AgreeInv, ConfInv, NEW m \in air, dpp_auth_conf_rx(m)
    PROVE  ConfInv'
<1>1. /\ res # None /\ res' = dpp_auth_success(res) /\ UNCHANGED <<given, ini, air, used, now>>
  BY DEF dpp_auth_conf_rx
<1>2. IsAuth(res) BY <1>1 DEF AgreeInv, ResSound
<1>3. /\ res'.ke = res.ke /\ res'.success /\ res'.pk = res.pk /\ res'.ppk = res.ppk
      /\ SameConfs(res, res')
  BY <1>1, <1>2 DEF dpp_auth_success, IsAuth, AuthFields, SameConfs
<1>4. Grows /\ Steady' BY <1>1 DEF ConfInv, Steady, Grows
<1>5. AsksKept BY <1>1, <1>3, <1>4, AskedKept
<1>6. NoOffer BY <1>1 DEF NoOffer, Offered
<1> QED BY <1>1, <1>3, <1>4, <1>5, <1>6, FramesSame, IniHolderSame, ResHolderKept DEF ConfInv

(* Whatever AfterResponse makes of a response, it takes the peer's key from  *)
(* it and leaves own key and configurations.                                 *)
LEMMA ResponseTakes ==
    ASSUME NEW a, NEW m, NEW r, IsAuth(a), r = AfterResponse(a, m)
    PROVE  SameConfs(a, r.auth) /\ r.auth.pk = a.pk /\ r.auth.ppk = m.rpk
<1> DEFINE
      keys == [a EXCEPT !.own = IF m.ihash = NoKey THEN NoKey ELSE @,
                        !.ppk = m.rpk, !.N = dpp_ecdh(a.pk, m.rpk)]
      read == [keys EXCEPT !.rn = m.rn]
      with == [read EXCEPT !.L = IF read.own # NoKey
                                 THEN dpp_auth_derive_l(read.own, read.peer, m.rpk) ELSE @]
      role == RoleAfter(with, m.capab)
      k    == role = "C"
      took == [with EXCEPT !.configurator = k]
      ke   == dpp_derive_ke(took)
      done == [took EXCEPT !.ke = ke]
      Took(b) == IsAuth(b) /\ SameConfs(a, b) /\ b.pk = a.pk /\ b.ppk = m.rpk
<1>1. \/ r.auth = keys \/ r.auth = read \/ r.auth = [with EXCEPT !.remove = TRUE]
      \/ r.auth = took \/ r.auth = done \/ r.auth = [done EXCEPT !.remove = TRUE]
      \/ r.auth = dpp_auth_success(done)
  <2> DEFINE
      Only(b) == [auth |-> b, frames |-> {}, agreed |-> {}]
      Refuse(b, status) == [auth |-> [b EXCEPT !.remove = TRUE],
                            frames |-> {dpp_auth_build_conf(b, status)}, agreed |-> {}]
      tag == dpp_gen_r_auth(done, done.pk, done.ppk, done.own, done.peer)
      won == [auth |-> dpp_auth_success(done), frames |-> {dpp_auth_build_conf(done, "OK")},
              agreed |-> {<<"i", done.ke, done.configurator>>}]
  <2>1. r = IF m.key # dpp_derive_k2(keys) THEN Only(keys)
            ELSE IF m.in # a.in THEN Only(read)
            ELSE IF role = "none" THEN Refuse(with, "NOT_COMPATIBLE")
            ELSE IF ke = <<>> THEN Only(took)
            ELSE IF m.inner # done.ke THEN Only(done)
            ELSE IF m.tag # tag THEN Refuse(done, "AUTH_FAILURE")
            ELSE won
    BY DEF AfterResponse
  <2> HIDE DEF keys, read, with, role, took, ke, done, tag
  <2> QED BY <2>1
<1>2. ASSUME NEW b, Took(b), NEW x,
             NEW c, \/ c = [b EXCEPT !.rn = x] \/ c = [b EXCEPT !.L = x]
                    \/ c = [b EXCEPT !.configurator = x] \/ c = [b EXCEPT !.ke = x]
                    \/ c = [b EXCEPT !.remove = x] \/ c = dpp_auth_success(b)
      PROVE  Took(c)
  <2>1. IsAuth(c) BY <1>2 DEF IsAuth, AuthFields, dpp_auth_success
  <2>2. SameConfs(b, c) /\ c.pk = b.pk /\ c.ppk = b.ppk
    BY <1>2 DEF SameConfs, IsAuth, AuthFields, dpp_auth_success
  <2> QED BY <1>2, <2>1, <2>2 DEF SameConfs
<1>3. Took(keys)
  <2>1. PICK o, N : keys = [a EXCEPT !.own = o, !.ppk = m.rpk, !.N = N] BY Zenon
  <2> QED BY <2>1 DEF SameConfs, IsAuth, AuthFields
<1> HIDE DEF keys, Took, role, k, ke
<1>4. Took(read) BY <1>2, <1>3
<1> HIDE DEF read
<1>5. Took(with)
  <2>1. PICK L : with = [read EXCEPT !.L = L] BY Zenon
  <2> QED BY <1>2, <1>4, <2>1
<1> HIDE DEF with
<1>6. Took(took) BY <1>2, <1>5
<1> HIDE DEF took
<1>7. Took(done) BY <1>2, <1>6
<1> HIDE DEF done
<1>8. Took(r.auth) BY <1>1, <1>2, <1>3, <1>4, <1>5, <1>6, <1>7
<1> QED BY <1>8 DEF Took

(* dpp_auth_resp_rx.                                                         *)
LEMMA ResponseConf ==
    ASSUME AgreeInv, ConfInv, NEW m \in air, dpp_auth_resp_rx(m)
    PROVE  ConfInv'
<1>1. /\ m.type = "resp" /\ m.status = "OK" /\ ini # None
      /\ UNCHANGED <<given, res, used, now>>
  BY DEF dpp_auth_resp_rx
<1>2. m.capab = IF Role = "C" THEN "C" ELSE "E"
  BY <1>1 DEF AgreeInv, AirHonest, FrameHonest
<1>3. PICK r, k, a : /\ r = AfterResponse(a, m) /\ a = ini
                     /\ ini' = r.auth /\ air' = air \cup r.frames
                     /\ k = IF m.capab = "E" THEN TRUE ELSE FALSE
  BY DEF dpp_auth_resp_rx
<1>4. IsAuth(a) /\ (a.success => a.M = {}) BY <1>1, <1>3 DEF AgreeInv, IniSound
<1>5. m.capab \in {"C", "E"} BY <1>2
<1>6. Outcome(a, m, r, k) BY <1>3, <1>4, <1>5, ResponseOutcomes
<1>7. PICK f : f.type = "conf" /\ air' \subseteq air \cup {f}
  <2>1. CASE r.frames = {}
    <3>1. PICK f : f = [type |-> "conf"] OBVIOUS
    <3> QED BY <1>3, <2>1, <3>1
  <2>2. CASE \E f : f.type = "conf" /\ r.frames = {f} BY <1>3, <2>2
  <2> QED BY <1>6, <2>1, <2>2 DEF Outcome
<1>8. SameConfs(a, r.auth) /\ r.auth.pk = a.pk /\ r.auth.ppk = m.rpk
  BY <1>3, <1>4, ResponseTakes
<1>9. Grows /\ Steady' BY <1>1, <1>3 DEF ConfInv, Steady, Grows
<1>10. AsksKept
  <2>1. CASE res = None BY <1>1, <1>9, <2>1, AskedKept
  <2>2. CASE res # None BY <1>1, <1>9, <2>2, AskedKept
  <2> QED BY <2>1, <2>2
<1>11. FrameSound(f)' BY <1>7 DEF FrameSound
<1>12. AirSound' BY <1>7, <1>9, <1>10, <1>11, FramesKept DEF ConfInv
<1>13. Offered(m.rpk)' BY <1>1, <1>9 DEF Grows, Offered
<1>14. IniHolder'
  <2>1. SameConfs(ini, ini') /\ ini'.pk = ini.pk /\ m.rpk = ini'.ppk BY <1>3, <1>8
  <2> QED BY <1>1, <1>9, <1>13, <2>1, IniHolderKept DEF ConfInv
<1>15. ResHolder' BY <1>1, <1>7, <1>9, QuietFrame, ResHolderSame DEF ConfInv
<1> QED BY <1>9, <1>12, <1>14, <1>15 DEF ConfInv
-----------------------------------------------------------------------------
(* dpp_build_conf_req_helper: only a device that succeeded asks.             *)
LEMMA AskConf ==
    ASSUME AgreeInv, ConfInv, NEW w \in {"i", "r"}, NEW role, dpp_build_conf_req_helper(w, role, used)
    PROVE  ConfInv'
<1>1. PICK a : a = AuthOf(w) OBVIOUS
<1>2. PICK b : b = [a EXCEPT !.en = used, !.role = role] OBVIOUS
<1>3. PICK f : f = [type |-> "ask", from |-> w, key |-> a.ke, en |-> used, role |-> role] OBVIOUS
<1>4. /\ a # None /\ a.success /\ SetAuth(w, b) /\ air' = air \cup {f}
      /\ used' = used + 1 /\ UNCHANGED <<given, now>>
  BY <1>1, <1>2, <1>3 DEF dpp_build_conf_req_helper
<1>5. IsAuth(a) BY <1>1, <1>4 DEF AuthOf, AgreeInv, IniSound, ResSound
<1>6. /\ SameConfs(a, b) /\ b.pk = a.pk /\ b.ppk = a.ppk /\ b.ke = a.ke /\ b.success = a.success
  BY <1>2, <1>5 DEF SameConfs, IsAuth, AuthFields
<1>7. f.type = "ask" /\ f.from = w /\ f.key = a.ke BY <1>3
<1>8. Grows /\ Steady' BY <1>4 DEF ConfInv, Steady, Grows
<1>9. NoOffer BY <1>4, <1>7, QuietFrame
<1>10. CASE w = "i"
  <2>1. a = ini /\ ini' = b /\ res' = res BY <1>1, <1>4, <1>10 DEF AuthOf, SetAuth
  <2>2. AsksKept
    <3>1. CASE res = None BY <1>8, <2>1, <3>1, AskedKept
    <3>2. CASE res # None BY <1>8, <2>1, <3>2, AskedKept
    <3> QED BY <3>1, <3>2
  <2>3. FrameSound(f)' BY <1>7, <1>10 DEF FrameSound
  <2>4. AirSound' BY <1>4, <1>8, <2>2, <2>3, FramesKept DEF ConfInv
  <2>5. Offered(b.ppk)' BY <1>4, <1>6, <1>8, <2>1, OfferedKept DEF ConfInv, IniHolder
  <2>6. SameConfs(ini, ini') /\ ini'.pk = ini.pk /\ b.ppk = ini'.ppk BY <1>6, <2>1
  <2>7. IniHolder' BY <1>4, <1>8, <2>1, <2>5, <2>6, IniHolderKept DEF ConfInv
  <2>8. ResHolder' BY <1>8, <1>9, <2>1, ResHolderSame DEF ConfInv
  <2> QED BY <1>8, <2>4, <2>7, <2>8 DEF ConfInv
<1>11. CASE w = "r"
  <2>1. a = res /\ res' = b /\ ini' = ini BY <1>1, <1>4, <1>11 DEF AuthOf, SetAuth
  <2>2. AsksKept BY <1>4, <1>6, <1>8, <2>1, AskedKept
  <2>3. Asked(a.ke)
    <3>1. res.ke # <<>> BY <1>4, <2>1 DEF AgreeInv, ResSound
    <3> QED BY <1>4, <2>1, <3>1 DEF Asked, ConfInv, ResHolder
  <2>4. FrameSound(f)' BY <1>7, <2>2, <2>3 DEF FrameSound, AsksKept
  <2>5. AirSound' BY <1>4, <1>8, <2>2, <2>4, FramesKept DEF ConfInv
  <2>6. IniHolder' BY <1>8, <2>1, IniHolderSame DEF ConfInv
  <2>7. ResHolder' BY <1>4, <1>6, <1>8, <1>9, <2>1, ResHolderKept DEF ConfInv
  <2> QED BY <1>8, <2>5, <2>6, <2>7 DEF ConfInv
<1> QED BY <1>10, <1>11

(* A key that was offered was drawn.                                         *)
LEMMA OfferedDrawn ==
    ASSUME ConfInv, NEW k, Offered(k)
    PROVE  Drawn(k)
<1>1. Drawn(NoKey) BY DEF Drawn, NoKey, ConfInv, Steady
<1>2. \A f \in air : f.type = "resp" /\ f.status = "OK" => Drawn(f.rpk)
  BY DEF ConfInv, AirSound, FrameSound
<1> QED BY <1>1, <1>2 DEF Offered

(* dpp_build_conf_resp: the answer's object is sound and certifies the       *)
(* peer's key.                                                               *)
LEMMA AnswerBuilt ==
    ASSUME ConfInv, Grows, NEW a, NEW w, NEW m, NEW f, HolderSound(a), Drawn(a.ppk),
           f = dpp_build_conf_resp(a, w, m)
    PROVE  /\ f.type = "answer" /\ f.from = w /\ f.key = a.ke
           /\ f.status = "OK" =>
                /\ ObjSound(f.obj)'
                /\ CommandsTyped => ObjFair(f.obj)'
                /\ f.obj.connector # None => f.obj.connector.key = a.ppk
<1>1. PICK o : o = dpp_build_conf_obj(a, m.role) OBVIOUS
<1>2. f = [type |-> "answer", from |-> w, key |-> a.ke, en |-> m.en,
           status |-> IF o = None THEN "CONFIGURE_FAILURE" ELSE "OK", obj |-> o]
  BY <1>1, Zenon DEF dpp_build_conf_resp
<1>3. /\ f.type = "answer" /\ f.from = w /\ f.key = a.ke /\ f.obj = o
      /\ f.status = "OK" => o # None
  BY <1>2
<1>4. CommandsTyped => ConfFits(a.sta) /\ ConfFits(a.ap)
  <2>1. CommandsTyped => /\ ConfFits(dpp_configuration_parse(given.cmd).sta)
                         /\ ConfFits(dpp_configuration_parse(given.cmd).ap)
    BY CommandFits DEF ConfInv, Steady
  <2>2. /\ a.sta = dpp_configuration_parse(given.cmd).sta
        /\ a.ap = dpp_configuration_parse(given.cmd).ap
    BY DEF HolderSound
  <2> QED BY Zenon, <2>1, <2>2
<1>5. o # None => /\ ObjSound(o) /\ (CommandsTyped => ObjFair(o))
                  /\ o.connector # None => o.connector.key = a.ppk
  BY <1>1, <1>4, BuiltSound
<1>6. (ObjSound(o) => ObjSound(o)') /\ (ObjFair(o) => ObjFair(o)') BY ObjKept, FairKept
<1> QED BY <1>3, <1>5, <1>6

(* dpp_conf_req_rx.                                                          *)
LEMMA AnswerConf ==
    ASSUME AgreeInv, ConfInv, NEW m \in air, NEW w \in {"i", "r"}, dpp_conf_req_rx(w, m)
    PROVE  ConfInv'
<1>1. PICK a : a = AuthOf(w) OBVIOUS
<1>2. PICK b : b = [a EXCEPT !.en = m.en] OBVIOUS
<1>3. PICK f : f = dpp_build_conf_resp(a, w, m) OBVIOUS
<1>4. /\ a # None /\ SetAuth(w, b) /\ air' = air \cup {f}
      /\ m.type = "ask" /\ m.from # w /\ m.key = a.ke
      /\ UNCHANGED <<given, used, now>>
  BY <1>1, <1>2, <1>3 DEF dpp_conf_req_rx
<1>5. IsAuth(a) BY <1>1, <1>4 DEF AuthOf, AgreeInv, IniSound, ResSound
<1>6. /\ SameConfs(a, b) /\ b.pk = a.pk /\ b.ppk = a.ppk /\ b.ke = a.ke /\ b.success = a.success
  BY <1>2, <1>5 DEF SameConfs, IsAuth, AuthFields
<1>7. Grows /\ Steady' BY <1>4 DEF ConfInv, Steady, Grows
<1>8. HolderSound(a) /\ Drawn(a.ppk)
  BY <1>1, <1>4, OfferedDrawn DEF AuthOf, ConfInv, IniHolder, ResHolder
<1>9. /\ f.type = "answer" /\ f.from = w /\ f.key = a.ke
      /\ f.status = "OK" =>
           /\ ObjSound(f.obj)'
           /\ CommandsTyped => ObjFair(f.obj)'
           /\ f.obj.connector # None => f.obj.connector.key = a.ppk
  BY <1>3, <1>7, <1>8, AnswerBuilt
<1>10. NoOffer BY <1>4, <1>9, QuietFrame
<1>11. CASE w = "i"
  <2>1. a = ini /\ ini' = b /\ res' = res BY <1>1, <1>4, <1>11 DEF AuthOf, SetAuth
  <2>2. AsksKept
    <3>1. CASE res = None BY <1>7, <2>1, <3>1, AskedKept
    <3>2. CASE res # None BY <1>7, <2>1, <3>2, AskedKept
    <3> QED BY <3>1, <3>2
  <2>3. Asked(a.ke)' BY <1>4, <1>11, <2>2 DEF ConfInv, AirSound, FrameSound, AsksKept
  <2>4. Offered(a.ppk)' BY <1>4, <1>7, <2>1, OfferedKept DEF ConfInv, IniHolder
  <2>5. FrameSound(f)' BY <1>9, <2>3, <2>4 DEF FrameSound
  <2>6. AirSound' BY <1>4, <1>7, <2>2, <2>5, FramesKept DEF ConfInv
  <2>7. SameConfs(ini, ini') /\ ini'.pk = ini.pk /\ a.ppk = ini'.ppk BY <1>6, <2>1
  <2>8. IniHolder' BY <1>4, <1>7, <2>1, <2>4, <2>7, IniHolderKept DEF ConfInv
  <2>9. ResHolder' BY <1>7, <1>10, <2>1, ResHolderSame DEF ConfInv
  <2> QED BY <1>7, <2>6, <2>8, <2>9 DEF ConfInv
<1>12. CASE w = "r"
  <2>1. a = res /\ res' = b /\ ini' = ini BY <1>1, <1>4, <1>12 DEF AuthOf, SetAuth
  <2>2. AsksKept BY <1>4, <1>6, <1>7, <2>1, AskedKept
  <2>3. FrameSound(f)' BY <1>9, <1>12 DEF FrameSound
  <2>4. AirSound' BY <1>4, <1>7, <2>2, <2>3, FramesKept DEF ConfInv
  <2>5. IniHolder' BY <1>7, <2>1, IniHolderSame DEF ConfInv
  <2>6. ResHolder' BY <1>4, <1>6, <1>7, <1>10, <2>1, ResHolderKept DEF ConfInv
  <2> QED BY <1>7, <2>4, <2>5, <2>6 DEF ConfInv
<1> QED BY <1>11, <1>12

(* dpp_conf_resp_rx: the responder takes only objects for keys it offered,   *)
(* and only after its success.                                               *)
LEMMA TookConf ==
    ASSUME AgreeInv, ConfInv, NEW m \in air, NEW w \in {"i", "r"}, dpp_conf_resp_rx(w, m)
    PROVE  ConfInv'
<1>1. PICK a, o : a = AuthOf(w) /\ o = m.obj OBVIOUS
<1>2. PICK p, b : Takes(a, o, p, b) /\ SetAuth(w, b)
  BY Zenon, <1>1 DEF dpp_conf_resp_rx, Takes
<1>3. /\ a # None /\ m.type = "answer" /\ m.from # w /\ m.key = a.ke /\ m.status = "OK"
      /\ UNCHANGED <<air, given, used, now>>
  BY <1>1 DEF dpp_conf_resp_rx
<1>4. IsAuth(a) /\ HolderSound(a)
  BY <1>1, <1>3 DEF AuthOf, AgreeInv, IniSound, ResSound, ConfInv, IniHolder, ResHolder
<1>5. ObjSound(o) /\ (CommandsTyped => ObjFair(o))
  BY <1>1, <1>3 DEF ConfInv, AirSound, FrameSound
<1>6. Grows /\ Steady' BY <1>3 DEF ConfInv, Steady, Grows
<1>7. NoOffer BY <1>3 DEF NoOffer, Offered
<1>8. CASE w = "i"
  <2>1. a = ini /\ ini' = b /\ res' = res BY <1>1, <1>2, <1>8 DEF AuthOf, SetAuth
  <2>2. \A i \in 1 .. Len(a.confs) : Kept(a, i) => a.net = a.pk
    BY <1>3, <2>1 DEF ConfInv, IniHolder
  <2>3. /\ HolderSound(b) /\ b.pk = a.pk /\ b.ppk = a.ppk
        /\ \A i \in 1 .. Len(b.confs) : Kept(b, i) =>
              b.net = b.pk \/ (b.net = a.net /\ \E j \in 1 .. Len(a.confs) : Kept(a, j))
    <3>1. \A i \in 1 .. Len(a.confs) : Kept(a, i) =>
             a.net = a.pk \/ o.connector = None \/ o.connector.key # a.pk
      BY <2>2
    <3>2. Taken(a, b) BY <1>2, <1>4, <1>5, <3>1, TookSound
    <3> QED BY <3>2 DEF Taken
  <2>4. HolderSound(b)' BY <1>6, <2>3, HolderKept
  <2>5. Offered(b.ppk)' BY <1>3, <1>6, <2>1, <2>3, OfferedKept DEF ConfInv, IniHolder
  <2>6. IniHolder' BY <2>1, <2>2, <2>3, <2>4, <2>5 DEF IniHolder
  <2>7. AsksKept
    <3>1. CASE res = None BY <1>6, <2>1, <3>1, AskedKept
    <3>2. CASE res # None BY <1>6, <2>1, <3>2, AskedKept
    <3> QED BY <3>1, <3>2
  <2>8. ResHolder' BY <1>6, <1>7, <2>1, ResHolderSame DEF ConfInv
  <2> QED BY <1>3, <1>6, <2>6, <2>7, <2>8, FramesSame DEF ConfInv
<1>9. CASE w = "r"
  <2>1. a = res /\ res' = b /\ ini' = ini BY <1>1, <1>2, <1>9 DEF AuthOf, SetAuth
  <2>2. Asked(m.key) /\ (o.connector # None => Offered(o.connector.key))
    BY <1>1, <1>3, <1>9 DEF ConfInv, AirSound, FrameSound
  <2>3. a.success BY <1>3, <2>1, <2>2 DEF Asked
  <2>4. \A i \in 1 .. Len(a.confs) : Kept(a, i) => a.net = a.pk \/ ~Offered(a.pk)
    BY <1>3, <2>1 DEF ConfInv, ResHolder
  <2>5. \A i \in 1 .. Len(a.confs) : Kept(a, i) =>
           a.net = a.pk \/ o.connector = None \/ o.connector.key # a.pk
    BY <2>2, <2>4
  <2>6. /\ HolderSound(b) /\ SameAuth(a, b) /\ b.pk = a.pk /\ b.ppk = a.ppk
        /\ \A i \in 1 .. Len(b.confs) : Kept(b, i) =>
              b.net = b.pk \/ (b.net = a.net /\ \E j \in 1 .. Len(a.confs) : Kept(a, j))
    <3>1. Taken(a, b) BY <1>2, <1>4, <1>5, <2>5, TookSound
    <3> QED BY <3>1 DEF Taken
  <2>7. HolderSound(b)' BY <1>6, <2>6, HolderKept
  <2>8. b.ke = a.ke /\ b.success BY <2>3, <2>6 DEF SameAuth
  <2>9. Drawn(b.ppk)' /\ (b.ke # <<>> => Derived(b.ke)')
    BY <1>3, <1>6, <2>1, <2>6, <2>8, DrawnKept DEF ConfInv, ResHolder, Derived
  <2>10. \A i \in 1 .. Len(b.confs) : Kept(b, i) => b.net = b.pk \/ ~Offered(b.pk)'
    BY <1>7, <2>4, <2>6 DEF NoOffer
  <2>11. ResHolder' BY <2>1, <2>7, <2>8, <2>9, <2>10 DEF ResHolder
  <2>12. AsksKept BY <1>3, <1>6, <2>1, <2>8, AskedKept
  <2>13. IniHolder' BY <1>6, <2>1, IniHolderSame DEF ConfInv
  <2> QED BY <1>3, <1>6, <2>11, <2>12, <2>13, FramesSame DEF ConfInv
<1> QED BY <1>8, <1>9
-----------------------------------------------------------------------------
(* The invariant, step by step.                                              *)
LEMMA ConfStep ==
    ASSUME AgreeInv, ConfInv, [Next]_vars
    PROVE  ConfInv'
<1>1. CASE dpp_auth_init(used) BY <1>1, InitConf
<1>2. ASSUME \/ DropInitiator \/ DropResponder \/ Tick \/ UNCHANGED vars PROVE ConfInv'
  <2>1. /\ UNCHANGED <<given, air, used>>
        /\ now' = now \/ now' = now + 1
        /\ ini' = ini \/ ini' = None
        /\ res' = res \/ res' = None
    BY <1>2 DEF DropInitiator, DropResponder, Tick, vars, dpp_auth_deinit
  <2>2. Grows /\ Steady' BY <2>1 DEF ConfInv, Steady, Grows
  <2>3. AsksKept
    <3>1. CASE res' = None BY <2>2, <3>1, AskedKept
    <3>2. CASE res' # None
      <4>1. res # None /\ res'.ke = res.ke /\ (res.success => res'.success) BY <2>1, <3>2
      <4> QED BY <2>2, <4>1, AskedKept
    <3> QED BY <3>1, <3>2
  <2>4. NoOffer BY <2>1 DEF NoOffer, Offered
  <2>5. AirSound' BY <2>1, <2>2, <2>3, FramesSame DEF ConfInv
  <2>6. IniHolder'
    <3>1. CASE ini' = None BY <3>1 DEF IniHolder
    <3>2. CASE ini' = ini BY <2>2, <3>2, IniHolderSame DEF ConfInv
    <3> QED BY <2>1, <3>1, <3>2
  <2>7. ResHolder'
    <3>1. CASE res' = None BY <3>1 DEF ResHolder
    <3>2. CASE res' = res BY <2>2, <2>4, <3>2, ResHolderSame DEF ConfInv
    <3> QED BY <2>1, <3>1, <3>2
  <2> QED BY <2>2, <2>5, <2>6, <2>7 DEF ConfInv
<1>3. CASE dpp_add_qr_code(used) BY <1>3, ScanConf
<1>4. ASSUME NEW m \in air,
             dpp_auth_req_rx(m, used) \/ dpp_auth_resp_rx(m) \/ dpp_auth_conf_rx(m)
      PROVE  ConfInv'
  BY <1>4, RequestConf, ResponseConf, ConfirmConf
<1>5. ASSUME NEW m \in air, NEW w \in {"i", "r"}, dpp_conf_req_rx(w, m) \/ dpp_conf_resp_rx(w, m)
      PROVE  ConfInv'
  BY <1>5, AnswerConf, TookConf
<1>6. ASSUME NEW w \in {"i", "r"}, NEW role, dpp_build_conf_req_helper(w, role, used)
      PROVE  ConfInv'
  BY <1>6, AskConf
<1> QED BY <1>1, <1>2, <1>3, <1>4, <1>5, <1>6 DEF Next

(* Both invariants hold of every behaviour (dpp_auth_init to                 *)
(* dpp_conf_resp_rx).                                                        *)
LEMMA InvHolds == Spec => [](AgreeInv /\ ConfInv)
<1>1. Init => AgreeInv
  BY DEF Init, AgreeInv, AirHonest, IniSound, ResSound
<1>2. Init => ConfInv
  BY DEF Init, ConfInv, Steady, AirSound, IniHolder, ResHolder
<1>3. AgreeInv /\ [Next]_vars => AgreeInv' BY AgreeStep
<1>4. AgreeInv /\ ConfInv /\ [Next]_vars => ConfInv' BY ConfStep
<1> QED BY <1>1, <1>2, <1>3, <1>4, PTL DEF Spec

(* The indices of a sequence.                                                *)
LEMMA DomainOfSeq ==
    ASSUME NEW s, IsSeq(s)
    PROVE  DOMAIN s = 1 .. Len(s)
BY DEF IsSeq

(* The invariant's part about the device w.                                  *)
LEMMA HolderOf ==
    ASSUME ConfInv, NEW w \in {"i", "r"}, AuthOf(w) # None
    PROVE  HolderSound(AuthOf(w))
BY DEF ConfInv, IniHolder, ResHolder, AuthOf

(* From the invariant to what it is for: connectors (dpp_parse_conf_obj).    *)
LEMMA ConfInvMine ==
    ASSUME ConfInv
    PROVE  ConnectorMine
<1> SUFFICES ASSUME NEW w \in {"i", "r"}, AuthOf(w) # None, NEW i \in DOMAIN AuthOf(w).confs,
                    AuthOf(w).confs[i].good, AuthOf(w).confs[i].connector # None
             PROVE  AuthOf(w).confs[i].connector.key = AuthOf(w).net
  BY Zenon DEF ConnectorMine
<1>1. PICK a : a = AuthOf(w) OBVIOUS
<1>2. HolderSound(a) BY <1>1, HolderOf
<1>3. i \in 1 .. Len(a.confs) BY <1>1, <1>2, DomainOfSeq DEF HolderSound
<1>4. Kept(a, i) BY <1>1 DEF Kept
<1> QED BY <1>1, <1>2, <1>3, <1>4 DEF HolderSound

(* From the invariant to usable configurations (dpp_build_conf_resp).        *)
LEMMA ConfInvUsable ==
    ASSUME ConfInv, CommandsTyped
    PROVE  ConfigUsable
<1> SUFFICES ASSUME NEW w \in {"i", "r"}, AuthOf(w) # None, AuthOf(w).refused # None
             PROVE  \/ LeftBare(AuthOf(w).refused)
                    \/ /\ AuthOf(w).refused.connector # None
                       /\ \/ dpp_key_expired(AuthOf(w).refused.connector.expiry, now)
                          \/ AuthOf(w).refused.connector.key # AuthOf(w).pk
  BY Zenon DEF ConfigUsable
<1>1. PICK a : a = AuthOf(w) OBVIOUS
<1>2. HolderSound(a) BY <1>1, HolderOf
<1> QED BY <1>1, <1>2 DEF HolderSound, Excused

(* Whether groups match does not depend on the side                          *)
(* (dpp_connector_match_groups).                                             *)
LEMMA GroupsSymmetric ==
    ASSUME NEW A, NEW B
    PROVE  dpp_connector_match_groups(A, B) <=> dpp_connector_match_groups(B, A)
BY DEF dpp_connector_match_groups, dpp_connector_compatible_group, dpp_compatible_netrole

(* Two devices with connectors signed by the keys they keep get the same of  *)
(* dpp_peer_intro.                                                           *)
LEMMA IntroSymmetric ==
    ASSUME NEW c, NEW d, NEW t,
           c.csign = c.connector.kid, c.connector.sig.over = "hash", c.connector.key \in Nat,
           d.csign = d.connector.kid, d.connector.sig.over = "hash", d.connector.key \in Nat,
           ~dpp_key_expired(c.connector.expiry, t), ~dpp_key_expired(d.connector.expiry, t)
    PROVE  dpp_peer_intro(c, d.connector, t) = dpp_peer_intro(d, c.connector, t)
<1>1. PICK k, l : k = c.connector /\ l = d.connector OBVIOUS
<1>2. dpp_process_signed_connector(l, c.csign) = dpp_process_signed_connector(k, d.csign)
  BY <1>1 DEF dpp_process_signed_connector, crypto_edcsa_sign_verify
<1>3. dpp_connector_match_groups(k.groups, l.groups) <=> dpp_connector_match_groups(l.groups, k.groups)
  BY GroupsSymmetric
<1>4. dpp_derive_pmk(k.key, l.key) = dpp_derive_pmk(l.key, k.key)
  <2>1. {k.key, l.key} = {l.key, k.key} OBVIOUS
  <2> QED BY <2>1 DEF dpp_derive_pmk
<1>5. dpp_derive_pmkid(k.key, l.key) = dpp_derive_pmkid(l.key, k.key)
  BY <1>1 DEF dpp_derive_pmkid
<1> QED BY <1>1, <1>2, <1>3, <1>4, <1>5 DEF dpp_peer_intro

(* From the invariant to introductions (dpp_peer_intro).                     *)
LEMMA ConfInvIntro ==
    ASSUME ConfInv, NeighboursConfigured
    PROVE  IntroAgree
<1> SUFFICES ASSUME NEW w \in {"i", "r"}, NEW d \in Neighbours, AuthOf(w) # None,
                    NEW i \in DOMAIN AuthOf(w).confs, NEW c, c = AuthOf(w).confs[i],
                    c.good, c.connector # None,
                    ~dpp_key_expired(c.connector.expiry, now),
                    ~dpp_key_expired(d.connector.expiry, now)
             PROVE  dpp_peer_intro(c, d.connector, now) = dpp_peer_intro(d, c.connector, now)
  BY Zenon DEF IntroAgree
<1>1. PICK a : a = AuthOf(w) OBVIOUS
<1>2. HolderSound(a) BY <1>1, HolderOf
<1>3. i \in 1 .. Len(a.confs) BY <1>1, <1>2, DomainOfSeq DEF HolderSound
<1>4. ObjSound(c) BY <1>1, <1>2, <1>3 DEF HolderSound
<1>5. c.csign = c.connector.kid /\ c.connector.sig.over = "hash" /\ c.connector.key \in Nat
  BY <1>4 DEF ObjSound, Drawn
<1>6. d.csign = d.connector.kid /\ d.connector.sig.over = "hash" /\ d.connector.key \in Nat
  <2>1. PICK k, s : /\ k = d.connector.kid /\ s = d.connector.sig /\ s = crypto_ecdsa_get_sign(k)
    BY DEF NeighboursConfigured
  <2>2. s.over = "hash" BY <2>1 DEF crypto_ecdsa_get_sign
  <2> QED BY <2>1, <2>2 DEF NeighboursConfigured
<1>7. PICK t : t = now OBVIOUS
<1> QED BY <1>5, <1>6, <1>7, IntroSymmetric

(* A connector a device keeps as good (dpp_parse_conf_obj) certifies the     *)
(* network access key it keeps with it, for any commands and number of       *)
(* exchanges, also when a late response or a code scanned again changed a    *)
(* key in between.                                                           *)
THEOREM ConnectorsMatch == Spec => []ConnectorMine
<1>1. ConfInv => ConnectorMine BY ConfInvMine
<1> QED BY <1>1, InvHolds, PTL

(* With every command, for one role or for both, what a configurator builds  *)
(* and reports as OK (dpp_build_conf_resp) the enrollee refuses only when it *)
(* is the half the command left bare, expired on the way, or the two hold    *)
(* different keys of the enrollee.  CommandsTyped gives types only.          *)
THEOREM ConfigurationsUsable ==
    ASSUME CommandsTyped
    PROVE  Spec => []ConfigUsable
<1>1. ConfInv => ConfigUsable BY ConfInvUsable
<1> QED BY <1>1, InvHolds, PTL

(* A configured device and any neighbour that was configured agree in        *)
(* dpp_peer_intro whether they may talk, and on PMK and PMKID.               *)
THEOREM IntroductionsAgree ==
    ASSUME NeighboursConfigured
    PROVE  Spec => []IntroAgree
<1>1. ConfInv => IntroAgree BY ConfInvIntro
<1> QED BY <1>1, InvHolds, PTL

(* Everything DppAgree says of two devices that run dpp.c: the agreement of  *)
(* the authentication, connectors for the own key, usable configurations,    *)
(* introductions.                                                            *)
THEOREM DevicesAgree ==
    ASSUME CommandsTyped, NeighboursConfigured
    PROVE  Spec => []DppAgree
BY PeersAgree, ConnectorsMatch, ConfigurationsUsable, IntroductionsAgree, PTL DEF DppAgree
=============================================================================
