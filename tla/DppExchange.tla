---------------------------- MODULE DppExchange -----------------------------
(***************************************************************************)
(* A DPP authentication between an initiator and a responder, and the      *)
(* configuration of the one that becomes the enrollee.  dpp.c is the       *)
(* library; the program that calls it is not in this tree.  It is taken to *)
(* be the weakest caller the interface allows: it starts and drops         *)
(* authentications when it likes, hands every frame to the authentication  *)
(* in progress, and lets the enrollee ask for its configuration.  Frames   *)
(* are lost, repeated and reordered: a frame that was sent may be          *)
(* delivered at any time, any number of times.                             *)
(*                                                                         *)
(* A wrapped attribute is readable with the key it was wrapped with and no *)
(* other (AES-SIV); a fresh key or nonce is a number never used before;    *)
(* the nonce and the protocol key of a device are fresh together, so one   *)
(* number stands for both.                                                 *)
(***************************************************************************)
EXTENDS DppConnector

CONSTANTS Setups,      \* what the devices may have been given (see "given")
          Neighbours,  \* configured devices [connector, csign] to be introduced to
          MaxAuth,     \* bound: authentications the two devices start
          MaxScan,     \* bound: codes the responder's user scans
          MaxAsk,      \* bound: configuration requests
          MaxNow       \* bound: time

Roles == {{"C"}, {"E"}, {"C", "E"}}   \* allowed_roles: configurator, enrollee
BR == 1                     \* the responder's bootstrapping key
BI == 2                     \* the initiator's
NoKey == 0

VARIABLES
    given,   \* what the two devices were given: ri and rr, the roles they may take; mutual,
             \* whether the responder waits for the initiator's key; own, whether the initiator
             \* has one; cmd, the configurator's command; curves, of the responder's
             \* bootstrapping key and of the signing key; uri, scanned by the initiator
    table,   \* the responder's bootstrapping keys, dpp->bootstrap
    ini,     \* the initiator's authentication, or None
    res,     \* the responder's authentication, or None
    air,     \* the frames sent so far
    used,    \* numbers used, for fresh keys and nonces
    count,   \* authentications, scans and requests so far
    agreed,  \* history: <<who, key, configurator>> of the responses and confirms made
    now      \* the time
vars == <<given, table, ini, res, air, used, count, agreed, now>>

Configurator == [key |-> 9, curve |-> given.curves[2]]

(* A new authentication; a device that may be configurator has its command parsed *)
Auth(initiator, roles) ==
    LET c == dpp_configuration_parse(given.cmd)
    IN [initiator |-> initiator, roles |-> roles, configurator |-> "C" \in roles,
        own |-> NoKey, peer |-> NoKey, pk |-> NoKey, ppk |-> NoKey, in |-> NoKey, rn |-> NoKey,
        M |-> {}, N |-> {}, L |-> {}, ke |-> <<>>, success |-> FALSE, pending |-> FALSE,
        remove |-> FALSE, curve |-> given.curves[1], peer_version |-> 1,
        conf |-> Configurator, sta |-> c.sta, ap |-> c.ap,
        en |-> NoKey, role |-> "none", confs |-> <<>>, net |-> NoKey, refused |-> None]

Init ==
    /\ given \in Setups
    /\ dpp_configuration_parse(given.cmd).ok
    /\ table = {[own |-> TRUE, key |-> BR]}
    /\ ini = None /\ res = None
    /\ air = {} /\ used = 100 /\ count = [auth |-> 0, scan |-> 0, ask |-> 0]
    /\ agreed = {} /\ now = 1

-----------------------------------------------------------------------------
(* Keys *)

dpp_ecdh(a, b) == {a, b}

dpp_derive_k1(a) == <<"k1", a.M>>
dpp_derive_k2(a) == <<"k2", a.N>>

(* Fails when Mx or Nx is gone, or Lx where both bootstrapping keys are known *)
dpp_derive_ke(a) ==
    IF a.M = {} \/ a.N = {} \/ (a.own # NoKey /\ a.peer # NoKey /\ a.L = {}) THEN <<>>
    ELSE <<"ke", a.in, a.rn, a.M, a.N, IF a.own # NoKey /\ a.peer # NoKey THEN a.L ELSE {}>>

(* L = bI * (BR + PR) = (bR + pR) * BI *)
dpp_auth_derive_l(bi, br, pr) == {<<bi>>, <<br, pr>>}

dpp_gen_r_auth(a, i, r, bi, br) == <<a.in, a.rn, i, r, bi, br, 0>>
dpp_gen_i_auth(a, i, r, bi, br) == <<a.rn, a.in, r, i, br, bi, 1>>

dpp_auth_success(a) == [a EXCEPT !.M = {}, !.N = {}, !.L = {}, !.success = TRUE]

Mutual(a) == a.own # NoKey /\ a.peer # NoKey

-----------------------------------------------------------------------------
(* The initiator starts: its bootstrapping key is its own or one made for the occasion *)

dpp_auth_init(fresh) ==
    /\ ini = None /\ count.auth < MaxAuth
    /\ \E bi \in {dpp_parse_uri(given.uri)} \ {None} :
       \E a \in {[Auth(TRUE, given.ri) EXCEPT
                  !.peer = bi.key, !.own = IF given.own THEN BI ELSE fresh + 1,
                  !.in = fresh, !.pk = fresh, !.M = dpp_ecdh(fresh, bi.key)]} :
          /\ ini' = a
          /\ air' = air \cup {[type |-> "req", rhash |-> a.peer, ihash |-> a.own, ipk |-> a.pk,
                               key |-> dpp_derive_k1(a), in |-> a.in, capab |-> a.roles]}
    /\ used' = fresh + 2
    /\ count' = [count EXCEPT !.auth = @ + 1]
    /\ UNCHANGED <<given, table, res, agreed, now>>

dpp_auth_deinit(auth) == auth # None /\ auth' = None

DropInitiator == dpp_auth_deinit(ini) /\ UNCHANGED <<given, table, res, air, used, count, agreed, now>>
DropResponder == dpp_auth_deinit(res) /\ UNCHANGED <<given, table, ini, air, used, count, agreed, now>>

-----------------------------------------------------------------------------
(* The responder *)

(* The status-only response: wrapped with k1 *)
dpp_auth_build_resp_status(a, status) ==
    [type |-> "resp", status |-> status, rhash |-> a.own, ihash |-> a.peer, rpk |-> NoKey,
     key |-> dpp_derive_k1(a), rn |-> NoKey, in |-> a.in,
     capab |-> IF a.configurator THEN "C" ELSE "E", inner |-> <<>>, tag |-> <<>>]

(* A fresh key and nonce, Nx, and Lx when both keys are known *)
ResponderKeys(a, fresh) ==
    [a EXCEPT !.rn = fresh, !.pk = fresh, !.N = dpp_ecdh(fresh, a.ppk),
              !.L = IF Mutual(a) THEN dpp_auth_derive_l(a.peer, a.own, fresh) ELSE @]

dpp_auth_build_resp_ok(b) ==
    [type |-> "resp", status |-> "OK", rhash |-> b.own, ihash |-> b.peer, rpk |-> b.pk,
     key |-> dpp_derive_k2(b), rn |-> b.rn, in |-> b.in,
     capab |-> IF b.configurator THEN "C" ELSE "E",
     inner |-> b.ke, tag |-> dpp_gen_r_auth(b, b.ppk, b.pk, b.peer, b.own)]

(* Without Mx, which a success clears, the response fails when the keys are already new *)
RespondOk(a, fresh) ==
    \E keys \in {ResponderKeys(a, fresh)}, ke \in {dpp_derive_ke(ResponderKeys(a, fresh))} :
        /\ \/ /\ ke = <<>>
              /\ res' = keys
              /\ UNCHANGED <<air, agreed>>
           \/ /\ ke # <<>>
              /\ res' = [keys EXCEPT !.ke = ke]
              /\ air' = air \cup {dpp_auth_build_resp_ok([keys EXCEPT !.ke = ke])}
              /\ agreed' = agreed \cup {<<"r", ke, a.configurator>>}
        /\ used' = fresh + 1

dpp_bootstrap_find_pair(ihash, rhash) ==
    [own  |-> IF [own |-> TRUE, key |-> rhash] \in table THEN rhash ELSE NoKey,
     peer |-> IF [own |-> FALSE, key |-> ihash] \in table THEN ihash ELSE NoKey]

(* The role the responder takes, "none" when the two are not compatible *)
RoleFor(icapab, roles) ==
    CASE icapab = {"E"} -> IF "C" \in roles THEN "C" ELSE "none"
      [] icapab = {"C"} -> IF "E" \in roles THEN "E" ELSE "none"
      [] OTHER -> IF "E" \in roles THEN "E" ELSE "C"

dpp_auth_req_rx(m, fresh) ==
    /\ m.type = "req" /\ res = None /\ count.auth < MaxAuth
    /\ \E pair \in {dpp_bootstrap_find_pair(m.ihash, m.rhash)}, role \in {RoleFor(m.capab, given.rr)} :
       \E a \in {[Auth(FALSE, given.rr) EXCEPT
                    !.own = pair.own, !.peer = pair.peer, !.in = m.in, !.ppk = m.ipk,
                    !.M = dpp_ecdh(m.ipk, pair.own),
                    !.configurator = IF role = "none" THEN "C" \in given.rr ELSE role = "C"]} :
       /\ pair.own # NoKey
       /\ m.key = dpp_derive_k1(a)
       /\ count' = [count EXCEPT !.auth = @ + 1]
       /\ \/ /\ role = "none"
             /\ res' = [a EXCEPT !.remove = TRUE]
             /\ air' = air \cup {dpp_auth_build_resp_status(a, "NOT_COMPATIBLE")}
             /\ UNCHANGED <<used, agreed>>
          \/ /\ role # "none" /\ given.mutual /\ pair.peer = NoKey
             /\ res' = [a EXCEPT !.pending = TRUE]
             /\ air' = air \cup {dpp_auth_build_resp_status(a, "RESPONSE_PENDING")}
             /\ UNCHANGED <<used, agreed>>
          \/ /\ role # "none" /\ ~(given.mutual /\ pair.peer = NoKey)
             /\ RespondOk(a, fresh)
       /\ UNCHANGED <<given, table, ini, now>>

(* The user scans the initiator's code; the authentication that waits for it goes on, and
   stays pending: a code scanned again makes another response *)
dpp_add_qr_code(fresh) ==
    /\ given.own /\ count.scan < MaxScan
    /\ table' = table \cup {[own |-> FALSE, key |-> BI]}
    /\ \/ /\ res # None /\ res.pending
          /\ \E m \in air : m.type = "req" /\ m.in = res.in /\ m.ihash = BI
          /\ RespondOk([res EXCEPT !.peer = BI], fresh)
       \/ /\ ~(res # None /\ res.pending)
          /\ UNCHANGED <<res, air, used, agreed>>
    /\ count' = [count EXCEPT !.scan = @ + 1]
    /\ UNCHANGED <<given, ini, now>>

dpp_auth_conf_rx(m) ==
    /\ m.type = "conf" /\ res # None
    /\ ~res.initiator /\ m.rhash = res.own /\ m.ihash = res.peer
    /\ m.status = "OK" /\ m.key = res.ke /\ res.ke # <<>>
    /\ m.tag = dpp_gen_i_auth(res, res.ppk, res.pk, res.peer, res.own)
    /\ res' = dpp_auth_success(res)
    /\ UNCHANGED <<given, table, ini, air, used, count, agreed, now>>

-----------------------------------------------------------------------------
(* The initiator receives a response *)

dpp_auth_build_conf(a, status) ==
    [type |-> "conf", status |-> status, rhash |-> a.peer, ihash |-> a.own,
     key |-> IF status = "OK" THEN a.ke ELSE dpp_derive_k2(a), rn |-> a.rn,
     tag |-> IF status = "OK" THEN dpp_gen_i_auth(a, a.pk, a.ppk, a.own, a.peer) ELSE <<>>]

(* The role the initiator is left with, "none" when the responder's does not fit *)
RoleAfter(a, capab) ==
    IF a.roles = {"C", "E"} THEN (IF capab = "E" THEN "C" ELSE "E")
    ELSE IF a.configurator /\ capab = "E" THEN "C"
    ELSE IF ~a.configurator /\ capab = "C" THEN "E" ELSE "none"

(* What a response with status OK makes of the authentication a.  Without the initiator's key
   hash it drops the initiator's key; the peer's key and nonce are taken before anything else
   is known of the response.  A second response finds Mx gone and stops there *)
AfterResponse(a, m) ==
    LET keys == [a EXCEPT !.own = IF m.ihash = NoKey THEN NoKey ELSE @,
                          !.ppk = m.rpk, !.N = dpp_ecdh(a.pk, m.rpk)]
        read == [keys EXCEPT !.rn = m.rn]
        with == [read EXCEPT !.L = IF read.own # NoKey
                                   THEN dpp_auth_derive_l(read.own, read.peer, m.rpk) ELSE @]
        role == RoleAfter(with, m.capab)
        took == [with EXCEPT !.configurator = role = "C"]
        done == [took EXCEPT !.ke = dpp_derive_ke(took)]
        Only(b) == [auth |-> b, frames |-> {}, agreed |-> {}]
        Refuse(b, status) == [auth |-> [b EXCEPT !.remove = TRUE],
                              frames |-> {dpp_auth_build_conf(b, status)}, agreed |-> {}]
    IN IF m.key # dpp_derive_k2(keys) THEN Only(keys)
       ELSE IF m.in # a.in THEN Only(read)
       ELSE IF role = "none" THEN Refuse(with, "NOT_COMPATIBLE")
       ELSE IF dpp_derive_ke(took) = <<>> THEN Only(took)
       ELSE IF m.inner # done.ke THEN Only(done)
       ELSE IF m.tag # dpp_gen_r_auth(done, done.pk, done.ppk, done.own, done.peer)
       THEN Refuse(done, "AUTH_FAILURE")
       ELSE [auth |-> dpp_auth_success(done), frames |-> {dpp_auth_build_conf(done, "OK")},
             agreed |-> {<<"i", done.ke, done.configurator>>}]

dpp_auth_resp_rx(m) ==
    /\ m.type = "resp" /\ m.status = "OK" /\ ini # None
    /\ m.rhash = ini.peer /\ m.ihash \in {NoKey, ini.own}
    /\ \E r \in {AfterResponse(ini, m)} :
          ini' = r.auth /\ air' = air \cup r.frames /\ agreed' = agreed \cup r.agreed
    /\ UNCHANGED <<given, table, res, used, count, now>>

-----------------------------------------------------------------------------
(* Configuration.  Either device may be the enrollee: w is "i" or "r" *)

AuthOf(w) == IF w = "i" THEN ini ELSE res
SetAuth(w, a) == IF w = "i" THEN ini' = a /\ UNCHANGED res ELSE res' = a /\ UNCHANGED ini

dpp_build_conf_req_helper(w, role, fresh) ==
    LET a == AuthOf(w)
    IN /\ a # None /\ a.success /\ ~a.configurator /\ count.ask < MaxAsk
       /\ SetAuth(w, [a EXCEPT !.en = fresh, !.role = role])
       /\ air' = air \cup {[type |-> "ask", from |-> w, key |-> a.ke, en |-> fresh, role |-> role]}
       /\ used' = fresh + 1
       /\ count' = [count EXCEPT !.ask = @ + 1]
       /\ UNCHANGED <<given, table, agreed, now>>

dpp_build_conf_resp(a, w, m) ==
    LET obj == dpp_build_conf_obj(a, m.role)
    IN [type |-> "answer", from |-> w, key |-> a.ke, en |-> m.en,
        status |-> IF obj = None THEN "CONFIGURE_FAILURE" ELSE "OK", obj |-> obj]

dpp_conf_req_rx(w, m) ==
    LET a == AuthOf(w)
    IN /\ m.type = "ask" /\ m.from # w /\ a # None /\ m.key = a.ke
       /\ SetAuth(w, [a EXCEPT !.en = m.en])
       /\ air' = air \cup {dpp_build_conf_resp(a, w, m)}
       /\ UNCHANGED <<given, table, used, count, agreed, now>>

dpp_conf_resp_rx(w, m) ==
    LET a == AuthOf(w)
    IN /\ m.type = "answer" /\ m.from # w /\ a # None /\ m.key = a.ke /\ m.en = a.en
       /\ m.status = "OK"
       /\ \E p \in {dpp_parse_conf_obj(a, m.obj, now)} :
             SetAuth(w, [a EXCEPT !.confs = p.confs, !.net = p.net, !.refused = IF p.ok THEN @ ELSE m.obj])
       /\ UNCHANGED <<given, table, air, used, count, agreed, now>>

Tick == now < MaxNow /\ now' = now + 1 /\ UNCHANGED <<given, table, ini, res, air, used, count, agreed>>

Next ==
    \/ dpp_auth_init(used)
    \/ DropInitiator
    \/ DropResponder
    \/ dpp_add_qr_code(used)
    \/ Tick
    \/ \E m \in air :
          \/ dpp_auth_req_rx(m, used)
          \/ dpp_auth_resp_rx(m)
          \/ dpp_auth_conf_rx(m)
          \/ \E w \in {"i", "r"} : dpp_conf_req_rx(w, m) \/ dpp_conf_resp_rx(w, m)
    \/ \E w \in {"i", "r"}, role \in {"sta", "ap", "configurator"} :
          dpp_build_conf_req_helper(w, role, used)

Spec == Init /\ [][Next]_vars

-----------------------------------------------------------------------------
(* Properties *)

(* The type of a command: one or two objects, with the AKMs that dpp_configuration_alloc takes, for a
   station, an access point or both. *)
CommandsTyped ==
    \A s \in Setups :
        /\ DOMAIN s.cmd \in {1 .. 1, 1 .. 2}
        /\ \A i \in DOMAIN s.cmd, role \in {"sta", "ap"} :
              s.cmd[i][role] \subseteq {"psk", "sae", "dpp"}

(* The neighbours have been configured: each keeps with its connector the key that signed it. *)
NeighboursConfigured ==
    \A d \in Neighbours :
        /\ d.csign = d.connector.kid
        /\ d.connector.key \in Nat
        /\ d.connector.sig = crypto_ecdsa_get_sign(d.connector.kid)

(* A device that reports success (dpp_auth_success) did so with a peer that derived the same key in
   the same exchange and took the other role, whatever frames were repeated, reordered or left over
   from an exchange that was dropped. *)
AuthAgree ==
    \A w \in {"i", "r"} : LET a == AuthOf(w) IN
        a # None /\ a.success =>
            \E h \in agreed : h[1] # w /\ h[2] = a.ke /\ h[3] # a.configurator

(* A connector that a device keeps as good (dpp_parse_conf_obj) certifies the network access key it
   keeps with it, also when a late response made the configurator take another key for the peer's,
   or a code scanned again gave the device another protocol key. *)
ConnectorMine ==
    \A w \in {"i", "r"} : LET a == AuthOf(w) IN
        a # None => \A i \in DOMAIN a.confs :
            a.confs[i].good /\ a.confs[i].connector # None =>
                a.confs[i].connector.key = a.net

(* Of a command for both roles only the access point's half takes the parameters
   (dpp_configuration_parse_helper): what is made of the station's half has no SSID and no credentials. *)
LeftBare(o) ==
    ~o.ssid /\ \A role \in {"sta", "ap"} : CmdAkm(given.cmd, role) # {}

(* What the configurator builds and reports as OK (dpp_build_conf_resp) the enrollee does not refuse,
   unless it is the bare half of a command for both roles, the connector expired on the way, or a
   late response or a code scanned again left the two with different keys of the enrollee. *)
ConfigUsable ==
    \A w \in {"i", "r"} : LET a == AuthOf(w) IN
        a # None /\ a.refused # None =>
            \/ LeftBare(a.refused)
            \/ /\ a.refused.connector # None
               /\ dpp_key_expired(a.refused.connector.expiry, now) \/ a.refused.connector.key # a.pk

(* Two configured devices whose connectors have not expired agree in dpp_peer_intro whether they may
   talk, and when they do, on the PMK and on its identifier. *)
IntroAgree ==
    \A w \in {"i", "r"}, d \in Neighbours : LET a == AuthOf(w) IN
        a # None => \A i \in DOMAIN a.confs :
            LET c == a.confs[i] IN
            /\ c.good /\ c.connector # None
            /\ ~dpp_key_expired(c.connector.expiry, now)
            /\ ~dpp_key_expired(d.connector.expiry, now)
            => dpp_peer_intro(c, d.connector, now) = dpp_peer_intro(d, c.connector, now)

(* All of it: two devices that run dpp.c agree on the key, the roles, the connectors and configurations
   that come of it (dpp_auth_success, dpp_parse_conf_obj, dpp_build_conf_resp), and in dpp_peer_intro. *)
DppAgree == AuthAgree /\ ConnectorMine /\ ConfigUsable /\ IntroAgree

=============================================================================
