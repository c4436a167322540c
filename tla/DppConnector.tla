---------------------------- MODULE DppConnector ----------------------------
(***************************************************************************)
(* The data of Device Provisioning Protocol (dpp.c): bootstrapping URIs,   *)
(* the configurator's command, the configuration objects it makes of it,   *)
(* what the enrollee makes of those, and the introduction of two           *)
(* configured devices.  A key is a number (its x coordinate), a hash of    *)
(* keys or secrets is the tuple of what is hashed, and the secret of an    *)
(* exchange the set of the two keys.                                       *)
(***************************************************************************)
EXTENDS Naturals, Integers, Sequences, FiniteSets, SequencesExt

CONSTANT DPP_MAX_CONF_OBJ   \* configuration objects an authentication holds

None == [null |-> TRUE]     \* the null pointer

-----------------------------------------------------------------------------
(* Bootstrapping URIs: a sequence of fields <<tag, key, good>>; the first field of each tag counts *)

FieldsOf(uri, tag) == SelectSeq(uri, LAMBDA f : f[1] = tag)

(* A MAC address, an info string or a key that does not decode refuses the URI;
   the channel list is not looked at in this build *)
dpp_parse_uri(uri) ==
    LET First(tag) == IF FieldsOf(uri, tag) = <<>> THEN None ELSE FieldsOf(uri, tag)[1]
        Good(tag)  == First(tag) = None \/ First(tag)[3]
    IN IF First("K") = None \/ ~(Good("M") /\ Good("I") /\ Good("K")) THEN None
       ELSE [own |-> FALSE, key |-> First("K")[2]]

-----------------------------------------------------------------------------
(* AKMs: the set of methods a configuration object names *)

dpp_akm_psk(akm) == "psk" \in akm
dpp_akm_sae(akm) == "sae" \in akm
dpp_akm_dpp(akm) == "dpp" \in akm
dpp_akm_legacy(akm) == akm \in {{"psk"}, {"psk", "sae"}, {"sae"}}
dpp_akm_ver2(akm) == akm \in {{"sae", "dpp"}, {"psk", "sae", "dpp"}}

dpp_configuration_valid(c) ==
    /\ c.ssid
    /\ dpp_akm_psk(c.akm) => c.pass \/ c.psk
    /\ dpp_akm_sae(c.akm) => c.pass

(* A command is a sequence of one or two objects; an object names an AKM for a station, for an
   access point or for both ({} for none), and may carry the parameters in "has".
   A parameter is found anywhere in the text that is searched: the first object's search
   also runs over the second's text *)
CmdHas(cmd, what) == \E i \in DOMAIN cmd : what \in cmd[i].has
CmdAkm(cmd, role) ==
    LET at == {i \in DOMAIN cmd : cmd[i][role] # {}}
    IN IF at = {} THEN {} ELSE cmd[CHOOSE i \in at : \A j \in at : i <= j][role]

Configuration(role, akm) ==
    [netrole |-> role, akm |-> akm, ssid |-> FALSE, pass |-> FALSE, psk |-> FALSE,
     group |-> "*", expiry |-> 0]

(* The configuration for an access point takes the parameters, or the station's when there is no other *)
dpp_configuration_parse_helper(cmd) ==
    LET sta  == CmdAkm(cmd, "sta")
        ap   == CmdAkm(cmd, "ap")
        role == IF ap # {} THEN "ap" ELSE "sta"
        full == [Configuration(role, IF ap # {} THEN ap ELSE sta)
                    EXCEPT !.ssid = CmdHas(cmd, "ssid"), !.pass = CmdHas(cmd, "pass"),
                           !.psk = CmdHas(cmd, "psk"),
                           !.group = IF CmdHas(cmd, "group") THEN "G" ELSE "*",
                           !.expiry = IF CmdHas(cmd, "expiry") THEN 1 ELSE 0]
    IN IF sta = {} /\ ap = {} THEN [ok |-> TRUE, sta |-> None, ap |-> None]
       ELSE IF ~dpp_configuration_valid(full) THEN [ok |-> FALSE, sta |-> None, ap |-> None]
       ELSE [ok  |-> TRUE,
             sta |-> IF sta = {} THEN None ELSE IF ap = {} THEN full ELSE Configuration("sta", sta),
             ap  |-> IF ap = {} THEN None ELSE full]

(* Both halves must parse.  The second object is only sent to a peer of version 2,
   which no peer is taken for *)
dpp_configuration_parse(cmd) ==
    LET one == dpp_configuration_parse_helper(cmd)
        two == dpp_configuration_parse_helper(Tail(cmd))
    IN IF Len(cmd) = 1 \/ two.ok THEN one ELSE [ok |-> FALSE, sta |-> None, ap |-> None]

-----------------------------------------------------------------------------
(* Configuration objects.  c is a configurator [key, curve], a the authentication *)

HashLen(curve) == IF curve = "P-256" THEN 32 ELSE 48

crypto_ecdsa_get_sign(key) == [key |-> key, over |-> "hash"]

(* 0 is success.  mbedtls takes its argument for the hash: here it is given the text *)
crypto_edcsa_sign_verify(sig, key, over) == IF sig.key = key /\ sig.over = over THEN 0 ELSE -1

(* The credentials of an AKM that is not DPP's; without any the object is not well-formed JSON *)
dpp_build_legacy_cred_params(conf) ==
    IF conf.pass THEN "pass" ELSE IF conf.psk THEN "psk_hex" ELSE "malformed"

(* A peer of version 1, as every peer is, gets an AKM of version 2 as DPP alone *)
dpp_build_conf_obj_dpp(a, conf) ==
    LET akm == IF dpp_akm_ver2(conf.akm) /\ a.peer_version < 2 THEN {"dpp"} ELSE conf.akm
        legacy == dpp_akm_psk(akm) \/ dpp_akm_sae(akm)
    IN IF a.conf = None \/ HashLen(a.conf.curve) # 32 THEN None
       ELSE [ssid |-> conf.ssid, akm |-> akm, csign |-> a.conf.key,
             cred |-> IF legacy THEN dpp_build_legacy_cred_params(conf) ELSE "none",
             connector |-> [kid |-> a.conf.key, groups |-> {<<conf.group, conf.netrole>>},
                            key |-> a.ppk, curve |-> a.curve, expiry |-> conf.expiry,
                            sig |-> crypto_ecdsa_get_sign(a.conf.key)]]

dpp_build_conf_obj_legacy(a, conf) ==
    [ssid |-> conf.ssid, akm |-> conf.akm, csign |-> 0, connector |-> None,
     cred |-> dpp_build_legacy_cred_params(conf)]

dpp_build_conf_obj(a, netrole) ==
    LET conf == CASE netrole = "sta" -> a.sta
                  [] netrole = "ap" -> a.ap
                  [] OTHER -> None
    IN IF conf = None THEN None
       ELSE IF dpp_akm_dpp(conf.akm) THEN dpp_build_conf_obj_dpp(a, conf)
       ELSE dpp_build_conf_obj_legacy(a, conf)

-----------------------------------------------------------------------------
(* What a device makes of a configuration object *)

dpp_parse_cred_legacy(obj) ==
    \/ obj.cred = "pass"
    \/ obj.cred = "psk_hex" /\ ~dpp_akm_sae(obj.akm)

(* An expiry of 0 is none *)
dpp_key_expired(expiry, now) == expiry # 0 /\ now > expiry

(* The result of the verification is used as a truth value *)
dpp_process_signed_connector(con, csign) ==
    IF con.kid # csign THEN "NO_MATCH"
    ELSE IF crypto_edcsa_sign_verify(con.sig, csign, "text") = 0 THEN "255" ELSE "OK"

dpp_parse_connector(a, con, now) ==
    /\ con.groups # {}
    /\ ~dpp_key_expired(con.expiry, now)
    /\ con.key = a.pk

dpp_parse_cred_dpp(a, obj, now) ==
    /\ dpp_akm_psk(obj.akm) \/ dpp_akm_sae(obj.akm) => dpp_parse_cred_legacy(obj)
    /\ dpp_process_signed_connector(obj.connector, obj.csign) = "OK"
    /\ dpp_parse_connector(a, obj.connector, now)

(* An object in the table, struct dpp_config_obj: what was sent, and whether it is of use *)
ConfObj(obj, good) == [ssid |-> obj.ssid, akm |-> obj.akm, csign |-> obj.csign, cred |-> obj.cred,
                       connector |-> obj.connector, good |-> good]

(* JSON that does not parse leaves no object, and neither does a full table, which is no error;
   an object whose credentials are refused stays in the table, marked bad.  A connector that is
   kept makes the protocol key of that moment the network access key (dpp_copy_netaccesskey) *)
dpp_parse_conf_obj(a, obj, now) ==
    LET good == IF dpp_akm_legacy(obj.akm) THEN dpp_parse_cred_legacy(obj)
                ELSE dpp_akm_dpp(obj.akm) /\ dpp_parse_cred_dpp(a, obj, now)
    IN IF obj.cred = "malformed" THEN [ok |-> FALSE, confs |-> a.confs, net |-> a.net]
       ELSE IF Len(a.confs) = DPP_MAX_CONF_OBJ THEN [ok |-> TRUE, confs |-> a.confs, net |-> a.net]
       ELSE [ok |-> good, confs |-> Append(a.confs, ConfObj(obj, good)),
             net |-> IF good /\ dpp_akm_dpp(obj.akm) THEN a.pk ELSE a.net]

(* A configurator makes a configuration for itself: it is its own peer, with a fresh key *)
dpp_configurator_own_config(conf, cmd, role, key, curve, now) ==
    LET c   == dpp_configuration_parse(cmd)
        a   == [conf |-> conf, sta |-> c.sta, ap |-> c.ap, pk |-> key, ppk |-> key, curve |-> curve,
                peer_version |-> 0, confs |-> <<>>, net |-> 0]
        obj == dpp_build_conf_obj(a, role)
    IN IF conf = None \/ obj = None THEN <<>> ELSE dpp_parse_conf_obj(a, obj, now).confs

-----------------------------------------------------------------------------
(* The introduction of two configured devices *)

dpp_compatible_netrole(r1, r2) == {r1, r2} = {"sta", "ap"}

dpp_connector_compatible_group(groups, id, role) ==
    \E g \in groups : (g[1] = "*" \/ id = "*" \/ g[1] = id) /\ dpp_compatible_netrole(g[2], role)

dpp_connector_match_groups(own, peer) ==
    \E g \in peer : dpp_connector_compatible_group(own, g[1], g[2])

dpp_derive_pmk(own, peer) == <<"DPP PMK", {own, peer}>>

(* Mutant: the two keys are hashed own key first. *)
dpp_derive_pmkid_OwnFirst(own, peer) == <<own, peer>>

dpp_derive_pmkid(own, peer) == IF own > peer THEN <<peer, own>> ELSE <<own, peer>>

(* A device d has a connector, the key of it, and the signing key it came with.
   Its own connector's expiry is not looked at *)
dpp_peer_intro(d, con, now) ==
    LET res  == dpp_process_signed_connector(con, d.csign)
        Fail(s) == [status |-> s, pmk |-> <<>>, pmkid |-> <<>>]
    IN IF res # "OK" THEN Fail(res)
       ELSE IF ~dpp_connector_match_groups(d.connector.groups, con.groups) THEN Fail("NO_MATCH")
       ELSE IF dpp_key_expired(con.expiry, now) \/ d.connector.curve # con.curve
       THEN Fail("INVALID_CONNECTOR")
       ELSE [status |-> "OK", pmk |-> dpp_derive_pmk(d.connector.key, con.key),
             pmkid |-> dpp_derive_pmkid(d.connector.key, con.key)]

=============================================================================
