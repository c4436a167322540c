---------------------------- MODULE WpsMessages ----------------------------
(***************************************************************************)
(* What the two sides of WPS write into their messages and information     *)
(* elements, what the parser makes of it, and what the validators of the   *)
(* strict build (CONFIG_WPS_STRICT) demand.  A message is a sequence of    *)
(* attributes [a, len, val]; len is the length on the wire, val only what  *)
(* a validator or the receiver looks at.  Sets of flags stand for bit      *)
(* masks.  For a text, val says whether its last byte is NUL.              *)
(***************************************************************************)
EXTENDS Naturals, Sequences, FiniteSets, SequencesExt, TLC

CONSTANTS Configs   \* the configurations of the two devices

VARIABLES cfg,   \* the build and both devices' configuration
          reg,   \* the registrar: selected, pbc, setup lock, what overrides its id and methods
          sess   \* a session after M1: what the registrar took from it, and what M8 gave the enrollee

vars == <<cfg, reg, sess>>

None == "none"

-----------------------------------------------------------------------------
(* The flags of WPS_CONFIG_xxx; the WSC 2.0 values include the 1.0 bit. *)
VirtPushbutton == {"pushbutton", "virt_pb"}
PhyPushbutton == {"pushbutton", "phy_pb"}

T(a, len, val) == <<[a |-> a, len |-> len, val |-> val]>>

wps_build_version == T("version", 1, 16)
wps_build_msg_type(n) == T("msg_type", 1, n)

(* The Wi-Fi Alliance extension; its elements are attributes of the parsed   *)
(* message.                                                                  *)
wps_build_wfa_ext(enroll, macs) ==
    T("version2", 1, 32) \o (IF enroll THEN T("request_to_enroll", 1, 1) ELSE <<>>)
        \o (IF macs > 0 THEN T("authorized_macs", 6 * macs, None) ELSE <<>>)

Nonce(a) == T(a, 16, None)
wps_build_authenticator == T("authenticator", 8, None)

(* A text of the device; without CONFIG_WPS_STRICT an empty one is a space. *)
wps_build_text(a, len) ==
    T(a, IF len = 0 /\ ~cfg.strict THEN 1 ELSE len, FALSE)

wps_build_device_attrs ==
    wps_build_text("manufacturer", cfg.text) \o wps_build_text("model_name", cfg.text)
      \o wps_build_text("model_number", cfg.text) \o wps_build_text("serial_number", 0)
      \o T("primary_dev_type", 8, None) \o wps_build_text("dev_name", cfg.text)

wps_build_auth_type_flags == T("auth_type_flags", 2, {"open", "wpapsk", "wpa", "wpa2", "wpa2psk"})
wps_build_encr_type_flags == T("encr_type_flags", 2, {"none", "tkip", "aes"})
wps_build_conn_type_flags == T("conn_type_flags", 1, {"ess"})
wps_build_config_methods(m) == T("config_methods", 2, m)
wps_build_rf_bands == T("rf_bands", 1, cfg.rf)
wps_build_assoc_state == T("assoc_state", 2, 0)
wps_build_config_error(e) == T("config_error", 2, e)
wps_build_dev_password_id(id) == T("dev_password_id", 2, id)
wps_build_os_version == T("os_version", 4, None)
wps_build_public_key == T("public_key", 192, None)
wps_build_uuid(a) == T(a, 16, None)

(* The IV and the plain text padded to whole blocks of 16. *)
wps_build_encr_settings(plain) ==
    LET n == FoldSeq(LAMBDA t, acc : acc + 4 + t.len, 0, plain)
    IN T("encr_settings", 16 + n + (16 - (n % 16)), None)

wps_build_key_wrap_auth == T("key_wrap_auth", 8, None)

-----------------------------------------------------------------------------
(* Credentials.  A credential is [ssid, auth, encr, key, mac]; auth and encr *)
(* are sets with one flag, a key has a length and a last byte.               *)

Prefer(S, order) ==
    IF \E i \in DOMAIN order : order[i] \in S
    THEN {order[CHOOSE i \in DOMAIN order : order[i] \in S /\ \A j \in 1..(i - 1) : order[j] \notin S]}
    ELSE {}

PreferAuth(S) == Prefer(S, <<"wpa2psk", "wpapsk", "open", "shared">>)
PreferEncr(auth, S) ==
    IF auth \subseteq {"wpa2psk", "wpapsk"} THEN Prefer(S, <<"aes", "tkip">>) ELSE Prefer(S, <<"wep", "none">>)

TextKey(n) == [len |-> n, nul |-> FALSE]

wps_build_credential(c) ==
    T("network_idx", 1, 1) \o T("ssid", c.ssid, FALSE) \o T("auth_type", 2, c.auth)
      \o T("encr_type", 2, c.encr) \o T("network_key", c.key.len, c.key.nul) \o T("mac_addr", 6, c.mac)

(* wps_build_cred of an access point's registrar: the credentials it can     *)
(* build, none when no type is left.  Of a key the messages show its length: *)
(* a new one is 22 characters of base64; the PSK format puts a buffer of 64  *)
(* zeros, and a key of the station's own 64 bytes of a buffer never written. *)
wps_build_cred(s) ==
    LET a == PreferAuth(s.auth)
        e == PreferEncr(a, s.encr)
        key == CASE cfg.wps_state = 1 /\ cfg.auto_conf -> TextKey(22)
                 [] ~(cfg.wps_state = 1 /\ cfg.auto_conf) /\ s.use_psk_key /\ cfg.psk_set -> TextKey(64)
                 [] ~(cfg.wps_state = 1 /\ cfg.auto_conf) /\ ~(s.use_psk_key /\ cfg.psk_set) /\ cfg.key > 0 ->
                      TextKey(cfg.key)
                 [] OTHER -> IF a \subseteq {"wpapsk", "wpa2psk"} THEN TextKey(64) ELSE TextKey(0)
    IN IF a = {} \/ e = {} THEN {}
       ELSE {[ssid |-> cfg.ssid, auth |-> a, encr |-> e, key |-> key, mac |-> "e"]}

(* wps_build_ap_settings of an access point as enrollee. *)
ApSettings ==
    [ssid |-> cfg.ssid, auth |-> PreferAuth(cfg.auth), mac |-> "e", key |-> TextKey(cfg.key),
     encr |-> IF cfg.auth \cap {"wpa2psk", "wpapsk"} # {} THEN Prefer(cfg.encr, <<"aes", "tkip">>)
              ELSE Prefer(cfg.encr, <<"wep", "none">>)]

wps_build_ap_settings(c) ==
    T("ssid", c.ssid, FALSE) \o T("mac_addr", 6, c.mac) \o T("auth_type", 2, c.auth)
      \o T("encr_type", 2, c.encr) \o T("network_key", c.key.len, c.key.nul)

-----------------------------------------------------------------------------
(* The registrar's information elements *)

NoPushbutton(m) == m \ {"pushbutton", "virt_pb", "phy_pb"}

wps_set_pushbutton(m, conf) ==
    LET v == IF VirtPushbutton \subseteq conf THEN VirtPushbutton ELSE {}
        p == IF PhyPushbutton \subseteq conf THEN PhyPushbutton ELSE {}
    IN m \cup {"pushbutton"} \cup v \cup p \cup (IF v \cup p = {} THEN PhyPushbutton ELSE {})

SelectedMethods ==
    IF reg.pbc THEN wps_set_pushbutton(NoPushbutton(cfg.methods), cfg.methods) ELSE NoPushbutton(cfg.methods)

Selected ==
    IF ~reg.selected THEN <<>>
    ELSE T("selected_registrar", 1, 1)
           \o wps_build_dev_password_id(IF reg.pw_id # None THEN 4 ELSE IF reg.pbc THEN 4 ELSE 0)
           \o T("sel_reg_config_methods", 2, IF reg.methods # {None} THEN reg.methods ELSE SelectedMethods)

wps_build_ap_setup_locked == IF reg.locked = 1 THEN T("ap_setup_locked", 1, 1) ELSE <<>>

wps_build_probe_config_methods(m) == NoPushbutton(m)

wps_set_ie(probe) ==
    FlattenSeq(<<wps_build_version, T("wps_state", 1, cfg.wps_state), wps_build_ap_setup_locked, Selected,
           IF probe
           THEN T("response_type", 1, 3) \o wps_build_uuid("uuid_e") \o wps_build_device_attrs
                  \o T("config_methods", 2, wps_build_probe_config_methods(cfg.methods))
           ELSE IF reg.selected /\ (reg.pw_id # None \/ reg.pbc) /\ cfg.dualband
                THEN wps_build_uuid("uuid_e") ELSE <<>>,
           IF cfg.dualband THEN wps_build_rf_bands ELSE <<>>,
           wps_build_wfa_ext(FALSE, IF reg.selected THEN 1 ELSE 0)>>)

-----------------------------------------------------------------------------
(* The messages, outer part and encrypted part *)

wps_build_probe_req_ie ==
    FlattenSeq(<<wps_build_version, T("request_type", 1, 0), wps_build_config_methods(cfg.methods_e),
           wps_build_uuid("uuid_e"), T("primary_dev_type", 8, None), wps_build_rf_bands,
           wps_build_assoc_state, wps_build_config_error(0), wps_build_dev_password_id(cfg.dev_pw_id),
           wps_build_text("manufacturer", cfg.text), wps_build_text("model_name", cfg.text),
           wps_build_text("model_number", cfg.text), wps_build_text("dev_name", cfg.text),
           wps_build_wfa_ext(TRUE, 0)>>)

wps_build_assoc_req_ie == wps_build_version \o T("request_type", 1, 0) \o wps_build_wfa_ext(FALSE, 0)
wps_build_assoc_resp_ie == wps_build_version \o T("response_type", 1, 3) \o wps_build_wfa_ext(FALSE, 0)

wps_build_m1 ==
    FlattenSeq(<<wps_build_version, wps_build_msg_type(4), wps_build_uuid("uuid_e"), T("mac_addr", 6, "e"),
           Nonce("enrollee_nonce"), wps_build_public_key, wps_build_auth_type_flags,
           wps_build_encr_type_flags, wps_build_conn_type_flags,
           wps_build_config_methods(IF cfg.ap /\ "display" \in cfg.methods_e
                                    THEN NoPushbutton(cfg.methods_e) ELSE cfg.methods_e),
           T("wps_state", 1, IF cfg.ap THEN cfg.wps_state ELSE 1), wps_build_device_attrs, wps_build_rf_bands,
           wps_build_assoc_state, wps_build_dev_password_id(cfg.dev_pw_id), wps_build_config_error(0),
           wps_build_os_version, wps_build_wfa_ext(FALSE, 0)>>)

(* What M2 and M2D share. *)
M2Common(n, key, err, id) ==
    FlattenSeq(<<wps_build_version, wps_build_msg_type(n), Nonce("enrollee_nonce"), Nonce("registrar_nonce"),
           wps_build_uuid("uuid_r"), key, wps_build_auth_type_flags, wps_build_encr_type_flags,
           wps_build_conn_type_flags, wps_build_config_methods(cfg.methods), wps_build_device_attrs,
           wps_build_rf_bands, wps_build_assoc_state, wps_build_config_error(err), id,
           wps_build_os_version, wps_build_wfa_ext(FALSE, 0)>>)

wps_build_m2 == M2Common(5, wps_build_public_key, 0, wps_build_dev_password_id(cfg.dev_pw_id))
                  \o wps_build_authenticator
wps_build_m2d == M2Common(6, <<>>, IF ~cfg.ap /\ reg.locked # 0 THEN 15 ELSE 0, <<>>)

Step(n, nonce, hashes, plain) ==
    FlattenSeq(<<wps_build_version, wps_build_msg_type(n), Nonce(nonce), hashes,
           IF plain = <<>> THEN <<>> ELSE wps_build_encr_settings(plain),
           wps_build_wfa_ext(FALSE, 0), wps_build_authenticator>>)

Plain(k) ==
    CASE k = "m4" -> Nonce("r_snonce1") \o wps_build_key_wrap_auth
      [] k = "m5" -> Nonce("e_snonce1") \o wps_build_key_wrap_auth
      [] k = "m6" -> Nonce("r_snonce2") \o wps_build_key_wrap_auth
      [] k = "m7" -> Nonce("e_snonce2") \o (IF cfg.ap THEN wps_build_ap_settings(ApSettings) ELSE <<>>)
                       \o wps_build_key_wrap_auth

(* M8 carries a Credential, or plain settings from a registrar that is no    *)
(* access point; those are the enrollee's own of M7.                         *)
wps_build_m8(c) ==
    (IF cfg.ap THEN wps_build_credential(c) ELSE T("cred", 100, wps_build_credential(c)))
       \o wps_build_key_wrap_auth

Hash2(a, b) == T(a, 32, None) \o T(b, 32, None)
Build(k) ==
    CASE k = "m3" -> Step(7, "registrar_nonce", Hash2("e_hash1", "e_hash2"), <<>>)
      [] k = "m4" -> Step(8, "enrollee_nonce", Hash2("r_hash1", "r_hash2"), Plain("m4"))
      [] k = "m5" -> Step(9, "registrar_nonce", <<>>, Plain("m5"))
      [] k = "m6" -> Step(10, "enrollee_nonce", <<>>, Plain("m6"))
      [] k = "m7" -> Step(11, "registrar_nonce", <<>>, Plain("m7"))
      [] k = "m8" -> Step(12, "enrollee_nonce", <<>>, wps_build_m8(ApSettings))

wps_build_wsc(k) ==
    FlattenSeq(<<wps_build_version, wps_build_msg_type(IF k = "ack" THEN 13 ELSE IF k = "nack" THEN 14 ELSE 15),
           Nonce("enrollee_nonce"), Nonce("registrar_nonce"),
           IF k = "nack" THEN wps_build_config_error(cfg.err) ELSE <<>>, wps_build_wfa_ext(FALSE, 0)>>)

-----------------------------------------------------------------------------
(* wps_parse_msg: an attribute of a wrong length makes the whole message     *)
(* unreadable; of two equal attributes the later one counts.                 *)
FixedLen ==
    LET L(n, S) == [a \in S |-> n]
    IN L(1, {"version", "msg_type", "conn_type_flags", "rf_bands", "wps_state", "selected_registrar",
             "request_type", "response_type", "ap_setup_locked", "network_idx", "version2",
             "request_to_enroll"})
       @@ L(2, {"auth_type_flags", "encr_type_flags", "config_methods", "sel_reg_config_methods",
                "assoc_state", "config_error", "dev_password_id", "auth_type", "encr_type"})
       @@ L(4, {"os_version"}) @@ L(6, {"mac_addr"})
       @@ L(8, {"primary_dev_type", "authenticator", "key_wrap_auth"})
       @@ L(16, {"enrollee_nonce", "registrar_nonce", "uuid_e", "uuid_r", "r_snonce1", "r_snonce2",
                 "e_snonce1", "e_snonce2"})
       @@ L(32, {"r_hash1", "r_hash2", "e_hash1", "e_hash2"})

Readable(m) == \A i \in DOMAIN m : m[i].a \in DOMAIN FixedLen => m[i].len = FixedLen[m[i].a]

wps_parse_msg(m) ==
    LET names == {m[i].a : i \in DOMAIN m}
        last(a) == CHOOSE i \in DOMAIN m : m[i].a = a /\ \A j \in DOMAIN m : m[j].a = a => j <= i
    IN [a \in names |-> m[last(a)]]

-----------------------------------------------------------------------------
(* The validators.  sel: the sender is the selected registrar; ap: the flag  *)
(* the receiver passes to wps_validate_m7_encr and wps_validate_m8_encr.     *)

ValidVersion(a, v) ==
    /\ a = "version" => v = 16
    /\ a = "version2" => v >= 32
    /\ a \in {"request_type", "response_type"} => v <= 3

ValidMethods(m) ==   \* valid_config_methods for WSC 2.0
    /\ "display" \in m => m \cap {"virt_display", "phy_display"} # {}
    /\ "pushbutton" \in m => m \cap {"virt_pb", "phy_pb"} # {}

ValidStatus(a, v) ==
    /\ a = "rf_bands" => v \in 1..3
    /\ a = "assoc_state" => v <= 4
    /\ a = "config_error" => v <= 18
    /\ a = "dev_password_id" => v \notin 6..15

Texts == {"manufacturer", "model_name", "model_number", "serial_number", "dev_name"}
ValidText(a, n, v) == a \in Texts => n = 0 \/ ~v

ValidElement(a, n, v) ==
    /\ a \in {"request_to_enroll", "ap_setup_locked", "selected_registrar"} => v <= 1
    /\ a = "wps_state" => v \in 1..2
    /\ a = "sel_reg_config_methods" => ValidMethods(v)
    /\ a = "authorized_macs" => n <= 30 \/ n % 6 = 0

ValidSession(a, n, v) ==
    /\ a = "msg_type" => v \in 1..15
    /\ a = "mac_addr" => v # "group"
    /\ a = "public_key" => n = 192

OneType(v, both) == v # {} /\ (Cardinality(v) = 1 \/ v = both)
ValidTypes(a, v) ==
    /\ a = "auth_type_flags" => "wpa2psk" \in v
    /\ a = "encr_type_flags" => "aes" \in v
    /\ a = "auth_type" => OneType(v, {"wpapsk", "wpa2psk"})
    /\ a = "encr_type" => OneType(v, {"tkip", "aes"})
    /\ a = "conn_type_flags" => v \subseteq {"ess", "ibss"} /\ "ess" \in v

(* Of the hashes, nonces and keys only the length of the settings is looked  *)
(* at; the parser has checked the others.                                    *)
ValidSecret(a, n) == a = "encr_settings" => n >= 16

ValidNetwork(p, a, n, v) ==
    /\ a = "ssid" => n > 0 /\ ~v
    /\ a = "network_key" =>
         /\ ~(("encr_type" \in DOMAIN p => p["encr_type"].val # {"wep"}) /\ n \in 9..63 /\ v)
         /\ n <= 64

(* What the validator of one attribute demands of a value that is there. *)
ValidAttr(p, a, probe_resp) ==
    LET v == p[a].val
        n == p[a].len
    IN /\ ValidVersion(a, v) /\ ValidStatus(a, v) /\ ValidText(a, n, v) /\ ValidElement(a, n, v)
       /\ ValidSession(a, n, v) /\ ValidTypes(a, v) /\ ValidSecret(a, n) /\ ValidNetwork(p, a, n, v)
       /\ a = "config_methods" => ValidMethods(v) /\ (probe_resp => "pushbutton" \notin v)

(* The attributes a message must have. *)
Device == Texts \cup {"primary_dev_type"}
Common == {"auth_type_flags", "encr_type_flags", "conn_type_flags", "rf_bands", "assoc_state",
           "config_error", "config_methods", "os_version"} \cup Device
Typed == {"version", "msg_type"}
Network == {"ssid", "auth_type", "encr_type", "mac_addr"}

BeaconNeeds(k, sel) ==
    {"version", "wps_state"} \cup (IF sel THEN {"dev_password_id", "sel_reg_config_methods"} ELSE {})
       \cup (IF k = "probe_resp" THEN {"response_type", "uuid_e", "config_methods"} \cup Device ELSE {})

RequestNeeds(k) ==
    CASE k = "probe_req" -> {"version", "request_type", "config_methods", "primary_dev_type", "dev_password_id",
                             "manufacturer", "model_name", "model_number", "dev_name",
                             "rf_bands", "assoc_state", "config_error"}
      [] k = "assoc_req" -> {"version", "request_type"}
      [] k = "assoc_resp" -> {"version", "response_type"}

M1Needs == Typed \cup Common \cup {"uuid_e", "mac_addr", "enrollee_nonce", "public_key", "wps_state",
                                   "dev_password_id"}
M2Needs(k) == Typed \cup Common \cup {"enrollee_nonce", "registrar_nonce", "uuid_r"}
                \cup (IF k = "m2" THEN {"public_key", "dev_password_id", "authenticator"} ELSE {})

HashNeeds(k) ==
    Typed \cup (IF k = "m3" THEN {"registrar_nonce", "e_hash1", "e_hash2", "authenticator"}
                ELSE {"enrollee_nonce", "r_hash1", "r_hash2", "encr_settings", "authenticator"})

SecretNeeds(k) ==
    Typed \cup {"encr_settings", "authenticator",
                IF k \in {"m5", "m7"} THEN "registrar_nonce" ELSE "enrollee_nonce"}

SnonceNeeds(k) ==
    {"key_wrap_auth", CASE k = "m4_encr" -> "r_snonce1" [] k = "m5_encr" -> "e_snonce1" [] k = "m6_encr" -> "r_snonce2"}

SettingsNeeds(k, ap) ==
    {"key_wrap_auth"}
       \cup (IF k = "m7_encr" THEN {"e_snonce2"} \cup (IF ap THEN {} ELSE Network \cup {"network_key"})
             ELSE IF ap THEN Network ELSE {"cred"})

CredNeeds == {"network_idx", "network_key"} \cup Network

WscNeeds(k) ==
    Typed \cup {"enrollee_nonce", "registrar_nonce"} \cup (IF k = "nack" THEN {"config_error"} ELSE {})

Mandatory(k, sel, ap) ==
    CASE k \in {"beacon", "probe_resp"} -> BeaconNeeds(k, sel)
      [] k \in {"probe_req", "assoc_req", "assoc_resp"} -> RequestNeeds(k)
      [] k = "m1" -> M1Needs
      [] k \in {"m2", "m2d"} -> M2Needs(k)
      [] k \in {"m3", "m4"} -> HashNeeds(k)
      [] k \in {"m5", "m6", "m7", "m8"} -> SecretNeeds(k)
      [] k \in {"m4_encr", "m5_encr", "m6_encr"} -> SnonceNeeds(k)
      [] k \in {"m7_encr", "m8_encr"} -> SettingsNeeds(k, ap)
      [] k = "cred" -> CredNeeds
      [] k \in {"ack", "nack", "done"} -> WscNeeds(k)

Validate(k, m, ap) ==
    /\ Readable(m)
    /\ LET p == wps_parse_msg(m)
           sel == "selected_registrar" \in DOMAIN p /\ p["selected_registrar"].val = 1
       IN /\ Mandatory(k, sel, ap) \subseteq DOMAIN p
          /\ k = "probe_req" => {"uuid_e", "uuid_r"} \cap DOMAIN p # {}
          /\ \A a \in DOMAIN p : ValidAttr(p, a, k = "probe_resp")

(* Without CONFIG_WPS_STRICT the validators are empty. *)
Accepts(k, m, ap) ==
    IF ~cfg.strict THEN Readable(m)
    ELSE /\ Validate(k, m, ap)
         /\ \A i \in DOMAIN m : m[i].a = "cred" => Validate("cred", m[i].val, ap)

-----------------------------------------------------------------------------
(* What the receivers take from M1 and M8 *)

(* wps_process_m1: types both sides have; without any the workarounds of the *)
(* normal build take the access point's.                                     *)
Negotiate(own, flags) == IF own \cap flags # {} \/ cfg.strict THEN own \cap flags ELSE own

wps_process_m1 ==
    /\ sess = [st |-> None] /\ Accepts("m1", wps_build_m1, FALSE)
    /\ LET p == wps_parse_msg(wps_build_m1)
           a == Negotiate(cfg.auth, p["auth_type_flags"].val)
           e == Negotiate(cfg.encr, p["encr_type_flags"].val)
       IN sess' = IF a = {} \/ e = {} THEN [st |-> "refused"]
                  ELSE [st |-> "m1", auth |-> a, encr |-> e,
                        use_psk_key |-> "display" \notin p["config_methods"].val]
    /\ UNCHANGED <<cfg, reg>>

(* Mutant: a key that fills its buffer is not copied. *)
wps_process_cred_ShortBuffer(m) ==
    LET p == wps_parse_msg(m)
        k == IF p["network_key"].len < 64
             THEN [len |-> p["network_key"].len, nul |-> p["network_key"].val] ELSE TextKey(0)
        drop == p["auth_type"].val \cap {"wpapsk", "wpa2psk"} # {} /\ k.nul /\ k.len \in 9..63
    IN IF drop /\ cfg.strict THEN {}
       ELSE {[ssid |-> IF p["ssid"].len <= 32 THEN p["ssid"].len ELSE 0,
              auth |-> p["auth_type"].val, encr |-> p["encr_type"].val,
              key |-> IF drop THEN TextKey(k.len - 1) ELSE k, mac |-> p["mac_addr"].val]}

(* wps_process_cred: a text too long for its buffer is left out; one NUL at  *)
(* the end of a passphrase is dropped in the normal build.                   *)
wps_process_cred(m) ==
    LET p == wps_parse_msg(m)
        k == IF p["network_key"].len <= 64
             THEN [len |-> p["network_key"].len, nul |-> p["network_key"].val] ELSE TextKey(0)
        drop == p["auth_type"].val \cap {"wpapsk", "wpa2psk"} # {} /\ k.nul /\ k.len \in 9..63
    IN IF drop /\ cfg.strict THEN {}
       ELSE {[ssid |-> IF p["ssid"].len <= 32 THEN p["ssid"].len ELSE 0,
              auth |-> p["auth_type"].val, encr |-> p["encr_type"].val,
              key |-> IF drop THEN TextKey(k.len - 1) ELSE k, mac |-> p["mac_addr"].val]}

(* wps_process_cred_e: a network with WEP only is refused. *)
wps_process_cred_e(m) ==
    {c \in wps_process_cred(m) : c.encr \cap {"none", "tkip", "aes"} # {}}

(* M8 of an access point's registrar at a station: the credential is built,  *)
(* accepted, processed and saved.                                            *)
wps_process_m8 ==
    /\ sess.st = "m1" /\ ~cfg.ap
    /\ sess' = IF \E c \in wps_build_cred(sess) :
                     /\ Accepts("m8_encr", wps_build_m8(c), FALSE)
                     /\ wps_process_cred_e(wps_build_credential(c)) # {}
               THEN LET c == CHOOSE c \in wps_build_cred(sess) : TRUE
                    IN [st |-> "done", sent |-> c,
                        got |-> CHOOSE g \in wps_process_cred_e(wps_build_credential(c)) : TRUE]
               ELSE [st |-> "refused"]
    /\ UNCHANGED <<cfg, reg>>

-----------------------------------------------------------------------------
(* The registrar's state that its elements show *)

wps_registrar_selected_registrar_changed(r) ==
    [r EXCEPT !.pw_id = IF r.selected /\ r.pbc THEN "pbc" ELSE None,
              !.methods = IF ~r.selected THEN {None}
                          ELSE IF r.pbc THEN wps_set_pushbutton(NoPushbutton(cfg.methods), cfg.methods)
                          ELSE NoPushbutton(cfg.methods)]

Select(pbc) ==
    /\ reg' = wps_registrar_selected_registrar_changed([reg EXCEPT !.selected = TRUE, !.pbc = pbc])
    /\ UNCHANGED <<cfg, sess>>

Deselect ==
    /\ reg.selected
    /\ reg' = wps_registrar_selected_registrar_changed([reg EXCEPT !.selected = FALSE, !.pbc = FALSE])
    /\ UNCHANGED <<cfg, sess>>

(* ap_setup_locked: 1 when locked, 2 when external registrars are refused    *)
(* without saying so.                                                        *)
SetupLock(n) ==
    /\ reg.locked # n /\ reg' = [reg EXCEPT !.locked = n]
    /\ UNCHANGED <<cfg, sess>>

Init ==
    /\ cfg \in Configs
    /\ reg = [selected |-> FALSE, pbc |-> FALSE, locked |-> 0, pw_id |-> None, methods |-> {None}]
    /\ sess = [st |-> None]

Next ==
    \/ \E pbc \in BOOLEAN : Select(pbc)
    \/ Deselect
    \/ \E n \in 0..2 : SetupLock(n)
    \/ wps_process_m1
    \/ wps_process_m8

Spec == Init /\ [][Next]_vars

-----------------------------------------------------------------------------
(* Whatever the configuration and the registrar's state, each message and    *)
(* element that one side builds is one the other side's parser reads and its *)
(* strict validator accepts.                                                 *)
BuiltIsAccepted ==
    /\ ~cfg.ap => /\ Accepts("beacon", wps_set_ie(FALSE), FALSE)
                  /\ Accepts("probe_resp", wps_set_ie(TRUE), FALSE)
                  /\ \A c \in IF sess.st = "m1" THEN wps_build_cred(sess) ELSE {} :
                        Accepts("m8_encr", wps_build_m8(c), FALSE)
    /\ cfg.ap => Accepts("m8_encr", wps_build_m8(ApSettings), TRUE)
    /\ Accepts("probe_req", wps_build_probe_req_ie, FALSE)
    /\ Accepts("assoc_req", wps_build_assoc_req_ie, FALSE)
    /\ Accepts("assoc_resp", wps_build_assoc_resp_ie, FALSE)
    /\ Accepts("m1", wps_build_m1, FALSE)
    /\ Accepts("m2", wps_build_m2, FALSE)
    /\ Accepts("m2d", wps_build_m2d, FALSE)
    /\ \A k \in {"m3", "m4", "m5", "m6", "m7", "m8"} : Accepts(k, Build(k), FALSE)
    /\ \A k \in {"m4", "m5", "m6", "m7"} : Accepts(k \o "_encr", Plain(k), ~cfg.ap)
    /\ \A k \in {"ack", "nack", "done"} : Accepts(k, wps_build_wsc(k), FALSE)

(* A credential that the enrollee saves is the one the registrar built, with *)
(* types the network has, and a WPA network always has a key of 8 to 64.     *)
CredentialDelivered ==
    sess.st = "done" =>
       /\ sess.got = sess.sent
       /\ sess.got.auth \subseteq cfg.auth /\ sess.got.encr \subseteq cfg.encr
       /\ sess.got.auth \subseteq {"wpapsk", "wpa2psk"} => sess.got.key.len \in 8..64
=============================================================================
