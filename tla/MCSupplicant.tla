---------------------------- MODULE MCSupplicant ----------------------------
(***************************************************************************)
(* The exchanges by which a station gets or proves its credentials, one at  *)
(* a time as the supplicant runs them: a DPP exchange, TLS and the          *)
(* certificate chains it validates, EAP, and SAE.  `method` says which one  *)
(* a behaviour is about; the variables of the others are Off.               *)
(***************************************************************************)
EXTENDS Integers, Sequences, FiniteSets

VARIABLES
  method, cfg, sm, srv, now, faults,                          \* used by several
  given, table, ini, res, air, used, count, agreed,           \* DppExchange
  cli, c2s, s2c, altered, data, session,                      \* TlsHandshake
  g, req, resp, note,                                         \* EapPeer
  pwe, g_sae_data, ssid, bssid, drv, ap, toAp, toSta, late,   \* SaeAuth
  leaves, tries, confirmed, g_sae_token, expiry

Off == "off"
shared  == <<cfg, sm, srv, now, faults>>
dppVars == <<given, table, ini, res, air, used, count, agreed>>
tlsVars == <<cli, c2s, s2c, altered, data, session>>
eapVars == <<g, req, resp, note>>
saeVars == <<pwe, g_sae_data, g_sae_token, expiry, ssid, bssid, drv, ap, toAp, toSta, late, leaves, tries, confirmed>>
vars == <<method, shared, dppVars, tlsVars, eapVars, saeVars>>

-----------------------------------------------------------------------------
(* DPP: every pair of roles, one-sided and mutual, and what a user may scan. *)
Obj(sta, a, has) == [sta |-> sta, ap |-> a, has |-> has]

Cmd == [ expiring |-> <<Obj({"dpp"}, {}, {"ssid", "expiry"})>>,
         ver2     |-> <<Obj({}, {"psk", "sae", "dpp"}, {"ssid", "pass", "group"})>>,
         psk      |-> <<Obj({"psk"}, {}, {"ssid", "psk"})>>,
         both     |-> <<Obj({"psk", "dpp"}, {"psk"}, {"ssid", "psk"})>>,
         two      |-> <<Obj({"dpp"}, {}, {"ssid"}), Obj({"psk", "sae"}, {}, {"ssid", "pass"})>> ]

Roles == {{"C"}, {"E"}, {"C", "E"}}
DppSetups ==
    [ri : Roles, rr : Roles, mutual : {FALSE}, own : {FALSE}, cmd : {Cmd.psk, Cmd.expiring},
     curves : {<<"P-256", "P-256">>},
     uri : {<<<<"C", 0, FALSE>>, <<"K", 1, TRUE>>, <<"K", 2, FALSE>>>>}]
    \cup
    [ri : {{"C"}}, rr : {{"E"}}, mutual : BOOLEAN, own : {TRUE}, cmd : {Cmd.two, Cmd.ver2, Cmd.both},
     curves : {<<"P-384", "P-256">>}, uri : {<<<<"K", 1, TRUE>>>>}]
    \cup
    [ri : {{"C", "E"}}, rr : {{"C"}}, mutual : {TRUE}, own : {TRUE}, cmd : {Cmd.two},
     curves : {<<"P-256", "P-384">>}, uri : {<<<<"K", 1, TRUE>>>>, <<<<"M", 0, FALSE>>, <<"K", 1, TRUE>>>>}]

Con == INSTANCE DppConnector WITH DPP_MAX_CONF_OBJ <- 2
Own(sign, role, curve, group) ==
    Con!dpp_configurator_own_config([key |-> sign, curve |-> "P-256"],
        <<Obj(IF role = "sta" THEN {"dpp"} ELSE {}, IF role = "ap" THEN {"dpp"} ELSE {},
              {"ssid"} \cup group)>>, role, 105, curve, 0)[1]
DppNeighbours == {Own(9, "ap", "P-256", {}), Own(9, "sta", "P-256", {"group"}),
                  Own(8, "ap", "P-256", {}), Own(9, "ap", "P-384", {})}

Dpp == INSTANCE DppExchange WITH DPP_MAX_CONF_OBJ <- 2, Setups <- DppSetups,
         Neighbours <- DppNeighbours, MaxAuth <- 3, MaxScan <- 2, MaxAsk <- 1, MaxNow <- 2

(* The theorems of DppExchangeProofs apply to this instance. *)
ASSUME DppAssumption == Dpp!CommandsTyped /\ Dpp!NeighboursConfigured

-----------------------------------------------------------------------------
(* TLS: a root, an intermediate and end entities; configurations that differ *)
(* from a plain one in one or two settings.                                  *)
Cert(subject, issuer, key, signer, bc, plen, fresh) ==
  [subject |-> subject, issuer |-> issuer, key |-> key, signer |-> signer, alg |-> "sha256",
   dig |-> "sha256", v3 |-> TRUE, bc |-> bc, plen |-> plen,
   ku |-> IF bc = "ca" THEN "sign" ELSE "none", fresh |-> fresh]

Root   == Cert("root", "root", "kr", "kr", "ca", -1, TRUE)
Sub    == Cert("sub", "root", "ki", "kr", "ca", 0, TRUE)
Server == Cert("server", "sub", "ks", "ki", "leaf", -1, TRUE)
Client == Cert("client", "root", "kc", "kr", "leaf", -1, TRUE)
Old    == Cert("server", "sub", "ks", "ki", "leaf", -1, FALSE)
Forged == Cert("server", "root", "ks", "kx", "leaf", -1, TRUE)

Plain ==
  [cver |-> 12, sver |-> 12, canon |-> FALSE, sanon |-> FALSE,
   ctrusted |-> <<Root>>, strusted |-> <<Sub, Root>>, scert |-> <<Server>>, skey |-> "ks",
   ccert |-> <<>>, ckey |-> "", verify_peer |-> FALSE, ticket |-> "", pac |-> "", base |-> TRUE]

With(c, d) == [f \in DOMAIN c |-> IF f \in DOMAIN d THEN d[f] ELSE c[f]]

Changes ==
  {[cver |-> 10], [sver |-> 10], [cver |-> 11], [sver |-> 11],
   [canon |-> TRUE, sanon |-> TRUE], [canon |-> TRUE], [sanon |-> TRUE],
   [scert |-> <<Old>>], [scert |-> <<Forged>>], [skey |-> "kz"], [ctrusted |-> <<>>],
   [verify_peer |-> TRUE], [verify_peer |-> TRUE, ccert |-> <<Client>>, ckey |-> "kc"],
   [verify_peer |-> TRUE, ccert |-> <<Client>>], [verify_peer |-> TRUE, ccert |-> <<Client>>, ckey |-> "kz"],
   [verify_peer |-> TRUE, ccert |-> <<Forged>>, ckey |-> "ks"],
   [verify_peer |-> TRUE, strusted |-> <<>>, scert |-> <<Server>>, ctrusted |-> <<Root, Sub>>],
   [ticket |-> "p", pac |-> "p"], [ticket |-> "p"], [ticket |-> "p", pac |-> "q"]}

TlsConfigs ==
  {Plain} \cup {With(With(Plain, [base |-> FALSE]), d) : d \in Changes}
    \cup {With(With(With(Plain, [base |-> FALSE]), d), e) : d, e \in Changes}

Tls == INSTANCE TlsHandshake WITH Configs <- TlsConfigs, NSessions <- 2,
         AlterHello <- TRUE, ReuseFailed <- FALSE

(* Chains of up to three certificates in any order, true ones and false ones. *)
Certificates ==
  {Root, Sub, Server, Old, Forged,
   Cert("sub2", "sub", "k2", "ki", "ca", -1, TRUE),            \* below a path length of 0
   Cert("server", "sub2", "ks", "k2", "leaf", -1, TRUE),
   Cert("server", "client", "ks", "kc", "leaf", -1, TRUE),     \* issued by an end entity
   Client,
   [Sub EXCEPT !.ku = "other"], [Server EXCEPT !.dig = "sha1"], [Sub EXCEPT !.signer = "kx"]}
ChainConfigs ==
  [trusted : {<<>>, <<Root>>, <<Sub>>, <<Client, Root>>},
   chain : UNION {[1..n -> Certificates] : n \in 1..3}, notime : BOOLEAN]

Chains == INSTANCE X509Chain
-----------------------------------------------------------------------------
(* EAP: stations and servers that fit and that do not. *)
Pw(t, k) == [text |-> t, len |-> k]
Pac(k) == [type |-> "tunnel", aid |-> "aid", key |-> k]

Peer ==
  [user |-> TRUE, password |-> <<Pw("p", 1)>>, newpass |-> <<>>, key |-> FALSE, trust |-> TRUE,
   fast |-> TRUE, pacs |-> <<>>, prov |-> 0, maxpac |-> 1, binary |-> FALSE,
   methods |-> <<"PEAP">>, spass |-> "p", expired |-> FALSE, retry |-> FALSE,
   pver |-> 0, bind |-> TRUE, spacs |-> {"k1"}, anon |-> FALSE]

EapConfigs ==
  {Peer,
   [Peer EXCEPT !.bind = FALSE, !.methods = <<"TLS", "FAST", "PEAP">>],
   [Peer EXCEPT !.pver = 1],
   [Peer EXCEPT !.spass = "q"],
   [Peer EXCEPT !.spass = "q", !.retry = TRUE],
   [Peer EXCEPT !.trust = FALSE],
   [Peer EXCEPT !.key = TRUE, !.methods = <<"TTLS", "TLS">>, !.user = FALSE],
   [Peer EXCEPT !.methods = <<"TTLS">>],
   [Peer EXCEPT !.methods = <<"FAST">>, !.pacs = <<<<Pac("k1"), Pac("k2")>>>>],
   [Peer EXCEPT !.methods = <<"FAST">>, !.pacs = <<<<Pac("k2")>>>>, !.prov = 2],
   [Peer EXCEPT !.methods = <<"FAST">>, !.pacs = <<<<>>>>, !.prov = 3],
   [Peer EXCEPT !.methods = <<"FAST">>, !.pacs = <<<<>>>>, !.prov = 1, !.anon = TRUE],
   [Peer EXCEPT !.methods = <<"FAST">>, !.pacs = <<<<Pac("k1")>>>>, !.binary = TRUE]}

Eap == INSTANCE EapPeer WITH Configs <- EapConfigs, MaxFaults <- 2, MaxRetries <- 2,
         MaxSessions <- 2, IdMod <- 4

-----------------------------------------------------------------------------
(* SAE: one station, three access points and a cache of two entries; the    *)
(* curve over 7, integers mod 11.                                           *)
SaeHash(x) == [val |-> (x[1][1] + 2 * x[1][2] + 3 * x[2] + 5 * x[3] + x[4] * x[4]) % 9, odd |-> x[4] % 2]
Bounded(c, f, l, t) == [c EXCEPT !.faults = f, !.leaves = l, !.time = t]
Net == [group |-> 19, pw |-> 1, apGroups |-> {19}, apPw |-> 1, apId |-> 0, token |-> FALSE, skip |-> FALSE,
        faults |-> 0, leaves |-> 0, time |-> 0]
SaeConfigs ==
  {Bounded(Net, 1, 1, 2), Bounded(Net, 2, 0, 0), Bounded(Net, 0, 3, 1), Bounded([Net EXCEPT !.token = TRUE], 1, 0, 0),
   Bounded([Net EXCEPT !.group = 5, !.apGroups = {5, 19}], 1, 0, 0),
   Bounded([Net EXCEPT !.apPw = 2], 1, 0, 0), Bounded([Net EXCEPT !.apId = 1], 1, 0, 0),
   Bounded([Net EXCEPT !.skip = TRUE], 1, 1, 0), [Net EXCEPT !.apGroups = {5}]}

Sae == INSTANCE SaeAuth WITH Sta <- 4, Aps <- {2, 3, 7}, Hash <- SaeHash, Prime <- 7, CoefA <- 0,
         CoefB <- 2, FfcPrime <- 11, FfcOrder <- 5, SafePrime <- TRUE, Order <- 101, MaxLoops <- 3,
         StaDraws <- {<<2, 5>>, <<3, 8>>}, ApDraws <- {<<11, 23>>, <<50, 51>>},
         Configs <- SaeConfigs, MaxEntries <- 2, Lifetime <- 1, MaxTries <- 2
-----------------------------------------------------------------------------
DppOff == /\ given = Off /\ table = Off /\ ini = Off /\ res = Off
          /\ air = Off /\ used = Off /\ count = Off /\ agreed = Off
TlsOff == cli = Off /\ c2s = Off /\ s2c = Off /\ altered = Off /\ data = Off /\ session = Off
EapOff == g = Off /\ req = Off /\ resp = Off /\ note = Off
SaeOff == /\ pwe = Off /\ g_sae_data = Off /\ g_sae_token = Off /\ expiry = Off /\ ssid = Off /\ bssid = Off /\ drv = Off /\ ap = Off
          /\ toAp = Off /\ toSta = Off /\ late = Off /\ leaves = Off /\ tries = Off /\ confirmed = Off

Init ==
  \/ /\ method = "dpp" /\ Dpp!Init
     /\ cfg = Off /\ sm = Off /\ srv = Off /\ faults = Off
     /\ TlsOff /\ EapOff /\ SaeOff
  \/ /\ method = "tls" /\ Tls!Init
     /\ sm = Off /\ now = Off /\ faults = Off
     /\ DppOff /\ EapOff /\ SaeOff
  \/ /\ method = "chain" /\ cfg \in ChainConfigs
     /\ sm = Off /\ srv = Off /\ now = Off /\ faults = Off
     /\ DppOff /\ TlsOff /\ EapOff /\ SaeOff
  \/ /\ method = "eap" /\ Eap!Init
     /\ now = Off
     /\ DppOff /\ TlsOff /\ SaeOff
  \/ /\ method = "sae" /\ Sae!Init
     /\ srv = Off
     /\ DppOff /\ TlsOff /\ EapOff

Next ==
  /\ UNCHANGED method
  /\ \/ /\ method = "dpp" /\ Dpp!Next
        /\ UNCHANGED <<cfg, sm, srv, faults, tlsVars, eapVars, saeVars>>
     \/ /\ method = "tls" /\ Tls!Next
        /\ UNCHANGED <<sm, now, faults, dppVars, eapVars, saeVars>>
     \/ /\ method = "eap" /\ Eap!Next
        /\ UNCHANGED <<now, dppVars, tlsVars, saeVars>>
     \/ /\ method = "sae" /\ Sae!Next
        /\ UNCHANGED <<srv, dppVars, tlsVars, eapVars>>

Spec == Init /\ [][Next]_vars
-----------------------------------------------------------------------------
(* A DPP exchange agrees however its frames are repeated, reordered or left  *)
(* over: success means the same key and opposite roles (dpp_auth_success), a *)
(* connector kept certifies the device's own key (dpp_parse_conf_obj), what   *)
(* the configurator calls OK the enrollee can use, and two introduced        *)
(* devices agree on the PMK (dpp_peer_intro).                                *)
DppAgree == method = "dpp" => Dpp!DppAgree

(* A TLS connection called established has the same keys on both sides, an    *)
(* unaltered hello and an authenticated peer; compatible sides always get    *)
(* there, however the stream is cut (tlsv1_client.c, tlsv1_server.c); and no  *)
(* chain passes x509_certificate_chain_validate that the anchors did not     *)
(* certify.                                                                  *)
TlsAgree ==
  /\ method = "tls" => Tls!EstablishedAgree /\ Tls!PeerAuthenticated /\ Tls!CompatibleSucceed
  /\ method = "chain" =>
       (Chains!x509_certificate_chain_validate(cfg.trusted, cfg.chain, cfg.notime) = "OK" =>
          cfg.trusted = <<>> \/ Chains!Certified(cfg.trusted, cfg.chain, cfg.notime))

(* An EAP conversation that both sides hold for a success gives them the      *)
(* same key (eap_sm_process_request), and one between a station and a server *)
(* that fit ends so although frames are lost or repeated                     *)
(* (eap_peer_tls_reassemble_fragment, eap_peer_tls_process_helper).          *)
EapAgree == method = "eap" => Eap!KeysAgree /\ Eap!LossIsRepaired

(* A PMK in the station's cache is one its access point confirmed with the    *)
(* same password (sae.c); the cache keeps no freed or dangling entry          *)
(* (pmksa_cache.c); and after the last disturbance the station connects       *)
(* within two attempts (esp_wpa_main.c, esp_wpa3.c), unless a token outlived *)
(* the exchange it was for.                                                  *)
SaeAgree == method = "sae" => Sae!PmkShared /\ Sae!CacheSound /\ Sae!Reconnects
=============================================================================
