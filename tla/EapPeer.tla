------------------------------ MODULE EapPeer ------------------------------
(***************************************************************************)
(* The WPA2-Enterprise supplicant: the EAP state machine of esp_wpa2.c and  *)
(* eap.c, the TLS transport of eap_tls_common.c and the methods EAP-TLS,    *)
(* PEAP, TTLS and FAST with MSCHAPv2 inside (common/wpa_supplicant/src/     *)
(* esp_supplicant, eap_peer), against an authentication server that keeps   *)
(* to the protocols, over a link that loses frames.                         *)
(*                                                                          *)
(* The wpa2 task handles a frame while the task that posted it waits for    *)
(* s_wifi_wpa2_sync_sem, so receiving a frame is one step.  TLS is its      *)
(* flights (TlsHandshake models the engine); a TLS message is a sequence of *)
(* units, one fragment carries FragLimit units.  Keys, responses and MACs   *)
(* are the tuples of what they are computed from.  The methodState and the  *)
(* decision a method reports are left out: eap_sm_process_request does not  *)
(* read them.                                                               *)
(***************************************************************************)
EXTENDS Integers, Sequences, FiniteSets, SequencesExt

CONSTANTS
  Configs,       \* what the two sides are set up with
  MaxFaults,     \* bound: frames lost, sends failed, early retransmissions
  MaxRetries,    \* how often the server repeats a request before it gives up
  MaxSessions,   \* bound: conversations
  IdMod          \* EAP identifiers are taken modulo this number (256)

(***************************************************************************)
(* A configuration.  Of the station: user (is a user name set, beside the outer identity?), password,  *)
(* newpass (a sequence of at most one), each a record of a text and a       *)
(* length; key (certificate and private key); trust (does the CA it has     *)
(* cover the server?); fast (is EAP-FAST built in?), pacs (the PAC file),   *)
(* prov, maxpac, binary (the EAP-FAST phase 1 parameters).  Of the server:  *)
(* methods in its order of preference; spass, expired, retry (R=1 in        *)
(* a failure); pver, bind (PEAP version, does it send a crypto binding?);   *)
(* spacs (PAC keys it knows), anon (does it provision without a             *)
(* certificate?).                                                           *)
(***************************************************************************)
VARIABLES
  cfg,
  g,         \* the g_wpa_ globals: password, password_len, new_password, new_password_len;
             \* and config_methods, the static pointer of eap_peer_config_init
  sm,        \* gEapSm
  srv,       \* the authentication server
  req,       \* the frame on its way to the station: a sequence of at most one
  resp,      \* the responses on their way to the server
  faults,
  note       \* of this conversation: the ways it was disturbed

vars == <<cfg, g, sm, srv, req, resp, faults, note>>

None == <<>>
FragLimit == 1

\* F(e), with e evaluated once.
Evaluated(e, F(_)) == CHOOSE z \in {F(y) : y \in {e}} : z = z

\* TLS message `name` of k units that belongs to the handshake with randoms rnd.
Units(name, rnd, k) == [i \in 1 .. k |-> <<name, rnd, i>>]
Whole(msg, name, k) == Len(msg) = k /\ \A i \in 1 .. k :
  msg[i][1] = name /\ msg[i][3] = i /\ msg[i][2] = msg[1][2]
\* An application data record of k units under the keys of rnd.
App(rnd, plain, k) == [i \in 1 .. k |-> <<"app", rnd, i, plain>>]

-----------------------------------------------------------------------------
(***************************************************************************)
(* eap_tls_common.c: a connection `ssl` has left and in (what is still to   *)
(* come of a fragmented message and what has), out and pos (the message     *)
(* going out and how much of it has gone), step, rnd, est, failed, adh (TLS).*)
(***************************************************************************)
eap_peer_tls_ssl_init ==
  [left |-> 0, in |-> <<>>, out |-> <<>>, pos |-> 0,
   step |-> 0, rnd |-> <<>>, est |-> FALSE, failed |-> FALSE, adh |-> FALSE]

eap_peer_tls_reset_input(ssl) == [ssl EXCEPT !.left = 0, !.in = <<>>]
eap_peer_tls_reset_output(ssl) == [ssl EXCEPT !.pos = 0, !.out = <<>>]

\* A request or a response: flags, the length field, and the units it carries.
Frame(id, type, flags, ver, len, pay) ==
  [id |-> id, type |-> type, flags |-> flags, ver |-> ver, len |-> len, pay |-> pay]

eap_peer_tls_build_ack(id, type, ver) == Frame(id, type, {}, ver, 0, <<>>)

\* The length field is taken only when no message is being put together.
eap_peer_tls_process_init(ssl, q) ==
  IF "L" \in q.flags /\ ssl.left = 0 THEN [ssl EXCEPT !.left = q.len, !.in = <<>>] ELSE ssl

eap_peer_tls_reassemble_fragment(ssl, pay) ==
  IF Len(ssl.in) + Len(pay) = 0 \/ Len(pay) > ssl.left
  THEN [res |-> "err", ssl |-> eap_peer_tls_reset_input(ssl)]
  ELSE LET n == [ssl EXCEPT !.in = @ \o pay, !.left = @ - Len(pay)]
       IN  [res |-> IF n.left > 0 THEN "more" ELSE "msg", ssl |-> n]

eap_peer_tls_data_reassemble(ssl, pay) ==
  IF ssl.left > Len(pay) \/ ssl.in # <<>>
  THEN eap_peer_tls_reassemble_fragment(ssl, pay)
  ELSE [res |-> "msg", ssl |-> [ssl EXCEPT !.left = 0, !.in = pay]]

\* The TLS client: the flight that answers the message msg.  cert: a client
\* certificate goes with it; pac: the opaque PAC in the ClientHello; anon: may
\* the server do without a certificate?  A message out of turn is a failure.
tls_connection_handshake(ssl, msg, inst, trust, cert, pac, anon) ==
  LET fail == [ssl EXCEPT !.failed = TRUE, !.out = Units("alert", <<inst, 0>>, 1)]
      next(name, k) == [ssl EXCEPT !.step = @ + 1, !.rnd = msg[1][2], !.out = Units(name, msg[1][2], k)]
  IN  IF ssl.failed THEN fail
      ELSE IF ssl.step = 0
      THEN [ssl EXCEPT !.step = 1, !.out = <<<<"hello", <<inst, 0>>, 1, pac>>>>]
      ELSE IF ssl.step = 1 /\ Whole(msg, "server1", 2) /\ trust
      THEN next("client2", IF cert THEN 2 ELSE 1)
      ELSE IF ssl.step = 1 /\ Whole(msg, "anon1", 1) /\ anon
      THEN [next("client2", 1) EXCEPT !.adh = TRUE]
      ELSE IF ssl.step = 1 /\ Whole(msg, "resume", 1) /\ pac # None
      THEN [next("client2", 1) EXCEPT !.est = TRUE]
      ELSE IF ssl.step = 2 /\ Whole(msg, "server3", 1) /\ msg[1][2] = ssl.rnd
      THEN [ssl EXCEPT !.step = 3, !.est = TRUE, !.out = <<>>]
      ELSE fail

\* The next fragment of the message going out.
eap_tls_process_output(ssl, type, ver, id) ==
  LET left == Len(ssl.out) - ssl.pos
      more == left > FragLimit
      len  == IF more THEN FragLimit ELSE left
      inc  == ssl.pos = 0 /\ (Len(ssl.out) > FragLimit \/ (type = "PEAP" /\ ver = 0 /\ ~ssl.est))
  IN  [ssl  |-> IF more THEN [ssl EXCEPT !.pos = @ + len] ELSE eap_peer_tls_reset_output(ssl),
       resp |-> <<Frame(id, type, (IF more THEN {"M"} ELSE {}) \cup (IF inc THEN {"L"} ELSE {}),
                        ver, IF inc THEN Len(ssl.out) ELSE 0,
                        SubSeq(ssl.out, ssl.pos + 1, ssl.pos + len))>>]

\* What is there to process: the rest of a message going out, or what pay completes.
eap_tls_process_input(ssl, pay) ==
  IF ssl.out # <<>> THEN [res |-> IF pay # <<>> THEN "err" ELSE "frag", ssl |-> ssl]
  ELSE eap_peer_tls_data_reassemble(ssl, pay)

\* The result is "err", "ack" (1 in the code) or "ok", and the response if there is one;
\* r is the state and the result of the input.
TlsReply(r, type, ver, id) ==
  IF r.res = "more" \/ (r.res # "err" /\ r.ssl.out = <<>>) THEN [res |-> "ack", ssl |-> r.ssl, resp |-> None]
  ELSE IF r.res = "err" THEN [res |-> "err", ssl |-> r.ssl, resp |-> None]
  ELSE LET o == eap_tls_process_output(r.ssl, type, ver, id)
       IN  [res |-> IF r.ssl.failed THEN "err" ELSE "ok", ssl |-> o.ssl, resp |-> o.resp]

\* H(ssl, msg) is the TLS engine with the other arguments given.
eap_peer_tls_process_helper(ssl, type, ver, id, pay, H(_, _)) ==
  Evaluated(eap_tls_process_input(ssl, pay), LAMBDA r :
    TlsReply(IF r.res = "msg" THEN [r EXCEPT !.ssl = eap_peer_tls_reset_input(H(r.ssl, r.ssl.in))] ELSE r,
             type, ver, id))

\* A plaintext goes out encrypted; without one the next fragment goes out.
eap_peer_tls_encrypt(ssl, type, ver, id, plain) ==
  LET s == IF plain = None THEN ssl ELSE [ssl EXCEPT !.pos = 0, !.out = App(ssl.rnd, plain[1], 1)]
  IN  IF s.out = <<>> THEN [ssl |-> s, resp |-> None] ELSE eap_tls_process_output(s, type, ver, id)

\* The plaintext of a complete record, None when it cannot be decrypted.
eap_peer_tls_decrypt(ssl, pay) ==
  LET r == eap_peer_tls_data_reassemble(ssl, pay)
      m == r.ssl.in
      ok == r.res = "msg" /\ m # <<>> /\ Whole(m, "app", Len(m)) /\ m[1][2] = ssl.rnd
  IN  [res |-> IF r.res = "more" THEN "ack" ELSE IF ok THEN "ok" ELSE "err",
       ssl |-> IF r.res = "more" THEN r.ssl ELSE eap_peer_tls_reset_input(r.ssl),
       plain |-> IF ok THEN <<m[1][4]>> ELSE None]

eap_peer_tls_derive_key(ssl, label) == <<label, ssl.rnd>>

-----------------------------------------------------------------------------
(***************************************************************************)
(* eap_mschapv2.c, mschapv2.c: the inner method `in`, with conf the         *)
(* configuration of the state machine.  Inner messages are [t, v].          *)
(***************************************************************************)
Msg(t, v) == [t |-> t, v |-> v]

NtResponse(pw, challenge, peer) == <<pw, challenge, peer>>
MasterKey(nt) == <<"isk", nt>>
AuthResponse(nt) == <<"S=", nt>>

\* kb: the challenges of the key block when EAP-FAST provisions without authentication.
eap_mschapv2_init(kb) ==
  [kb |-> kb, prev_error |-> 0, version |-> 0, change |-> None, auth |-> None, key |-> None,
   success |-> FALSE, prev |-> None]

eap_mschapv2_challenge_reply(in, conf, challenge, rnd) ==
  LET nt == IF in.kb = None THEN NtResponse(conf.password, challenge, rnd)
            ELSE NtResponse(conf.password, in.kb, in.kb)
  IN  [out |-> <<Msg("response", nt)>>, in |-> [in EXCEPT !.auth = <<AuthResponse(nt)>>, !.key = <<MasterKey(nt)>>]]

HasCredentials(conf) == cfg.user /\ conf.password # "none"

eap_mschapv2_challenge(in, conf, q, rnd) ==
  IF ~HasCredentials(conf) THEN [out |-> None, in |-> in]
  ELSE eap_mschapv2_challenge_reply(in, conf, IF in.change # None THEN in.change[1] ELSE q.v, rnd)

eap_mschapv2_password_changed(conf) ==
  IF conf.newpass = None THEN conf ELSE [conf EXCEPT !.password = conf.newpass[1], !.newpass = None]

eap_mschapv2_success(in, conf, q) ==
  IF in.auth # <<q.v>> THEN [out |-> None, in |-> in, ok |-> FALSE, conf |-> conf]
  ELSE [out |-> <<Msg("success", <<>>)>>, in |-> [in EXCEPT !.success = TRUE], ok |-> TRUE,
        conf |-> IF in.prev_error = 648 THEN eap_mschapv2_password_changed(conf) ELSE conf]

\* q.v is <<error, retry, version, challenge>>; an expired password asks for a new one,
\* a refused one that may be tried again for an identity and a password.
eap_mschapv2_failure_txt(in, conf, q) ==
  [in |-> [in EXCEPT !.prev_error = q.v[1], !.version = q.v[3], !.change = <<q.v[4]>>],
   conf |-> IF q.v[1] = 648 /\ q.v[3] = 3
            THEN IF conf.newpass = None THEN [conf EXCEPT !.pending = TRUE] ELSE conf
            ELSE [conf EXCEPT !.retry = q.v[2] = 1]]

eap_mschapv2_change_password(in, conf, rnd) ==
  LET nt == NtResponse(conf.newpass[1], in.change[1], rnd)
  IN  [out |-> <<Msg("change", <<conf.password, nt>>)>>,
       in |-> [in EXCEPT !.auth = <<AuthResponse(nt)>>, !.key = <<MasterKey(nt)>>]]

eap_mschapv2_failure(in, conf, q, rnd) ==
  LET f == eap_mschapv2_failure_txt(in, conf, q)
      r == [out |-> None, in |-> f.in, ok |-> FALSE, conf |-> f.conf]
  IN  IF f.in.prev_error = 648 /\ f.in.version = 3
      THEN IF f.conf.newpass # None
           THEN LET c == eap_mschapv2_change_password(f.in, f.conf, rnd)
                IN  [r EXCEPT !.out = c.out, !.in = c.in, !.ok = TRUE]  \* DECISION_COND_SUCC
           ELSE r                                   \* pending_req_new_password
      ELSE IF q.v[2] = 1 /\ f.in.prev_error = 691 THEN r
      ELSE [r EXCEPT !.out = <<Msg("failure", <<>>)>>]

\* While a retry is asked for, the challenge kept from before is answered again.
eap_mschapv2_process(in, conf, request, rnd) ==
  LET again == conf.retry /\ in.prev # None /\ in.prev_error = 691
      q == IF again THEN in.prev[1] ELSE request
      c == IF again THEN [conf EXCEPT !.retry = FALSE] ELSE conf
  IN  CASE q.t = "challenge" ->
             LET r == eap_mschapv2_challenge([in EXCEPT !.prev = <<q>>], c, q, rnd)
             IN  [out |-> r.out, in |-> r.in, ok |-> FALSE, conf |-> c]
        [] q.t = "success" -> eap_mschapv2_success(in, c, q)
        [] q.t = "failure" -> eap_mschapv2_failure(in, c, q, rnd)
        [] OTHER -> [out |-> None, in |-> in, ok |-> FALSE, conf |-> c]

-----------------------------------------------------------------------------
(***************************************************************************)
(* The methods.  Method data `d` has the connection, the version, the key   *)
(* of the tunnel, the inner method and what is known of phase 2; process    *)
(* returns the response, the data and the configuration.                    *)
(***************************************************************************)
Data(ver) ==
  [ssl |-> eap_peer_tls_ssl_init, ver |-> ver, key |-> None, in |-> None, pending |-> None,
   success |-> FALSE, started |-> FALSE, eap |-> FALSE, ipmk |-> None,
   pacs |-> <<>>, pac |-> None, prov |-> FALSE, anon |-> FALSE, simck |-> None]

Result(resp0, d, conf) == [resp |-> resp0, d |-> d, conf |-> conf]

Ack(q, type, d) == <<eap_peer_tls_build_ack(q.id, type, d.ver)>>

\* EAP-TLS, eap_tls.c
eap_tls_process(d, conf, q, inst) ==
  LET H(ssl, msg) == tls_connection_handshake(ssl, msg, inst, cfg.trust, TRUE, None, FALSE)
      h == eap_peer_tls_process_helper(eap_peer_tls_process_init(d.ssl, q), "TLS", 0, q.id,
                                       IF "S" \in q.flags THEN <<>> ELSE q.pay, H)
      e == [d EXCEPT !.ssl = h.ssl, !.key = IF h.ssl.est /\ h.res # "err"
              THEN <<eap_peer_tls_derive_key(h.ssl, "client EAP encryption")>> ELSE @]
  IN  Result(IF h.res = "ok" \/ h.resp # None THEN h.resp ELSE Ack(q, "TLS", e), e, conf)

\* PEAP, eap_peap.c.  The key of the inner method, zeros when there is none.
eap_peap_get_isk(d) ==
  IF d.in = None THEN <<"zero">>
  ELSE IF d.in[1].success THEN d.in[1].key[1] ELSE None

eap_peap_derive_cmk(d) == <<d.key[1], eap_peap_get_isk(d)>>
CompoundMac(cmk, who) == <<"mac", who, cmk>>

\* q.v is <<result, binding>>; a binding that does not verify turns the result into a failure.
eap_tlv_validate_cryptobinding(d, binding) ==
  /\ eap_peap_get_isk(d) # None
  /\ binding = <<CompoundMac(eap_peap_derive_cmk(d), "server")>>

eap_tlv_process(d, q, force_failure) ==
  LET has == q.v[2] # None
      good == has /\ eap_tlv_validate_cryptobinding(d, q.v[2])
      ok == q.v[1] = "ok" /\ ~force_failure /\ (has => good)
  IN  [out |-> <<Msg("tlv", <<IF ok THEN "ok" ELSE "fail",
                              IF good THEN <<CompoundMac(eap_peap_derive_cmk(d), "peer")>> ELSE None>>)>>,
       d |-> [d EXCEPT !.success = TRUE, !.ipmk = IF good THEN <<eap_peap_derive_cmk(d)>> ELSE @]]

\* A request inside the tunnel; one that gets no answer is kept.
eap_peap_phase2_request(d, conf, q, rnd) ==
  IF q.t = "identity"
  THEN IF cfg.user THEN [out |-> <<Msg("identity", <<>>)>>, d |-> d, conf |-> conf]
       ELSE [out |-> None, d |-> [d EXCEPT !.pending = <<q>>], conf |-> conf]
  ELSE IF q.t = "tlv"
  THEN LET r == eap_tlv_process(d, q, d.started /\ ~d.eap)
       IN  [out |-> r.out, d |-> r.d, conf |-> conf]
  ELSE LET p == eap_mschapv2_process(IF d.in = None THEN eap_mschapv2_init(None) ELSE d.in[1], conf, q, rnd)
       IN  [out |-> p.out, conf |-> p.conf,
            d |-> [d EXCEPT !.in = <<p.in>>, !.started = TRUE, !.eap = @ \/ p.ok, !.success = @ \/ p.ok,
                            !.pending = IF p.out = None THEN <<q>> ELSE @]]

\* What is decrypted for the phase 2: [res, ssl, plain].
Decrypted(d, pay) ==
  IF d.pending # None THEN [res |-> "ok", ssl |-> eap_peer_tls_reset_input(d.ssl), plain |-> d.pending]
  ELSE eap_peer_tls_decrypt(d.ssl, pay)

\* The EAP message m found inside the tunnel, and its answer encrypted.
PeapMessage(d, conf, q, m, rnd) ==
  LET Encrypt(r) ==
        IF r.out = None THEN Result(None, r.d, r.conf)
        ELSE Evaluated(eap_peer_tls_encrypt(r.d.ssl, "PEAP", d.ver, q.id, r.out), LAMBDA o :
               Result(o.resp, [r.d EXCEPT !.ssl = o.ssl], r.conf))
  IN  IF m.t = "eap-success"      \* PEAPv1 ends with EAP-Success in the tunnel
      THEN IF d.ver = 1 /\ ~(d.started /\ ~d.eap)
           THEN Result(Ack(q, "PEAP", d), [d EXCEPT !.success = TRUE], conf)
           ELSE Result(None, d, conf)
      ELSE Evaluated(IF m.t = "eap-failure" THEN [out |-> <<m>>, d |-> d, conf |-> conf]
                     ELSE eap_peap_phase2_request(d, conf, m, rnd), Encrypt)

eap_peap_decrypt(d, conf, q, pay, rnd) ==
  LET Input(c) ==
        Evaluated([d EXCEPT !.ssl = c.ssl, !.pending = None], LAMBDA e :
          IF c.res = "ack" THEN Result(Ack(q, "PEAP", e), e, conf)
          ELSE IF c.res = "err" THEN Result(None, e, conf) ELSE PeapMessage(e, conf, q, c.plain[1], rnd))
  IN  IF d.pending = None /\ pay = <<>>
      THEN Evaluated(eap_peer_tls_encrypt(d.ssl, "PEAP", d.ver, q.id, None), LAMBDA o :
             Result(o.resp, [d EXCEPT !.ssl = o.ssl], conf))
      ELSE Evaluated(Decrypted(d, pay), Input)

eap_peap_process(d0, conf, q, inst) ==
  LET pay == IF "S" \in q.flags THEN <<>> ELSE q.pay
      H(ssl, msg) == tls_connection_handshake(ssl, msg, inst, cfg.trust, FALSE, None, FALSE)
  IN  Evaluated([d0 EXCEPT !.ssl = eap_peer_tls_process_init(@, q),
                           !.ver = IF "S" \in q.flags /\ q.ver < @ THEN q.ver ELSE @], LAMBDA d :
      IF d.ssl.est THEN eap_peap_decrypt(d, conf, q, pay, <<q.id, inst>>)
      ELSE LET h == eap_peer_tls_process_helper(d.ssl, "PEAP", d.ver, q.id, pay, H)
               e == [d EXCEPT !.ssl = h.ssl, !.key = IF h.ssl.est
                       THEN <<eap_peer_tls_derive_key(h.ssl, "client EAP encryption")>> ELSE @]
           IN  Result(IF h.res = "ack" THEN Ack(q, "PEAP", e) ELSE h.resp, e, conf))

\* Mutant: the key of the tunnel is used although a crypto binding has been exchanged.
eap_peap_getKey_Tunnel(d) == d.key[1]

eap_peap_getKey(d) == IF d.ipmk # None THEN <<"csk", d.ipmk[1]>> ELSE d.key[1]

\* TTLS, eap_ttls.c: MSCHAPv2 in AVPs, sent as soon as the tunnel is up.
eap_ttls_implicit_challenge(ssl) == <<"ttls challenge", ssl.rnd>>

eap_ttls_phase2_request_mschapv2(d, conf, q, inst) ==
  LET nt == NtResponse(conf.password, eap_ttls_implicit_challenge(d.ssl), <<q.id, inst>>)
      o  == eap_peer_tls_encrypt(d.ssl, "TTLS", d.ver, q.id, <<Msg("avp", nt)>>)
  IN  IF ~HasCredentials(conf) THEN Result(None, d, conf)
      ELSE Result(o.resp, [d EXCEPT !.in = <<AuthResponse(nt)>>, !.ssl = o.ssl], conf)

\* MS-CHAP2-Success must carry the response expected; an error AVP is acknowledged.
eap_ttls_process_decrypted(d, conf, q, m) ==
  IF m.t = "avp-error" THEN Result(Ack(q, "TTLS", d), d, conf)
  ELSE IF m.t = "avp-success" /\ d.in = <<m.v>>
  THEN Result(Ack(q, "TTLS", d), [d EXCEPT !.success = TRUE], conf)
  ELSE Result(None, d, conf)

eap_ttls_decrypt(d, conf, q, pay) ==
  IF pay = <<>>
  THEN Evaluated(eap_peer_tls_encrypt(d.ssl, "TTLS", d.ver, q.id, None), LAMBDA o :
         Result(o.resp, [d EXCEPT !.ssl = o.ssl], conf))
  ELSE Evaluated(eap_peer_tls_decrypt(d.ssl, pay), LAMBDA c :
       LET e == [d EXCEPT !.ssl = c.ssl]
       IN  IF c.res = "ack" THEN Result(Ack(q, "TTLS", e), e, conf)
           ELSE IF c.res = "err" THEN Result(None, e, conf)
           ELSE eap_ttls_process_decrypted(e, conf, q, c.plain[1]))

eap_ttls_process(d0, conf, q, inst) ==
  LET pay == IF "S" \in q.flags THEN <<>> ELSE q.pay
      H(ssl, msg) == tls_connection_handshake(ssl, msg, inst, cfg.trust, FALSE, None, FALSE)
  IN  Evaluated([d0 EXCEPT !.ssl = eap_peer_tls_process_init(@, q)], LAMBDA d :
      IF d.ssl.est THEN eap_ttls_decrypt(d, conf, q, pay)
      ELSE LET h == eap_peer_tls_process_helper(d.ssl, "TTLS", d.ver, q.id, pay, H)
               e == [d EXCEPT !.ssl = h.ssl,
                              !.key = <<eap_peer_tls_derive_key(h.ssl, "ttls keying material")>>]
           IN  IF h.ssl.est /\ h.resp = None THEN eap_ttls_phase2_request_mschapv2(e, conf, q, inst)
               ELSE Result(IF h.res = "ack" THEN Ack(q, "TTLS", d) ELSE h.resp, [d EXCEPT !.ssl = h.ssl], conf))

-----------------------------------------------------------------------------
(***************************************************************************)
(* EAP-FAST, eap_fast.c and eap_fast_pac.c.  A PAC is [type, aid, key];     *)
(* the opaque part that goes to the server stands for the key.              *)
(***************************************************************************)
eap_fast_get_pac(pacs, aid, type) ==
  LET hits == {i \in 1 .. Len(pacs) : pacs[i].aid = aid /\ pacs[i].type = type}
  IN  IF hits = {} THEN None ELSE <<pacs[CHOOSE i \in hits : \A j \in hits : i <= j]>>

eap_fast_remove_pac(pacs, aid, type) ==
  SelectSeq(pacs, LAMBDA p : ~(p.aid = aid /\ p.type = type))

eap_fast_add_pac(pacs, entry) == <<entry>> \o eap_fast_remove_pac(pacs, entry.aid, entry.type)

eap_fast_pac_list_truncate(pacs, max) == SubSeq(pacs, 1, IF Len(pacs) > max THEN max ELSE Len(pacs))

\* The PAC file: a blob looked up by the name of the format.  The binary one looks for
\* a blob named "PAC", which nothing stores, and reads an empty list.
eap_fast_load_pac(blob) == IF cfg.binary THEN <<>> ELSE blob

\* None when there is neither a PAC nor leave to provision one.
eap_fast_init(blob) ==
  LET pacs == eap_fast_pac_list_truncate(eap_fast_load_pac(blob), cfg.maxpac)
  IN  IF pacs = <<>> /\ cfg.prov = 0 THEN None ELSE <<[Data(1) EXCEPT !.pacs = pacs]>>

eap_fast_select_pac(pacs, aid) ==
  LET t == eap_fast_get_pac(pacs, aid, "tunnel")
  IN  IF t # None THEN t ELSE eap_fast_get_pac(pacs, aid, "machine")

\* The Start carries the A-ID; None when no PAC fits and none may be provisioned.
eap_fast_process_start(d, q) ==
  LET pac == eap_fast_select_pac(d.pacs, q.pay[1])
      e == [d EXCEPT !.ver = IF q.ver < @ THEN q.ver ELSE @, !.pac = pac]
  IN  IF pac # None THEN <<e>>
      ELSE IF cfg.prov = 0 THEN None ELSE <<[e EXCEPT !.prov = TRUE]>>

\* The server did without the ticket: provision if that is allowed.
eap_fast_session_ticket_cb(d) ==
  IF d.pac # None /\ cfg.prov # 0 THEN [d EXCEPT !.prov = TRUE, !.pac = None] ELSE d

\* An inner method started while anonymous takes its challenges from the key block.
eap_fast_phase2_request(d, conf, q, rnd) ==
  IF q.t = "identity"
  THEN [out |-> IF cfg.user THEN <<Msg("identity", <<>>)>> ELSE None, d |-> d, conf |-> conf]
  ELSE LET kb == IF d.anon THEN <<"key block", d.ssl.rnd>> ELSE None
           p == eap_mschapv2_process(IF d.in = None THEN eap_mschapv2_init(kb) ELSE d.in[1], conf, q, rnd)
       IN  [out |-> p.out, conf |-> p.conf,
            d |-> [d EXCEPT !.in = <<p.in>>, !.success = @ \/ (p.out # None /\ p.ok),
                            !.pending = IF p.out = None /\ p.conf.pending THEN <<q>> ELSE @]]

eap_fast_get_cmk(simck, isk) == <<"imck", simck, "swapped", isk>>

\* The seed of the session moves on even when the MAC turns out to be wrong.
eap_fast_process_crypto_binding(d, mac) ==
  LET in == d.in[1]
      sc == eap_fast_get_cmk(d.simck, in.key[1])
  IN  IF d.in = None THEN [ok |-> FALSE, d |-> d]
      ELSE IF ~in.success THEN [ok |-> FALSE, d |-> d]
      ELSE IF mac # CompoundMac(sc, "server") THEN [ok |-> FALSE, d |-> [d EXCEPT !.simck = sc]]
      ELSE [ok |-> TRUE, d |-> [d EXCEPT !.simck = sc,
             !.key = IF ~d.anon /\ d.success THEN <<<<"msk", sc>>>> ELSE @]]

\* A PAC from the server is put first, the list is cut, and the whole of it is saved.
eap_fast_process_pac(d, pac) ==
  LET e == [d EXCEPT !.pacs = eap_fast_pac_list_truncate(eap_fast_add_pac(@, pac), cfg.maxpac)]
  IN  IF d.prov /\ d.anon THEN [e EXCEPT !.key = None] ELSE e

\* m.v is [result, iresult, bind, eap, pac], each None when its TLV is not there.
Tlvs(result, iresult, bind, eap, pac) ==
  Msg("tlvs", [result |-> result, iresult |-> iresult, bind |-> bind, eap |-> eap, pac |-> pac])

eap_fast_process_decrypted(d, conf, m, rnd) ==
  LET v == m.v
      b == IF v.bind = None THEN [ok |-> TRUE, d |-> d] ELSE eap_fast_process_crypto_binding(d, v.bind[1])
      failed == ~b.ok \/ (v.pac # None /\ v.result # <<"ok">>)
      given == v.pac # None /\ v.result = <<"ok">>
      Ask(e) == e.pac = None /\ e.prov /\ ~e.anon /\ v.pac = None
                  /\ (v.iresult = <<"ok">> \/ v.result = <<"ok">>)
      Reply(p) ==
        LET e == IF given THEN eap_fast_process_pac(p.d, v.pac[1]) ELSE p.d
        IN  [out |-> Tlvs(IF failed THEN <<"fail">> ELSE IF v.result = <<"ok">> THEN <<"ok">> ELSE None,
                          IF v.iresult = None THEN None ELSE <<IF b.ok THEN "ok" ELSE "fail">>,
                          IF v.bind # None /\ b.ok THEN <<CompoundMac(b.d.simck, "peer")>> ELSE None,
                          p.out,
                          IF given THEN <<"ack">> ELSE IF Ask(e) THEN <<"request">> ELSE None),
             d |-> e, conf |-> p.conf]
  IN  IF v.result = <<"fail">> THEN [out |-> Tlvs(<<"fail">>, None, None, None, None), d |-> d, conf |-> conf]
      ELSE IF v.iresult = <<"fail">>
      THEN [out |-> Tlvs(None, <<"fail">>, None, None, None), d |-> d, conf |-> conf]
      ELSE Evaluated(IF v.eap = None THEN [out |-> None, d |-> b.d, conf |-> conf]
                     ELSE eap_fast_phase2_request(b.d, conf, v.eap[1], rnd), Reply)

\* A failure inside the tunnel is answered with an acknowledgement.
eap_fast_decrypt(d, conf, q, pay, rnd) ==
  LET Encrypt(r) ==
        Evaluated(eap_peer_tls_encrypt(r.d.ssl, "FAST", d.ver, q.id, <<r.out>>), LAMBDA o :
          Result(o.resp, [r.d EXCEPT !.ssl = o.ssl], r.conf))
      Input(c) ==
        Evaluated([d EXCEPT !.ssl = c.ssl, !.pending = None], LAMBDA e :
          IF c.res # "ok" \/ c.plain[1].t # "tlvs" THEN Result(Ack(q, "FAST", e), e, conf)
          ELSE Evaluated(eap_fast_process_decrypted(e, conf, c.plain[1], rnd), Encrypt))
  IN  IF d.pending = None /\ pay = <<>>
      THEN Evaluated(eap_peer_tls_encrypt(d.ssl, "FAST", d.ver, q.id, None), LAMBDA o :
             Result(IF o.resp = None THEN Ack(q, "FAST", d) ELSE o.resp, [d EXCEPT !.ssl = o.ssl], conf))
      ELSE Evaluated(Decrypted(d, pay), Input)

\* When the handshake completes it is settled whether provisioning is anonymous,
\* and the seed is taken from the key block accordingly.
eap_fast_derive_keys(d) ==
  LET anon == d.prov /\ (cfg.prov = 1 \/ d.ssl.adh)
  IN  [d EXCEPT !.anon = anon, !.simck = <<IF anon THEN "provisioning" ELSE "auth", d.ssl.rnd>>]

eap_fast_process(d0, conf, q, inst) ==
  LET i == [d0 EXCEPT !.ssl = eap_peer_tls_process_init(@, q)]
      pay == IF "S" \in q.flags THEN <<>> ELSE q.pay
      Started(d) ==
        IF d.ssl.est THEN eap_fast_decrypt(d, conf, q, pay, <<q.id, inst>>)
        ELSE
           LET pac == IF d.pac = None THEN None ELSE <<d.pac[1].key>>
               H(ssl, msg) == tls_connection_handshake(ssl, msg, inst, cfg.trust, FALSE, pac, cfg.prov \in {1, 3})
               h == eap_peer_tls_process_helper(d.ssl, "FAST", d.ver, q.id, pay, H)
               full == pay # <<>> /\ pay[1][1] \in {"server1", "anon1"} /\ h.ssl.step = 2
               e == [(IF full THEN eap_fast_session_ticket_cb(d) ELSE d) EXCEPT !.ssl = h.ssl]
           IN  IF h.res = "err" THEN Result(h.resp, e, conf)
               ELSE Result(IF h.res = "ack" THEN Ack(q, "FAST", e) ELSE h.resp,
                           IF h.ssl.est THEN eap_fast_derive_keys(e) ELSE e, conf)
  IN  Evaluated(IF "S" \in q.flags THEN eap_fast_process_start(i, q) ELSE <<i>>, LAMBDA st :
        IF st = None THEN Result(None, i, conf) ELSE Started(st[1]))

-----------------------------------------------------------------------------
(***************************************************************************)
(* eap.c and esp_wpa2.c: the state machine of the peer.                     *)
(***************************************************************************)
eap_peer_register_methods == <<"TLS", "MSCHAPV2">> \o (IF cfg.fast THEN <<"FAST">> ELSE <<>>) \o <<"PEAP", "TTLS">>

esp_wifi_sta_wpa2_ent_set_password(gl, p) == [gl EXCEPT !.password = <<p>>, !.password_len = p.len]

\* The length of the new password is stored as that of the password.
esp_wifi_sta_wpa2_ent_set_new_password(gl, p) == [gl EXCEPT !.new_password = <<p>>, !.password_len = p.len]

\* The methods allowed are listed once; the pointer to the list is static and the list
\* freed with the first state machine, so that the later ones have none.
eap_peer_config_init(gl) ==
  [conf |-> [password |-> IF gl.password = None \/ gl.password_len = 0 THEN "none"
                          ELSE IF gl.password_len = gl.password[1].len THEN gl.password[1].text
                          ELSE "of another length",
             newpass  |-> IF gl.new_password = None \/ gl.new_password_len = 0 THEN None
                          ELSE <<gl.new_password[1].text>>,
             retry    |-> FALSE, pending |-> FALSE],
   methods |-> IF gl.config_methods THEN None
               ELSE <<(IF cfg.user THEN {"PEAP", "TTLS"} ELSE {}) \cup (IF cfg.key THEN {"TLS"} ELSE {})
                        \cup (IF cfg.pacs # <<>> /\ cfg.fast THEN {"FAST"} ELSE {})>>]

eap_peer_sm_init(gl, n) ==
  LET c == eap_peer_config_init(gl)
  IN  [n |-> n, id |-> -1, last |-> None, m |-> "none", d |-> None, key |-> None, pmk |-> None,
       state |-> "NOT_START", conf |-> c.conf, methods |-> c.methods,
       blob |-> IF cfg.pacs = <<>> THEN <<>> ELSE cfg.pacs[1]]

eap_sm_allowMethod(s, t) == s.methods = None \/ t \in s.methods[1]

eap_sm_build_nak(s, id) ==
  Frame(id, "NAK", {}, 0, 0, SelectSeq(eap_peer_register_methods, LAMBDA t : t # "MSCHAPV2" /\ (t = "TLS" => cfg.key)))

\* The init function of a method: None when it refuses.
MethodInit(s, t) ==
  CASE t = "TLS" -> IF cfg.key THEN <<Data(0)>> ELSE None
    [] t = "PEAP" -> <<Data(1)>>
    [] t = "TTLS" -> <<Data(0)>>
    [] t = "FAST" -> eap_fast_init(s.blob)
    [] OTHER -> None                       \* MSCHAPv2 runs inside a tunnel only

MethodProcess(s, t, d, q) ==
  CASE t = "TLS" -> eap_tls_process(d, s.conf, q, s.n)
    [] t = "PEAP" -> eap_peap_process(d, s.conf, q, s.n)
    [] t = "TTLS" -> eap_ttls_process(d, s.conf, q, s.n)
    [] t = "FAST" -> eap_fast_process(d, s.conf, q, s.n)

isKeyAvailable(t, d) == d.key # None /\ (t \in {"PEAP", "TTLS"} => d.success)
getKey(t, d) == IF t = "PEAP" THEN eap_peap_getKey(d) ELSE d.key[1]

\* The method handles the request; the key is fetched whenever there is one, and a PAC
\* that has been received goes into the blob of the state machine.
RunMethod(s, t, d, q) ==
  LET Done(r) ==
        [resp |-> r.resp,
         sm |-> [s EXCEPT !.id = q.id, !.m = t, !.d = <<r.d>>, !.conf = r.conf,
                          !.key = IF isKeyAvailable(t, r.d) THEN <<getKey(t, r.d)>> ELSE @,
                          !.blob = IF r.d.pacs = d.pacs \/ cfg.binary THEN @ ELSE r.d.pacs]]
  IN  Evaluated(MethodProcess(s, t, d, q), Done)

\* The response to a request, and the state machine before it is sent.
eap_sm_process_request(s, q) ==
  IF q.id = s.id /\ s.last # None THEN [resp |-> s.last, sm |-> s]
  ELSE IF q.type = "identity"
  THEN [resp |-> <<Frame(q.id, "identity", {}, 0, 0, <<>>)>>, sm |-> [s EXCEPT !.id = q.id]]
  ELSE LET known == Contains(eap_peer_register_methods, q.type) /\ eap_sm_allowMethod(s, q.type)
           d == IF s.m = q.type THEN s.d ELSE IF known THEN MethodInit(s, q.type) ELSE None
       IN  IF d = None
           THEN [resp |-> <<eap_sm_build_nak(s, q.id)>>,
                 sm |-> [s EXCEPT !.id = q.id, !.m = IF known THEN "none" ELSE @, !.d = IF known THEN None ELSE @]]
           ELSE RunMethod(s, q.type, d[1], q)

\* eap_sm_rx_eapol_internal.  sent: did eap_sm_send_eapol get the response out?
PeerRx(sent) ==
  /\ req # None
  /\ LET q == req[1]
         r == eap_sm_process_request([sm EXCEPT !.state = "IN_PROGRESS"], q)
     IN  CASE q.type = "Success" ->
                /\ sent
                /\ sm' = IF sm.key = None THEN [sm EXCEPT !.state = "FAIL"]
                         ELSE [sm EXCEPT !.pmk = sm.key, !.key = None, !.state = "SUCCESS", !.m = "none", !.d = None]
                /\ UNCHANGED <<resp, faults, note>>
           [] q.type = "Failure" ->
                sent /\ sm' = [sm EXCEPT !.state = "FAIL"] /\ UNCHANGED <<resp, faults, note>>
           [] OTHER ->
                \E x \in {r}, st \in IF sent THEN {"IN_PROGRESS"} ELSE {"IN_PROGRESS", "FAIL"} :
                  /\ sm' = [x.sm EXCEPT !.state = st, !.last = IF x.resp = None THEN @ ELSE IF sent THEN x.resp ELSE None]
                  /\ resp' = IF sent THEN resp \o x.resp ELSE resp
                  /\ faults' = IF sent THEN faults ELSE faults + 1
                  /\ note' = IF sent THEN note ELSE note \cup {"send"}
                  /\ sent \/ (faults < MaxFaults /\ x.resp # None)
  /\ req' = None
  /\ UNCHANGED <<cfg, g, srv>>

-----------------------------------------------------------------------------
(***************************************************************************)
(* The authentication server, external: it offers its methods in order,     *)
(* runs the one the station takes, sends and receives in fragments, repeats *)
(* a request that is not answered, and ends with Success or Failure.        *)
(***************************************************************************)
NextId(id) == (id + 1) % IdMod

SrvInit(n, id) ==
  [n |-> n, id |-> id, st |-> "wait", tries |-> 0, type |-> "identity", tried |-> {}, phase |-> "identity",
   cur |-> Frame(id, "identity", {}, 0, 0, <<>>), out |-> <<>>, pos |-> 0, in |-> <<>>, ver |-> 0,
   rnd |-> <<>>, pass |-> cfg.spass, chal |-> <<>>, auth |-> None, isk |-> None, simck |-> None,
   give |-> FALSE, anon |-> FALSE, msk |-> None]

\* The next frame of the server: a fragment, an acknowledgement, or the end.
SrvSend(s, flags, pay) ==
  LET id == NextId(s.id)
      inc == pay # <<>> /\ s.pos = 0
  IN  [s EXCEPT !.id = id, !.tries = 0,
         !.cur = Frame(id, s.type, flags \cup (IF inc THEN {"L"} ELSE {}), s.ver, IF inc THEN Len(s.out) ELSE 0, pay)]

SrvFragment(s) ==
  LET last == s.pos + FragLimit >= Len(s.out)
      f == SrvSend(s, IF last THEN {} ELSE {"M"}, SubSeq(s.out, s.pos + 1, s.pos + FragLimit))
  IN  IF last THEN [f EXCEPT !.out = <<>>, !.pos = 0] ELSE [f EXCEPT !.pos = @ + FragLimit]

SrvMessage(s, units, phase) == SrvFragment([s EXCEPT !.out = units, !.pos = 0, !.in = <<>>, !.phase = phase])
SrvInner(s, m, phase) == SrvMessage(s, App(s.rnd, m, IF m.t = "success" THEN 2 ELSE 1), phase)

SrvEnd(s, how) ==
  [s EXCEPT !.st = how, !.msk = IF how = "success" THEN @ ELSE None,
            !.cur = Frame(s.id, IF how = "success" THEN "Success" ELSE "Failure", {}, 0, 0, <<>>)]

\* The Start of the first method left among those the station names.
SrvOffer(s, names) ==
  LET left == SelectSeq(cfg.methods, LAMBDA t : t \in names \ s.tried)
  IN  IF left = <<>> THEN SrvEnd(s, "failure")
      ELSE LET t == left[1]
               o == [s EXCEPT !.type = t, !.tried = @ \cup {t}, !.phase = "start", !.in = <<>>, !.out = <<>>, !.pos = 0,
                              !.ver = IF t = "PEAP" THEN cfg.pver ELSE IF t = "FAST" THEN 1 ELSE 0]
               f == SrvSend(o, {"S"}, <<>>)
           IN  IF t = "FAST" THEN [f EXCEPT !.cur.pay = <<"aid">>] ELSE f

SrvHello(s, msg) ==
  LET r == [s EXCEPT !.rnd = <<msg[1][2][1], s.n>>]
      pac == msg[1][4]
  IN  IF ~Whole(msg, "hello", 1) THEN SrvEnd(s, "failure")
      ELSE IF s.type = "FAST" /\ pac # None /\ pac[1] \in cfg.spacs
      THEN SrvMessage([r EXCEPT !.simck = <<"auth", r.rnd>>], Units("resume", r.rnd, 1), "resumed")
      ELSE IF s.type = "FAST" /\ cfg.anon
      THEN SrvMessage([r EXCEPT !.simck = <<"provisioning", r.rnd>>, !.give = TRUE, !.anon = TRUE],
                      Units("anon1", r.rnd, 1), "hs")
      ELSE SrvMessage([r EXCEPT !.simck = <<"auth", r.rnd>>, !.give = TRUE], Units("server1", r.rnd, 2), "hs")

SrvTunnel(s) ==
  LET m == Msg("identity", <<>>)
  IN  SrvInner(s, IF s.type = "FAST" THEN Tlvs(None, None, None, <<m>>, None) ELSE m, "p2")

SrvEap(s, m) == SrvInner(s, IF s.type = "FAST" THEN Tlvs(None, None, None, <<m>>, None) ELSE m, "p2")

\* The inner MSCHAPv2 exchange, and what follows it.
SrvMschap(s, m) ==
  LET right == m.v[1] = s.pass /\ m.v[2] = s.chal
      chal == <<"challenge", s.n, s.id>>
      pass(nt) == SrvEap([s EXCEPT !.auth = <<AuthResponse(nt)>>, !.isk = <<MasterKey(nt)>>],
                         Msg("success", AuthResponse(nt)))
      cmk == <<<<"client EAP encryption", s.rnd>>, s.isk[1]>>
      sc  == eap_fast_get_cmk(s.simck, s.isk[1])
  IN  CASE m.t = "identity" ->
             SrvEap([s EXCEPT !.chal = IF s.anon THEN <<"key block", s.rnd>> ELSE chal], Msg("challenge", chal))
        [] m.t = "response" ->
             IF right /\ cfg.expired /\ s.pass = cfg.spass
             THEN SrvEap([s EXCEPT !.chal = chal], Msg("failure", <<648, 0, 3, chal>>))
             ELSE IF right THEN pass(m.v)
             ELSE SrvEap(s, Msg("failure", <<691, IF cfg.retry THEN 1 ELSE 0, 3, chal>>))
        [] m.t = "change" ->
             IF m.v[1] = s.pass /\ m.v[2][2] = s.chal
             THEN pass(m.v[2]) ELSE SrvEnd(s, "failure")
        [] m.t = "success" ->
             IF s.type = "PEAP"
             THEN IF s.ver = 0
                  THEN SrvInner([s EXCEPT !.msk = <<IF cfg.bind THEN <<"csk", cmk>> ELSE cmk[1]>>],
                                Msg("tlv", <<"ok", IF cfg.bind THEN <<CompoundMac(cmk, "server")>> ELSE None>>), "end")
                  ELSE SrvInner([s EXCEPT !.msk = <<cmk[1]>>], Msg("eap-success", <<>>), "end")
             ELSE SrvInner([s EXCEPT !.simck = sc, !.msk = <<<<"msk", sc>>>>],
                           Tlvs(IF s.give THEN None ELSE <<"ok">>, <<"ok">>, <<CompoundMac(sc, "server")>>, None, None),
                           IF s.give THEN "give" ELSE "end")
        [] OTHER -> SrvEnd(s, "failure")

\* A message of the station is complete.
SrvProcess(s, msg) ==
  LET app == msg # <<>> /\ msg[1][1] = "app" /\ msg[1][2] = s.rnd
      m == msg[1][4]
      key == <<<<"client EAP encryption", s.rnd>>>>
  IN  CASE s.phase = "start" -> SrvHello(s, msg)
        [] s.phase = "hs" ->
             IF msg # <<>> /\ Whole(msg, "client2", IF s.type = "TLS" THEN 2 ELSE 1) /\ msg[1][2] = s.rnd
             THEN SrvMessage(s, Units("server3", s.rnd, 1), "fin") ELSE SrvEnd(s, "failure")
        [] s.phase = "resumed" ->
             IF msg # <<>> /\ Whole(msg, "client2", 1) THEN SrvTunnel(s) ELSE SrvEnd(s, "failure")
        [] s.phase = "fin" ->
             IF s.type = "TTLS"
             THEN IF ~app THEN SrvEnd(s, "failure")
                  ELSE IF m.v[1] = s.pass /\ m.v[2] = <<"ttls challenge", s.rnd>>
                  THEN SrvInner([s EXCEPT !.msk = <<<<"ttls keying material", s.rnd>>>>],
                                Msg("avp-success", AuthResponse(m.v)), "end")
                  ELSE SrvEnd(s, "failure")
             ELSE IF msg # <<>> THEN SrvEnd(s, "failure")
             ELSE IF s.type = "TLS" THEN SrvEnd([s EXCEPT !.msk = key], "success") ELSE SrvTunnel(s)
        [] s.phase = "p2" ->
             IF ~app THEN SrvEnd(s, "failure")
             ELSE IF s.type # "FAST" THEN SrvMschap(s, m)
             ELSE IF m.v.eap = None THEN SrvEnd(s, "failure") ELSE SrvMschap(s, m.v.eap[1])
        [] s.phase = "give" ->
             IF app /\ m.v.iresult = <<"ok">> /\ m.v.bind = <<CompoundMac(s.simck, "peer")>>
             THEN SrvInner(s, Tlvs(<<"ok">>, None, None, None,
                                   <<[type |-> "tunnel", aid |-> "aid", key |-> "k1"]>>), "given")
             ELSE SrvEnd(s, "failure")
        [] s.phase = "given" ->
             SrvEnd(s, IF ~s.anon /\ app /\ m.v.pac = <<"ack">> THEN "success" ELSE "failure")
        [] OTHER ->      \* "end"
             SrvEnd(s, IF s.type = "TTLS" \/ (s.type = "PEAP" /\ s.ver = 1)
                       THEN IF msg = <<>> THEN "success" ELSE "failure"
                       ELSE IF ~app THEN "failure"
                       ELSE IF s.type = "PEAP"
                       THEN IF m.v[1] = "ok" /\ (cfg.bind => m.v[2] # None) THEN "success" ELSE "failure"
                       ELSE IF m.v.result = <<"ok">> /\ m.v.bind = <<CompoundMac(s.simck, "peer")>>
                            THEN "success" ELSE "failure")

\* A response that is not the one waited for is dropped.
SrvAnswer(s, f) ==
  IF f.type = "identity" THEN SrvOffer(s, {"TLS", "PEAP", "TTLS", "FAST"})
  ELSE IF f.type = "NAK" THEN SrvOffer(s, ToSet(f.pay))
  ELSE LET v == IF s.phase = "start" THEN [s EXCEPT !.ver = f.ver] ELSE s
       IN  IF "M" \in f.flags THEN SrvSend([v EXCEPT !.in = @ \o f.pay], {}, <<>>)
           ELSE IF v.out # <<>> /\ f.pay = <<>> THEN SrvFragment(v)
           ELSE SrvProcess([v EXCEPT !.in = <<>>, !.out = <<>>, !.pos = 0], v.in \o f.pay)

ServerRx ==
  /\ resp # <<>>
  /\ resp' = Tail(resp)
  /\ LET f == Head(resp)
         taken == srv.st = "wait" /\ f.id = srv.id /\ f.type \in {srv.type, "NAK"}
     IN  \E s \in {IF taken THEN SrvAnswer(srv, f) ELSE srv} :
           /\ srv' = s
           /\ req' = IF taken THEN <<s.cur>> ELSE req
  /\ UNCHANGED <<cfg, g, sm, faults, note>>

Waiting == srv.st = "wait" /\ req = None

\* A timeout repeats the request; one while a response is on its way is a disturbance.
SrvRetransmit ==
  /\ Waiting /\ srv.tries < MaxRetries
  /\ resp = <<>> \/ faults < MaxFaults
  /\ faults' = IF resp = <<>> THEN faults ELSE faults + 1
  /\ req' = <<srv.cur>>
  /\ srv' = [srv EXCEPT !.tries = @ + 1]
  /\ UNCHANGED <<cfg, g, sm, resp, note>>

SrvGiveUp ==
  /\ Waiting /\ resp = <<>> /\ srv.tries = MaxRetries
  /\ srv' = SrvEnd(srv, "failure")
  /\ req' = <<srv'.cur>>
  /\ UNCHANGED <<cfg, g, sm, resp, faults, note>>

LoseRequest ==
  /\ req # None /\ faults < MaxFaults
  /\ req' = None /\ faults' = faults + 1
  /\ note' = IF req[1].type \in {"Success", "Failure"} THEN note \cup {"end"} ELSE note
  /\ UNCHANGED <<cfg, g, sm, srv, resp>>

LoseResponse ==
  /\ resp # <<>> /\ faults < MaxFaults
  /\ resp' = Tail(resp) /\ faults' = faults + 1
  /\ UNCHANGED <<cfg, g, sm, srv, req, note>>

Over == srv.st # "wait" /\ req = None /\ resp = <<>>

\* The station associates again: esp_wifi_sta_wpa2_ent_enable's init runs afresh.
Reassociate ==
  /\ Over /\ srv.n < MaxSessions
  /\ g' = [g EXCEPT !.config_methods = TRUE]
  /\ sm' = eap_peer_sm_init(g', srv.n + 1)
  /\ srv' = SrvInit(srv.n + 1, NextId(srv.id))
  /\ req' = <<srv'.cur>> /\ note' = {}
  /\ UNCHANGED <<cfg, resp, faults>>

\* The server authenticates the station again within the association.
Reauthenticate ==
  /\ Over /\ srv.n < MaxSessions
  /\ srv' = SrvInit(srv.n + 1, NextId(srv.id))
  /\ req' = <<srv'.cur>>
  /\ note' = IF sm.m # "none" THEN {"old method"} ELSE {}
  /\ UNCHANGED <<cfg, g, sm, resp, faults>>

Globals(c) ==
  LET z == [password |-> None, password_len |-> 0, new_password |-> None, new_password_len |-> 0,
            config_methods |-> FALSE]
      p == IF c.password = None THEN z ELSE esp_wifi_sta_wpa2_ent_set_password(z, c.password[1])
  IN  IF c.newpass = None THEN p ELSE esp_wifi_sta_wpa2_ent_set_new_password(p, c.newpass[1])

Init ==
  /\ cfg \in Configs
  /\ g = [Globals(cfg) EXCEPT !.config_methods = TRUE]
  /\ sm = eap_peer_sm_init(Globals(cfg), 1)
  /\ srv = SrvInit(1, 0)
  /\ req = <<srv.cur>> /\ resp = <<>> /\ faults = 0 /\ note = {}

Next ==
  \/ \E sent \in BOOLEAN : PeerRx(sent)
  \/ ServerRx \/ SrvRetransmit \/ SrvGiveUp
  \/ LoseRequest \/ LoseResponse
  \/ Reassociate \/ Reauthenticate

Spec == Init /\ [][Next]_vars

-----------------------------------------------------------------------------
\* When both sides hold the conversation for a success they have the same key: what
\* eap_sm_process_request fetched with getKey along the way is the server's MSK.
KeysAgree == srv.st = "success" /\ sm.state = "SUCCESS" => sm.pmk = srv.msk

\* Does the method t, if the station takes it, lead to a success?
Ready(t) ==
  LET pw == cfg.user /\ cfg.password # None /\ cfg.newpass = None /\ cfg.password[1].text = cfg.spass /\ ~cfg.expired
      pacs == IF cfg.pacs = <<>> \/ cfg.binary THEN {} ELSE {p.key : p \in ToSet(cfg.pacs[1])}
  IN  CASE t = "TLS" -> cfg.trust
        [] t = "FAST" -> pw /\ (pacs \cap cfg.spacs # {} \/ (cfg.prov \in {2, 3} /\ ~cfg.anon /\ cfg.trust))
        [] OTHER -> pw /\ cfg.trust

Taken(t) ==
  /\ Contains(eap_peer_register_methods, t) /\ eap_sm_allowMethod(sm, t)
  /\ MethodInit(sm, t) # None

Compatible ==
  LET offered == SelectSeq(cfg.methods, Taken) IN offered # <<>> /\ Ready(offered[1])

\* Frames lost or repeated on the way never change how a conversation ends, whatever
\* fragment of whatever message it is: as long as each request gets through before the
\* server gives up, a station and a server that fit together both end in success with
\* a key.  Excepted: a response that could not be sent, the Success frame itself being
\* lost, and a conversation begun on the method left over from such a loss.
LossIsRepaired ==
  Over /\ Compatible /\ note \cap {"send", "old method"} = {} =>
    /\ srv.st = "success"
    /\ "end" \notin note => sm.state = "SUCCESS" /\ sm.pmk = srv.msk

=============================================================================
