---------------------------- MODULE TlsHandshake ----------------------------
(***************************************************************************)
(* The TLS client and the TLS server of wpa_supplicant's internal TLS       *)
(* (common/wpa_supplicant/src/tls/tlsv1_*.c, tls_internal.c), joined by two *)
(* ordered byte streams.  The client is what the EAP peer of this build     *)
(* uses; the server is driven here through its public functions.            *)
(*                                                                          *)
(* A record carries one handshake message, one ChangeCipherSpec, one alert  *)
(* or one piece of application data.  A stream hands over any number of     *)
(* whole records at a time, and the client's may also hand over the         *)
(* beginning of a record (partial_input).                                   *)
(*                                                                          *)
(* Cryptography is symbolic: secrets, key blocks and hashes are the tuples  *)
(* of what they are computed from; a record protected with other keys or    *)
(* another sequence number than expected is not accepted; what is encrypted *)
(* to a public key opens with that key only.                                *)
(***************************************************************************)
EXTENDS X509Chain, TLC

CONSTANTS
  Configs,          \* what the two sides are set up with (see the record below)
  NSessions,        \* bound: handshakes started on one client connection
  AlterHello,       \* may one hello be altered on its way?
  ReuseFailed       \* is a connection shut down and used again after a failure?

(***************************************************************************)
(* A configuration: cver, sver the TLS_VERSION each side is built with;     *)
(* canon, sanon whether set_cipher_list asked for anonymous Diffie-Hellman; *)
(* trusted, stores of anchors; scert, skey, ccert, ckey the certificates    *)
(* and private keys ("" when there is none); verify_peer; ticket the PAC    *)
(* the client offers ("" when none) and pac the key the server has for it   *)
(* ("" when it does not know it); base whether a later session may use it.   *)
(***************************************************************************)
VARIABLES
  cfg, cli, srv,
  c2s, s2c,         \* the records on their way
  altered,          \* a hello has been altered in this session
  data,             \* application data: c, s sent; cgot, sgot received
  session           \* handshakes started

vars == <<cfg, cli, srv, c2s, s2c, altered, data, session>>

None == <<>>

-----------------------------------------------------------------------------
(***************************************************************************)
(* tlsv1_common.c, tlsv1_record.c                                            *)
(***************************************************************************)
tls_key_exchange(suite) ==
  IF suite \in {"ADH_AES256_SHA256", "ADH_AES256", "ADH_AES128"} THEN "DH_anon" ELSE "RSA"

tls_server_key_exchange_allowed(suite) == tls_key_exchange(suite) = "DH_anon"

tls_version_ok(built, ver) == ver \in 10 .. built

\* The hash contexts: `h` the messages so far, and which of the three are still open.
HashInit == [h |-> <<>>, client |-> TRUE, server |-> TRUE, cert |-> TRUE]
HashFreed == [h |-> <<>>, client |-> FALSE, server |-> FALSE, cert |-> FALSE]

tls_verify_hash_add(conn, m) == [conn EXCEPT !.verify.h = Append(@, m)]

KeyBlock(conn) == <<conn.ms, conn.srandom, conn.crandom, conn.suite, conn.ver>>

\* tls_derive_keys and tlsv1_server_derive_keys: without a pre-master secret the
\* master secret is the one already there.
DeriveKeys(conn, pms) ==
  LET c1 == IF pms = None THEN conn
            ELSE [conn EXCEPT !.ms = <<"master", pms, conn.crandom, conn.srandom>>]
  IN [c1 EXCEPT !.kb = KeyBlock(c1)]

tlsv1_record_change_write_cipher(conn) == [conn EXCEPT !.wr = conn.kb, !.wseq = 0]
tlsv1_record_change_read_cipher(conn)  == [conn EXCEPT !.rd = conn.kb, !.rseq = 0]

\* The record and the connection after it: conn.out is the flight being written.
tlsv1_record_send(conn, ct, m) ==
  [conn EXCEPT !.out = Append(@, [ct |-> ct, from |-> conn.side, key |-> conn.wr,
                                  seq |-> conn.wseq, m |-> m]),
               !.wseq = @ + 1]

\* Is the record accepted?  Under a key: its keys, direction and number are the expected ones.
tlsv1_record_receive(conn, rec) ==
  IF conn.rd = None THEN rec.key = None
  ELSE rec.key = conn.rd /\ rec.seq = conn.rseq /\ rec.from # conn.side

-----------------------------------------------------------------------------
(***************************************************************************)
(* A connection object.  `ret` is the return value of the handler that is   *)
(* running, `out` the flight it writes; both are empty between calls.       *)
(***************************************************************************)
Conn(side) ==
  [side |-> side, state |-> "CLIENT_HELLO", verify |-> HashInit, suite |-> "NULL", ver |-> 0,
   cver |-> 0, crandom |-> 0, srandom |-> 0, ms |-> None, kb |-> None,
   wr |-> None, rd |-> None, wseq |-> 0, rseq |-> 0, peerkey |-> "", dh |-> None,
   certreq |-> FALSE, ticket |-> "", use_ticket |-> FALSE, alert |-> "", partial |-> FALSE,
   out |-> <<>>, ret |-> "ok", app |-> <<>>, chain |-> <<>>]

Err(conn, alert) == [conn EXCEPT !.alert = alert, !.ret = "err"]
Is(rec, type) == rec.ct = "handshake" /\ rec.m.type = type

Hs(conn, m) == tls_verify_hash_add(tlsv1_record_send(conn, "handshake", m), m)

\* An alert is always written in the clear.
tlsv1_send_alert(conn) ==
  [conn EXCEPT !.out = <<[ct |-> "alert", from |-> conn.side, key |-> None, seq |-> 0,
                          m |-> [type |-> "Alert", what |-> conn.alert]]>>]

-----------------------------------------------------------------------------
(***************************************************************************)
(* The client: reading (tlsv1_client_read.c)                                 *)
(***************************************************************************)
ClientSuites ==
  IF cfg.canon THEN <<"ADH_AES256_SHA256", "ADH_AES256", "ADH_AES128">>
  ELSE <<"AES256_SHA256", "AES256", "AES128">>

\* eap_fast_session_ticket_cb: with a PAC the client always takes the ticket for accepted.
PacSecret(pac, conn) == <<"pac", pac, conn.srandom, conn.crandom>>

tls_process_server_hello(c, rec) ==
  IF ~ Is(rec, "ServerHello") THEN Err(c, "UNEXPECTED_MESSAGE")
  ELSE IF ~ tls_version_ok(cfg.cver, rec.m.ver) THEN Err(c, "PROTOCOL_VERSION")
  ELSE IF rec.m.suite \notin ToSet(ClientSuites) THEN Err(c, "ILLEGAL_PARAMETER")
  ELSE LET c1 == [c EXCEPT !.ver = rec.m.ver, !.srandom = rec.m.random, !.suite = rec.m.suite,
                           !.use_ticket = IF c.ticket # "" THEN TRUE ELSE @]
           c2 == IF c.ticket # "" THEN [c1 EXCEPT !.ms = PacSecret(c.ticket, c1)] ELSE c1
       IN IF c1.use_ticket THEN [DeriveKeys(c2, None) EXCEPT !.state = "SERVER_CHANGE_CIPHER_SPEC"]
          ELSE [c2 EXCEPT !.state = "SERVER_CERTIFICATE"]

tls_process_server_hello_done(c, rec) ==
  IF ~ Is(rec, "ServerHelloDone") THEN Err(c, "UNEXPECTED_MESSAGE")
  ELSE [c EXCEPT !.state = "CLIENT_KEY_EXCHANGE"]

tls_process_certificate_request(c, rec) ==
  IF Is(rec, "ServerHelloDone") THEN tls_process_server_hello_done(c, rec)
  ELSE IF ~ Is(rec, "CertificateRequest") THEN Err(c, "UNEXPECTED_MESSAGE")
  ELSE [c EXCEPT !.certreq = TRUE, !.state = "SERVER_HELLO_DONE"]

tls_process_server_key_exchange(c, rec) ==
  IF Is(rec, "CertificateRequest") THEN tls_process_certificate_request(c, rec)
  ELSE IF Is(rec, "ServerHelloDone") THEN tls_process_server_hello_done(c, rec)
  ELSE IF ~ Is(rec, "ServerKeyExchange") \/ ~ tls_server_key_exchange_allowed(c.suite)
       THEN Err(c, "UNEXPECTED_MESSAGE")
  ELSE [c EXCEPT !.dh = rec.m.ys, !.state = "SERVER_CERTIFICATE_REQUEST"]

tls_process_certificate(c, rec) ==
  IF Is(rec, "ServerKeyExchange") THEN tls_process_server_key_exchange(c, rec)
  ELSE IF Is(rec, "CertificateRequest") THEN tls_process_certificate_request(c, rec)
  ELSE IF Is(rec, "ServerHelloDone") THEN tls_process_server_hello_done(c, rec)
  ELSE IF ~ Is(rec, "Certificate") THEN Err(c, "UNEXPECTED_MESSAGE")
  ELSE LET c1 == IF rec.m.chain = <<>> THEN c ELSE [c EXCEPT !.peerkey = rec.m.chain[1].key]
           r  == x509_certificate_chain_validate(cfg.ctrusted, rec.m.chain, FALSE)
       IN IF r # "OK" THEN Err(c1, r)
          ELSE [c1 EXCEPT !.state = "SERVER_KEY_EXCHANGE", !.chain = rec.m.chain]

tls_process_server_change_cipher_spec(c, rec) ==
  IF rec.ct # "change_cipher_spec"
  THEN IF c.use_ticket        \* the ticket was not accepted: a full handshake after all
       THEN tls_process_certificate([c EXCEPT !.use_ticket = FALSE,
                                              !.state = "SERVER_CERTIFICATE"], rec)
       ELSE Err(c, "UNEXPECTED_MESSAGE")
  ELSE [tlsv1_record_change_read_cipher(c) EXCEPT !.state = "SERVER_FINISHED"]

\* A Finished message that does not verify is refused without an alert.
tls_process_server_finished(c, rec) ==
  IF ~ Is(rec, "Finished") THEN Err(c, "UNEXPECTED_MESSAGE")
  ELSE IF ~ c.verify.server THEN Err(c, "INTERNAL_ERROR")
  ELSE LET c1 == [c EXCEPT !.verify.server = FALSE]
       IN IF rec.m.verify # <<"server", c.ms, c.verify.h>> THEN [c1 EXCEPT !.ret = "err"]
          ELSE [c1 EXCEPT !.state = IF c.use_ticket THEN "CHANGE_CIPHER_SPEC" ELSE "ACK_FINISHED"]

\* Application data behind the server's Finished, in the same call.
tls_process_application_data(c, rec) ==
  IF rec.ct # "application_data" THEN Err(c, "UNEXPECTED_MESSAGE")
  ELSE [c EXCEPT !.app = <<rec.m.what>>]

tlsv1_client_process_handshake(c, rec) ==
  IF rec.ct = "alert" THEN [c EXCEPT !.state = "FAILED", !.ret = "err"]
  ELSE IF Is(rec, "HelloRequest") THEN c
  ELSE LET c1 == CASE c.state = "SERVER_HELLO" -> tls_process_server_hello(c, rec)
                   [] c.state = "SERVER_CERTIFICATE" -> tls_process_certificate(c, rec)
                   [] c.state = "SERVER_KEY_EXCHANGE" -> tls_process_server_key_exchange(c, rec)
                   [] c.state = "SERVER_CERTIFICATE_REQUEST" -> tls_process_certificate_request(c, rec)
                   [] c.state = "SERVER_HELLO_DONE" -> tls_process_server_hello_done(c, rec)
                   [] c.state = "SERVER_CHANGE_CIPHER_SPEC" -> tls_process_server_change_cipher_spec(c, rec)
                   [] c.state = "SERVER_FINISHED" -> tls_process_server_finished(c, rec)
                   [] c.state = "ACK_FINISHED" -> tls_process_application_data(c, rec)
                   [] OTHER -> [c EXCEPT !.ret = "err"]
           Hashed(x) == IF x.ret = "ok" /\ rec.ct = "handshake" THEN tls_verify_hash_add(x, rec.m) ELSE x
       IN Evaluated(c1, Hashed)

-----------------------------------------------------------------------------
(***************************************************************************)
(* The client: writing (tlsv1_client_write.c)                                *)
(***************************************************************************)
\* Fresh values: the randoms and secrets of session n.
Rnd(who, n) == <<who, n>>

tls_send_client_hello(c, n) ==
  LET c1 == [c EXCEPT !.crandom = Rnd("cr", n)]
      m  == [type |-> "ClientHello", ver |-> cfg.cver, random |-> Rnd("cr", n),
             suites |-> ClientSuites, ticket |-> c.ticket]
  IN [Hs(c1, m) EXCEPT !.state = "SERVER_HELLO"]

tls_write_client_certificate(c) ==
  Hs(c, [type |-> "Certificate", chain |-> CertChain(cfg.ccert, cfg.ctrusted)])

\* Diffie-Hellman values are the exponents they hide; the shared secret is their set.
tlsv1_key_x_anon_dh(c, n) ==
  [c |-> [DeriveKeys(c, <<"dh", {Rnd("cd", n), c.dh[1]}>>) EXCEPT !.dh = None],
   body |-> [yc |-> Rnd("cd", n)]]

tlsv1_key_x_rsa(c, n) ==
  [c |-> DeriveKeys(c, <<"rsa", cfg.cver, Rnd("pm", n)>>),
   body |-> [to |-> c.peerkey, pms |-> <<"rsa", cfg.cver, Rnd("pm", n)>>]]

tls_write_client_key_exchange(c, n) ==
  IF tls_key_exchange(c.suite) = "DH_anon"
  THEN IF c.dh = None THEN Err(c, "INTERNAL_ERROR")
       ELSE LET x == tlsv1_key_x_anon_dh(c, n)
            IN Hs(x.c, [type |-> "ClientKeyExchange", x |-> x.body])
  ELSE IF c.peerkey = "" THEN Err(c, "INTERNAL_ERROR")
       ELSE LET x == tlsv1_key_x_rsa(c, n)
            IN Hs(x.c, [type |-> "ClientKeyExchange", x |-> x.body])

tls_write_client_certificate_verify(c) ==
  IF ~ c.verify.cert THEN Err(c, "INTERNAL_ERROR")
  ELSE Hs([c EXCEPT !.verify.cert = FALSE],
          [type |-> "CertificateVerify", by |-> cfg.ckey, over |-> c.verify.h])

tls_write_client_change_cipher_spec(c) ==
  tlsv1_record_change_write_cipher(
    tlsv1_record_send(c, "change_cipher_spec", [type |-> "ChangeCipherSpec"]))

tls_write_client_finished(c) ==
  IF ~ c.verify.client THEN Err(c, "INTERNAL_ERROR")
  ELSE Hs([c EXCEPT !.verify.client = FALSE],
          [type |-> "Finished", verify |-> <<"client", c.ms, c.verify.h>>])

\* Each step of a flight is skipped once one has failed.
Then(c, F(_)) == IF c.ret = "ok" THEN F(c) ELSE c

tls_send_client_key_exchange(c, n) ==
  LET c1 == IF c.certreq THEN tls_write_client_certificate(c) ELSE c
      Kx(x) == tls_write_client_key_exchange(x, n)
      Cv(x) == IF c.certreq /\ cfg.ckey # "" THEN tls_write_client_certificate_verify(x) ELSE x
      c2 == Then(Then(Then(Then(c1, Kx), Cv), tls_write_client_change_cipher_spec),
                 tls_write_client_finished)
  IN IF c2.ret = "ok" THEN [c2 EXCEPT !.state = "SERVER_CHANGE_CIPHER_SPEC"] ELSE c2

tls_send_change_cipher_spec(c) ==
  LET c1 == Then(tls_write_client_change_cipher_spec(c), tls_write_client_finished)
  IN IF c1.ret = "ok" THEN [c1 EXCEPT !.state = "ESTABLISHED"] ELSE c1

tlsv1_client_handshake_write(c, n) ==
  CASE c.state = "CLIENT_KEY_EXCHANGE" -> tls_send_client_key_exchange(c, n)
    [] c.state = "CHANGE_CIPHER_SPEC" -> tls_send_change_cipher_spec(c)
    [] c.state = "ACK_FINISHED" -> [c EXCEPT !.state = "ESTABLISHED"]
    [] OTHER -> c

(***************************************************************************)
(* tlsv1_client_handshake: the whole records of the input one after the     *)
(* other, then the next flight.  The end of the function is common to the   *)
(* success and to the failure path: an alert level that is set fails it.    *)
(***************************************************************************)
ClientRecords(c, recs) ==
  LET Step(x, rec) ==
        IF x.ret # "ok" THEN x
        ELSE IF ~ tlsv1_record_receive(x, rec) THEN Err(x, "BAD_RECORD_MAC")
        ELSE tlsv1_client_process_handshake([x EXCEPT !.rseq = @ + 1], rec)
  IN FoldLeft(Step, c, recs)

tlsv1_client_handshake(c, recs, cut, n) ==
  LET End(x) ==
        IF x.alert # "" THEN [tlsv1_send_alert(x) EXCEPT !.state = "FAILED", !.partial = FALSE]
        ELSE [x EXCEPT !.partial = FALSE, !.out = IF x.ret = "ok" THEN @ ELSE <<>>]
      Answer(x) ==
        IF x.ret # "ok" THEN End(x)
        ELSE IF cut THEN [x EXCEPT !.partial = TRUE]
        ELSE Evaluated(tlsv1_client_handshake_write(x, n), End)
  IN Evaluated(ClientRecords(c, recs), Answer)

tlsv1_client_shutdown(c) ==
  [c EXCEPT !.state = "CLIENT_HELLO", !.verify = HashInit, !.suite = "NULL", !.wr = None,
            !.rd = None, !.wseq = 0, !.rseq = 0, !.certreq = FALSE, !.peerkey = ""]

-----------------------------------------------------------------------------
(***************************************************************************)
(* The server: reading (tlsv1_server_read.c)                                 *)
(***************************************************************************)
ServerSuites == <<"AES256", "AES128">> \o (IF cfg.sanon THEN <<"ADH_AES256", "ADH_AES128">> ELSE <<>>)

\* The version the server answers with.
NegotiatedVersion(cver) ==
  IF cfg.sver = 10 THEN 10
  ELSE IF cfg.sver = 12 /\ cver >= 12 THEN 12
  ELSE IF cver > 11 THEN 11 ELSE cver

tls_process_client_hello(s, rec) ==
  IF ~ Is(rec, "ClientHello") THEN Err(s, "UNEXPECTED_MESSAGE")
  ELSE LET common == SelectSeq(ServerSuites, LAMBDA x : x \in ToSet(rec.m.suites))
           s1 == [s EXCEPT !.cver = rec.m.ver, !.ver = NegotiatedVersion(rec.m.ver),
                           !.crandom = rec.m.random]
       IN IF rec.m.ver < 10 THEN Err(s, "PROTOCOL_VERSION")
          ELSE IF common = <<>> THEN Err(s1, "ILLEGAL_PARAMETER")
          ELSE [s1 EXCEPT !.suite = common[1], !.ticket = rec.m.ticket, !.state = "SERVER_HELLO"]

\* A pre-master secret that does not open, or names another version, is replaced by a random one.
tls_process_client_key_exchange_rsa(s, x, n) ==
  DeriveKeys(s, IF x.to = cfg.skey /\ x.pms[2] = s.cver THEN x.pms ELSE <<"rsa", 0, Rnd("sp", n)>>)

tls_process_client_key_exchange_dh_anon(s, x) ==
  IF s.dh = None THEN Err(s, "INTERNAL_ERROR")
  ELSE DeriveKeys([s EXCEPT !.dh = None], <<"dh", {x.yc, s.dh[1]}>>)

tls_process_client_key_exchange(s, rec, n) ==
  IF ~ Is(rec, "ClientKeyExchange") THEN Err(s, "UNEXPECTED_MESSAGE")
  ELSE LET s1 == IF tls_key_exchange(s.suite) = "DH_anon"
                 THEN tls_process_client_key_exchange_dh_anon(s, rec.m.x)
                 ELSE tls_process_client_key_exchange_rsa(s, rec.m.x, n)
       IN IF s1.ret = "ok" THEN [s1 EXCEPT !.state = "CERTIFICATE_VERIFY"] ELSE s1

tls_process_client_certificate(s, rec, n) ==
  IF Is(rec, "ClientKeyExchange")
  THEN IF cfg.verify_peer THEN Err(s, "UNEXPECTED_MESSAGE")
       ELSE tls_process_client_key_exchange(s, rec, n)
  ELSE IF ~ Is(rec, "Certificate") THEN Err(s, "UNEXPECTED_MESSAGE")
  ELSE LET s1 == IF rec.m.chain = <<>> THEN s ELSE [s EXCEPT !.peerkey = rec.m.chain[1].key]
           r  == x509_certificate_chain_validate(cfg.strusted, rec.m.chain, FALSE)
       IN IF r # "OK" THEN Err(s1, r)
          ELSE [s1 EXCEPT !.state = "CLIENT_KEY_EXCHANGE", !.chain = rec.m.chain]

tls_process_change_cipher_spec(s, rec) ==
  IF rec.ct # "change_cipher_spec" THEN Err(s, "UNEXPECTED_MESSAGE")
  ELSE [tlsv1_record_change_read_cipher(s) EXCEPT !.state = "CLIENT_FINISHED"]

\* Mutant: a client that sends no CertificateVerify is let through.
tls_process_certificate_verify_Optional(s, rec) ==
  IF rec.ct = "change_cipher_spec" THEN tls_process_change_cipher_spec(s, rec)
  ELSE IF ~ Is(rec, "CertificateVerify") THEN Err(s, "UNEXPECTED_MESSAGE")
  ELSE IF rec.m.by # s.peerkey \/ rec.m.over # s.verify.h THEN Err(s, "DECRYPT_ERROR")
  ELSE [s EXCEPT !.verify.cert = FALSE, !.state = "CHANGE_CIPHER_SPEC"]

tls_process_certificate_verify(s, rec) ==
  IF rec.ct = "change_cipher_spec"
  THEN IF cfg.verify_peer THEN Err(s, "UNEXPECTED_MESSAGE")
       ELSE tls_process_change_cipher_spec(s, rec)
  ELSE IF ~ Is(rec, "CertificateVerify") THEN Err(s, "UNEXPECTED_MESSAGE")
  ELSE IF ~ s.verify.cert \/ s.peerkey = "" THEN Err(s, "INTERNAL_ERROR")
  ELSE IF rec.m.by # s.peerkey \/ rec.m.over # s.verify.h
       THEN Err([s EXCEPT !.verify.cert = FALSE], "DECRYPT_ERROR")
  ELSE [s EXCEPT !.verify.cert = FALSE, !.state = "CHANGE_CIPHER_SPEC"]

tls_process_client_finished(s, rec) ==
  IF ~ Is(rec, "Finished") THEN Err(s, "UNEXPECTED_MESSAGE")
  ELSE IF ~ s.verify.client THEN Err(s, "INTERNAL_ERROR")
  ELSE LET s1 == [s EXCEPT !.verify.client = FALSE]
       IN IF rec.m.verify # <<"client", s.ms, s.verify.h>> THEN [s1 EXCEPT !.ret = "err"]
          ELSE [s1 EXCEPT !.state = IF s.use_ticket THEN "ESTABLISHED"
                                    ELSE "SERVER_CHANGE_CIPHER_SPEC"]

tlsv1_server_process_handshake(s, rec, n) ==
  IF rec.ct = "alert" THEN [s EXCEPT !.state = "FAILED", !.ret = "err"]
  ELSE LET s1 == CASE s.state = "CLIENT_HELLO" -> tls_process_client_hello(s, rec)
                   [] s.state = "CLIENT_CERTIFICATE" -> tls_process_client_certificate(s, rec, n)
                   [] s.state = "CLIENT_KEY_EXCHANGE" -> tls_process_client_key_exchange(s, rec, n)
                   [] s.state = "CERTIFICATE_VERIFY" -> tls_process_certificate_verify(s, rec)
                   [] s.state = "CHANGE_CIPHER_SPEC" -> tls_process_change_cipher_spec(s, rec)
                   [] s.state = "CLIENT_FINISHED" -> tls_process_client_finished(s, rec)
                   [] OTHER -> [s EXCEPT !.ret = "err"]
       IN IF s1.ret = "ok" /\ rec.ct = "handshake" THEN tls_verify_hash_add(s1, rec.m) ELSE s1

-----------------------------------------------------------------------------
(***************************************************************************)
(* The server: writing (tlsv1_server_write.c)                                *)
(***************************************************************************)
\* External: what the server's session_ticket_cb answers to the PAC it is shown.
session_ticket_cb(s) == s.ticket # "" /\ cfg.pac # ""

tls_write_server_hello(s, n) ==
  LET s1 == [s EXCEPT !.srandom = Rnd("sr", n)]
      s2 == IF session_ticket_cb(s)
            THEN DeriveKeys([s1 EXCEPT !.use_ticket = TRUE, !.ms = PacSecret(cfg.pac, s1)], None)
            ELSE s1
  IN Hs(s2, [type |-> "ServerHello", ver |-> s.ver, random |-> Rnd("sr", n), suite |-> s.suite])

tls_write_server_certificate(s) ==
  IF tls_key_exchange(s.suite) = "DH_anon" THEN s
  ELSE Hs(s, [type |-> "Certificate", chain |-> CertChain(cfg.scert, cfg.strusted)])

tls_write_server_key_exchange(s, n) ==
  IF ~ tls_server_key_exchange_allowed(s.suite) THEN s
  ELSE Hs([s EXCEPT !.dh = <<Rnd("sd", n)>>],
          [type |-> "ServerKeyExchange", ys |-> <<Rnd("sd", n)>>])

tls_write_server_certificate_request(s) ==
  IF ~ cfg.verify_peer THEN s ELSE Hs(s, [type |-> "CertificateRequest"])

tls_write_server_hello_done(s) == Hs(s, [type |-> "ServerHelloDone"])

tls_write_server_change_cipher_spec(s) ==
  tlsv1_record_change_write_cipher(
    tlsv1_record_send(s, "change_cipher_spec", [type |-> "ChangeCipherSpec"]))

tls_write_server_finished(s) ==
  IF ~ s.verify.server THEN Err(s, "INTERNAL_ERROR")
  ELSE Hs([s EXCEPT !.verify.server = FALSE],
          [type |-> "Finished", verify |-> <<"server", s.ms, s.verify.h>>])

tls_send_server_hello(s, n) ==
  LET s1 == tls_write_server_hello(s, n)
      sT == Then(tls_write_server_change_cipher_spec(s1), tls_write_server_finished)
      sF == tls_write_server_hello_done(tls_write_server_certificate_request(
              tls_write_server_key_exchange(tls_write_server_certificate(s1), n)))
  IN IF s1.use_ticket THEN IF sT.ret = "ok" THEN [sT EXCEPT !.state = "CHANGE_CIPHER_SPEC"] ELSE sT
     ELSE [sF EXCEPT !.state = "CLIENT_CERTIFICATE"]

tls_server_send_change_cipher_spec(s) ==
  LET s1 == Then(tls_write_server_change_cipher_spec(s), tls_write_server_finished)
  IN IF s1.ret = "ok" THEN [s1 EXCEPT !.state = "ESTABLISHED"] ELSE s1

tlsv1_server_handshake_write(s, n) ==
  CASE s.state = "SERVER_HELLO" -> tls_send_server_hello(s, n)
    [] s.state = "SERVER_CHANGE_CIPHER_SPEC" -> tls_server_send_change_cipher_spec(s)
    [] OTHER -> s

tlsv1_server_handshake(s, recs, n) ==
  LET Step(x, rec) ==
        IF x.ret # "ok" THEN x
        ELSE IF ~ tlsv1_record_receive(x, rec) THEN Err(x, "BAD_RECORD_MAC")
        ELSE tlsv1_server_process_handshake([x EXCEPT !.rseq = @ + 1], rec, n)
      End(x) ==
        IF x.alert = "" THEN [x EXCEPT !.out = IF x.ret = "ok" THEN @ ELSE <<>>]
        ELSE IF x.state = "FAILED" THEN [x EXCEPT !.out = <<>>]
        ELSE [tlsv1_send_alert(x) EXCEPT !.state = "FAILED"]
      Answer(x) == IF x.ret = "ok" THEN Evaluated(tlsv1_server_handshake_write(x, n), End) ELSE End(x)
  IN Evaluated(FoldLeft(Step, s, recs), Answer)

\* The data is cleared after the hash contexts were made anew: they are gone again.
tlsv1_server_shutdown(s) ==
  [s EXCEPT !.state = "CLIENT_HELLO", !.verify = HashFreed, !.suite = "NULL", !.wr = None,
            !.rd = None, !.wseq = 0, !.rseq = 0, !.peerkey = "", !.ticket = "",
            !.use_ticket = FALSE, !.dh = None]

-----------------------------------------------------------------------------
(***************************************************************************)
(* The system                                                               *)
(***************************************************************************)
Idle(conn) == [conn EXCEPT !.out = <<>>, !.ret = "ok", !.app = <<>>]

NoData == [c |-> 0, s |-> 0, cgot |-> 0, sgot |-> 0]

Init ==
  /\ cfg \in Configs
  /\ cli = Conn("client") /\ srv = Conn("server")
  /\ c2s = <<>> /\ s2c = <<>> /\ altered = FALSE /\ data = NoData /\ session = 0

\* tls_connection_handshake without input; the PAC was set with tlsv1_client_hello_ext.
ClientStart ==
  /\ cli.state = "CLIENT_HELLO" /\ session < NSessions
  /\ LET c == tls_send_client_hello([cli EXCEPT !.ticket = cfg.ticket], session + 1)
     IN cli' = Idle(c) /\ c2s' = c2s \o c.out
  /\ session' = session + 1
  /\ UNCHANGED <<cfg, srv, s2c, altered, data>>

\* tls_connection_handshake2: k whole records, and perhaps the beginning of the next one.
ClientRead(k, cut) ==
  /\ cli.state \notin {"CLIENT_HELLO", "ESTABLISHED"}
  /\ k <= Len(s2c) /\ (cut => k < Len(s2c)) /\ (k > 0 \/ (cut /\ ~ cli.partial))
  /\ \E c \in {tlsv1_client_handshake(cli, SubSeq(s2c, 1, k), cut, session)} :
        /\ cli' = Idle(c) /\ c2s' = c2s \o c.out
        /\ data' = [data EXCEPT !.cgot = @ + Len(c.app)]
  /\ s2c' = SubSeq(s2c, k + 1, Len(s2c))
  /\ UNCHANGED <<cfg, srv, altered, session>>

\* tls_connection_server_handshake
ServerRead(k) ==
  /\ srv.state # "ESTABLISHED" /\ k <= Len(c2s)
  /\ \E s \in {tlsv1_server_handshake(srv, SubSeq(c2s, 1, k), session)} :
        srv' = Idle(s) /\ s2c' = s2c \o s.out
  /\ c2s' = SubSeq(c2s, k + 1, Len(c2s))
  /\ UNCHANGED <<cfg, cli, altered, data, session>>

\* tls_connection_encrypt: one piece of application data each way.  EAP answers one request
\* at a time, so the client's is never behind a flight the server has not read.
tlsv1_client_encrypt ==
  /\ cli.state = "ESTABLISHED" /\ data.c = 0 /\ c2s = <<>>
  /\ LET c == tlsv1_record_send(cli, "application_data", [type |-> "Data", what |-> "c"])
     IN cli' = Idle(c) /\ c2s' = c2s \o c.out
  /\ data' = [data EXCEPT !.c = 1]
  /\ UNCHANGED <<cfg, srv, s2c, altered, session>>

tlsv1_server_encrypt ==
  /\ srv.state = "ESTABLISHED" /\ data.s = 0
  /\ LET s == tlsv1_record_send(srv, "application_data", [type |-> "Data", what |-> "s"])
     IN srv' = Idle(s) /\ s2c' = s2c \o s.out
  /\ data' = [data EXCEPT !.s = 1]
  /\ UNCHANGED <<cfg, cli, c2s, altered, session>>

\* The connection after one record of tls_connection_decrypt; a failure only sets the alert.
Decrypted(conn, rec) ==
  IF ~ tlsv1_record_receive(conn, rec) THEN Err(conn, "BAD_RECORD_MAC")
  ELSE IF rec.ct # "application_data" THEN Err([conn EXCEPT !.rseq = @ + 1], "UNEXPECTED_MESSAGE")
  ELSE [conn EXCEPT !.rseq = @ + 1, !.app = <<rec.m.what>>]

tlsv1_client_decrypt ==
  /\ cli.state = "ESTABLISHED" /\ s2c # <<>>
  /\ LET c == Decrypted(cli, Head(s2c))
     IN /\ cli' = Idle([c EXCEPT !.partial = FALSE])
        /\ data' = [data EXCEPT !.cgot = @ + Len(c.app)]
  /\ s2c' = Tail(s2c)
  /\ UNCHANGED <<cfg, srv, c2s, altered, session>>

tlsv1_server_decrypt ==
  /\ srv.state = "ESTABLISHED" /\ c2s # <<>>
  /\ LET s == Decrypted(srv, Head(c2s))
     IN srv' = Idle(s) /\ data' = [data EXCEPT !.sgot = @ + Len(s.app)]
  /\ c2s' = Tail(c2s)
  /\ UNCHANGED <<cfg, cli, s2c, altered, session>>

\* The network changes the hello: the best common suite is missing, or the ticket is.
Alter ==
  /\ AlterHello /\ ~ altered /\ c2s # <<>> /\ Is(c2s[1], "ClientHello")
  /\ \/ c2s' = [c2s EXCEPT ![1].m.suites = SelectSeq(@, LAMBDA x : x \notin {"AES256", "ADH_AES256"})]
     \/ c2s[1].m.ticket # "" /\ c2s' = [c2s EXCEPT ![1].m.ticket = ""]
  /\ altered' = TRUE
  /\ UNCHANGED <<cfg, cli, srv, s2c, data, session>>

Quiet == c2s = <<>> /\ s2c = <<>>
BothEstablished == cli.state = "ESTABLISHED" /\ srv.state = "ESTABLISHED"

\* tls_connection_shutdown: the client's connection object is used for the next session.
\* The server makes a new one, unless it too is reused.
Shutdown ==
  /\ Quiet /\ 0 < session /\ session < NSessions /\ cli.state # "CLIENT_HELLO"
  /\ ReuseFailed \/ BothEstablished
  /\ cli' = tlsv1_client_shutdown(cli)
  /\ srv' \in {Conn("server")} \cup (IF ReuseFailed THEN {tlsv1_server_shutdown(srv)} ELSE {})
  /\ cfg' \in {cfg} \cup {x \in Configs : x.base}
  /\ altered' = FALSE /\ data' = NoData
  /\ UNCHANGED <<c2s, s2c, session>>

Next ==
  \/ ClientStart
  \/ \E k \in 0 .. 8, cut \in BOOLEAN : ClientRead(k, cut)
  \/ \E k \in 1 .. 6 : ServerRead(k)
  \/ tlsv1_client_encrypt \/ tlsv1_server_encrypt
  \/ tlsv1_client_decrypt \/ tlsv1_server_decrypt
  \/ Alter
  \/ Shutdown

Spec == Init /\ [][Next]_vars

-----------------------------------------------------------------------------
(***************************************************************************)
(* Properties                                                               *)
(***************************************************************************)
(* A side that calls the connection established has the peer's master       *)
(* secret, suite, version and keys, and the hello of this session was not   *)
(* changed on its way: the Finished messages are checked over the           *)
(* transcript before tlsv1_client_established or tlsv1_server_established    *)
(* says so, in a full handshake, with a ticket, and when a ticket that was   *)
(* not accepted makes a client fall back.                                   *)
EstablishedAgree ==
  cli.state = "ESTABLISHED" \/ srv.state = "ESTABLISHED" =>
    /\ ~ altered
    /\ <<cli.ms, cli.suite, cli.ver, cli.kb>> = <<srv.ms, srv.suite, srv.ver, srv.kb>>

(* No side calls a connection established whose peer it had to authenticate *)
(* and did not: the client's key exchange goes to a key the anchors         *)
(* certified and the server holds, and a server with verify_peer has seen a *)
(* certified chain and a CertificateVerify by its key.                      *)
PeerAuthenticated ==
  /\ cli.state = "ESTABLISHED" /\ ~ cli.use_ticket /\ tls_key_exchange(cli.suite) = "RSA" =>
       /\ cfg.ctrusted = <<>> \/ Certified(cfg.ctrusted, cli.chain, FALSE)
       /\ cli.chain # <<>> /\ cli.chain[1].key = cfg.skey
  /\ srv.state = "ESTABLISHED" /\ ~ srv.use_ticket /\ cfg.verify_peer =>
       /\ cfg.strusted = <<>> \/ Certified(cfg.strusted, srv.chain, FALSE)
       /\ srv.chain # <<>> /\ srv.chain[1].key = cfg.ckey

\* The configurations two conforming peers succeed with.
Compatible ==
  LET common == SelectSeq(ServerSuites, LAMBDA x : x \in ToSet(ClientSuites))
      sent   == CertChain(cfg.scert, cfg.strusted)
      csent  == CertChain(cfg.ccert, cfg.ctrusted)
      byPac  == cfg.ticket # "" /\ cfg.pac # ""
  IN /\ common # <<>>
     /\ byPac => cfg.ticket = cfg.pac
     /\ ~ byPac /\ tls_key_exchange(common[1]) = "RSA" =>
          /\ sent # <<>> /\ sent[1].key = cfg.skey
          /\ x509_certificate_chain_validate(cfg.ctrusted, sent, FALSE) = "OK"
     /\ ~ byPac /\ cfg.verify_peer =>
          /\ csent # <<>> /\ csent[1].key = cfg.ckey
          /\ x509_certificate_chain_validate(cfg.strusted, csent, FALSE) = "OK"

(* Once nothing is on its way, a session between compatible sides whose     *)
(* hello was not altered has established both, however the stream was cut   *)
(* into reads and whatever session the client's connection object served    *)
(* before; and all application data has arrived.                            *)
CompatibleSucceed ==
  Quiet /\ cli.state # "CLIENT_HELLO" /\ ~ altered /\ Compatible =>
    /\ BothEstablished
    /\ data.cgot = data.s /\ data.sgot = data.c

=============================================================================
