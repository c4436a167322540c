----------------------------- MODULE X509Chain -----------------------------
(***************************************************************************)
(* The path validation of wpa_supplicant's own X.509 code                   *)
(* (common/wpa_supplicant/src/tls/x509v3.c) and the certificate lists of    *)
(* tlsv1_cred.c.  A certificate is a record:                                *)
(*   subject, issuer   names (compared after case and white space folding)  *)
(*   key               the public key it carries                            *)
(*   signer, alg, dig  the key its signature decrypts under, the algorithm  *)
(*                     of the to-be-signed part, the digest of the signature *)
(*   v3, bc, plen, ku  version 3?, basic constraints ("none", "ca",         *)
(*                     "leaf"), path length (-1: none), key usage           *)
(*                     ("none", "sign", "other")                            *)
(*   fresh             the present time lies between its two dates          *)
(* Public-key operations are symbolic: a signature decrypts under the key   *)
(* that made it and under no other.                                         *)
(***************************************************************************)
EXTENDS Integers, Sequences, FiniteSets, SequencesExt

\* F(e), with e evaluated once.
Evaluated(e, F(_)) == CHOOSE z \in {F(y) : y \in {e}} : z = z

Digests == {"md5", "sha1", "sha256", "sha384", "sha512"}

x509_name_compare(a, b) == a = b

x509_certificate_self_signed(cert) == x509_name_compare(cert.issuer, cert.subject)

x509_valid_issuer(cert) ==
  /\ cert.bc # "leaf"
  /\ cert.v3 => cert.bc # "none"
  /\ cert.ku # "none" => cert.ku = "sign"

\* The DigestInfo inside the signature names the digest of the algorithm, and holds its value.
DigestInfo(cert) == cert.dig = cert.alg

x509_certificate_check_signature(issuer, cert) ==
  /\ cert.alg \in Digests             \* PKCS #1 with a digest that is supported
  /\ cert.signer = issuer.key         \* crypto_public_key_decrypt_pkcs1
  /\ DigestInfo(cert)

\* The first certificate of the list with the name, or 0.
SubjectIndex(list, name) ==
  LET I == {i \in DOMAIN list : x509_name_compare(list[i].subject, name)}
  IN IF I = {} THEN 0 ELSE CHOOSE i \in I : \A j \in I : i <= j

(***************************************************************************)
(* One certificate of x509_certificate_chain_validate: `res` is "go" until  *)
(* the chain is trusted or refused.                                         *)
(***************************************************************************)
Link(chain, idx) ==
  LET cert == chain[idx]  next == chain[idx + 1]
  IN IF ~ x509_name_compare(cert.issuer, next.subject) THEN "CERTIFICATE_UNKNOWN"
     ELSE IF \/ ~ x509_valid_issuer(next)
             \/ next.plen >= 0 /\ idx - 1 > next.plen
             \/ ~ x509_certificate_check_signature(next, cert)
          THEN "BAD_CERTIFICATE" ELSE "go"

ValidateStep(trusted, chain, idx, disable_time_checks) ==
  LET cert == chain[idx]
      link == IF idx < Len(chain) THEN Link(chain, idx) ELSE "go"
      t    == SubjectIndex(trusted, cert.issuer)
  IN IF ~ disable_time_checks /\ ~ cert.fresh THEN "CERTIFICATE_EXPIRED"
     ELSE IF link # "go" THEN link
     ELSE IF t = 0 THEN "go"
     ELSE IF /\ x509_valid_issuer(trusted[t])
             /\ x509_certificate_check_signature(trusted[t], cert)
          THEN "OK" ELSE "BAD_CERTIFICATE"

x509_certificate_chain_validate(trusted, chain, disable_time_checks) ==
  LET Step(res, idx) == IF res = "go" THEN ValidateStep(trusted, chain, idx, disable_time_checks)
                        ELSE res
      res == FoldLeft(Step, "go", [i \in DOMAIN chain |-> i])
  IN IF res # "go" THEN res ELSE IF trusted = <<>> THEN "OK" ELSE "UNKNOWN_CA"

(***************************************************************************)
(* The lists of tlsv1_cred.c: a certificate follows the last one when it is *)
(* its issuer, and goes to the front otherwise.                             *)
(***************************************************************************)
tlsv1_add_cert_der(chain, cert) ==
  IF chain # <<>> /\ x509_name_compare(cert.subject, Last(chain).issuer)
  THEN Append(chain, cert) ELSE <<cert>> \o chain

tlsv1_add_cert(file) == FoldLeft(tlsv1_add_cert_der, <<>>, file)

(***************************************************************************)
(* What tls_write_client_certificate and tls_write_server_certificate put   *)
(* on the wire: the end entity's certificate, then issuer after issuer out  *)
(* of the trusted ones, up to a self-signed one or the first unknown one.   *)
(* Bound: MaxSent certificates (an issuer loop would go on for ever).       *)
(***************************************************************************)
MaxSent == 4

CertChain(cert, trusted) ==
  LET Step(c, i) ==
        LET t == SubjectIndex(trusted, Last(c).issuer)
        IN IF x509_certificate_self_signed(Last(c)) \/ t = 0 THEN c ELSE Append(c, trusted[t])
  IN IF cert = <<>> THEN <<>> ELSE FoldLeft(Step, <<cert[1]>>, [i \in 1 .. MaxSent |-> i])

-----------------------------------------------------------------------------
(***************************************************************************)
(* The reference: who really certified a key.  A key is good for `n` more   *)
(* certificates below it when it belongs to an anchor, or to a certificate  *)
(* of the chain that a good key signed, that is in its dates, that may      *)
(* certify and whose own limit allows it.                                   *)
(***************************************************************************)
MayCertify(c, below) == x509_valid_issuer(c) /\ (c.plen >= 0 => below <= c.plen)

Certified(trusted, chain, disable_time_checks) ==
  LET Signed(c, k) == c.signer = k /\ c.dig = c.alg /\ c.alg \in Digests
      InDate(c)    == disable_time_checks \/ c.fresh
      Anchored(c)  == \E t \in ToSet(trusted) : /\ t.subject = c.issuer
                                                /\ x509_valid_issuer(t) /\ Signed(c, t.key)
  IN \E n \in DOMAIN chain :
        /\ Anchored(chain[n])
        /\ \A i \in 1 .. n : InDate(chain[i])
        /\ \A i \in 1 .. n - 1 : /\ Signed(chain[i], chain[i + 1].key)
                                 /\ chain[i].issuer = chain[i + 1].subject
                                 /\ MayCertify(chain[i + 1], i - 1)
=============================================================================
