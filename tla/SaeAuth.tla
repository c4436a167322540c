------------------------------ MODULE SaeAuth -------------------------------
(***************************************************************************)
(* WPA3 authentication of the station: the SAE computations (common/sae.c), *)
(* the state machine the Wi-Fi driver calls (esp_wpa3.c) and the PMKSA      *)
(* cache that lets later associations skip it (PmksaCache).                 *)
(*                                                                          *)
(* External: the driver (connects, sends, hands over what it receives,      *)
(* times out, reports a disconnection), and access points, which use the    *)
(* functions of sae.c in the order of the tests.  Frames are lost, repeated,*)
(* late, or heard by their sender.  The expiry timer's callback runs in     *)
(* another task than all this and takes no lock.                            *)
(*                                                                          *)
(* The group is written additively: passwords that hash to different        *)
(* elements give independent ones, so an element is a vector of multiples   *)
(* (modulo the order) of the password elements.  Hashes are injective.      *)
(***************************************************************************)
EXTENDS Integers, Sequences, FiniteSets, FiniteSetsExt, PmksaCache

CONSTANTS
  Sta,                   \* the station's address, a number
  Aps,                   \* addresses of the access points
  Hash(_),               \* HMAC of <<key, password, identifier, counter>>: [val, odd]
  Prime, CoefA, CoefB,   \* the curve of group 19
  FfcPrime, FfcOrder,    \* a group of integers modulo a prime
  SafePrime,             \* is FfcPrime a safe prime?
  Order,                 \* of the elements both groups generate
  MaxLoops,              \* bound of the search for a password element (200 in the code)
  StaDraws, ApDraws,     \* the pairs <<rand, mask>> drawn
  Configs,               \* [group, pw, apGroups, apPw, apId, token, skip], and bounds: [faults, leaves, time]
  MaxTries               \* attempts within which the station connects when nothing disturbs it

VARIABLES
  cfg,
  pwe,               \* the password elements: <<group, access point, side>> -> those it may derive
  g_sae_data,
  g_sae_token,       \* 0 is NULL
  sm, ssid, bssid,   \* struct wpa_sm
  drv,               \* the driver: "idle", "commit", "token" (a token came), "confirm", "assoc", "up"
  expiry,            \* pmksa_cache_expire: <<>> (not running), <<now_sec>> or <<now_sec, entry>>
  ap,                \* access point -> [sae, pmksa, ssid]
  toAp, toSta,       \* the frames on their way
  late,              \* copies that arrive later: <<address, frame>>
  now, faults, leaves,
  tries,             \* attempts to connect since anything disturbed the station
  confirmed          \* history: access point -> the PMKs it has confirmed

staVars == <<g_sae_data, g_sae_token, sm, ssid, bssid, drv>>
netVars == <<toAp, toSta, late>>
vars == <<cfg, pwe, staVars, expiry, ap, netVars, now, faults, leaves, tries, confirmed>>

Ecc == 19
Ffc == 5

-----------------------------------------------------------------------------
(***************************************************************************)
(* The password element: hunting and pecking.                               *)
(***************************************************************************)
sae_pwd_seed_key(addr1, addr2) == IF addr1 > addr2 THEN <<addr1, addr2>> ELSE <<addr2, addr1>>

PowMod(b, e, p) == LET f[k \in 0 .. e] == IF k = 0 THEN 1 % p ELSE (f[k - 1] * b) % p IN f[e]

Legendre(n) == LET l == PowMod(n, (Prime - 1) \div 2, Prime) IN IF l = Prime - 1 THEN -1 ELSE l

get_random_qr_qnr == {q \in (1 .. Prime - 1) \X (1 .. Prime - 1) : Legendre(q[1]) = 1 /\ Legendre(q[2]) = -1}

\* With blinding factor r, and a residue or a nonresidue that r chooses.
is_quadratic_residue_blind(q, r, y) ==
  IF r % 2 = 1 THEN Legendre((y * r * r * q[1]) % Prime) = 1 ELSE Legendre((y * r * r * q[2]) % Prime) = -1

sae_test_pwd_seed_ecc(x, q, r) ==
  x < Prime /\ is_quadratic_residue_blind(q, r, (x * x * x + CoefA * x + CoefB) % Prime)

\* The elements that may come out, over the random numbers of the blinding: one each.
\* After the first success a dummy password is hashed, whose results are dropped.
sae_derive_pwe_ecc(key, pw, id) ==
  LET seed(c) == Hash(<<key, pw, id, c>>)
      can(c, q, res) == \E r \in 1 .. Prime - 1 : sae_test_pwd_seed_ecc(seed(c).val, q, r) = res
      ends(q) == {c \in 1 .. MaxLoops : can(c, q, TRUE) /\ \A d \in 1 .. c - 1 : can(d, q, FALSE)}
  IN  {<<seed(c).val, seed(c).odd>> : c \in UNION {ends(q) : q \in get_random_qr_qnr}}

sae_test_pwd_seed_ffc(v) == PowMod(v, IF SafePrime THEN 2 ELSE (FfcPrime - 1) \div FfcOrder, FfcPrime)

sae_derive_pwe_ffc(key, pw, id) ==
  LET val(c) == Hash(<<key, pw, id, c>>).val
      hits == {c \in 1 .. MaxLoops : val(c) < FfcPrime /\ sae_test_pwd_seed_ffc(val(c)) \notin {0, 1}}
  IN  IF hits = {} THEN {} ELSE {<<sae_test_pwd_seed_ffc(val(Min(hits))), 2>>}

PweOf(group, addr, pw, id) ==
  IF group = Ecc THEN sae_derive_pwe_ecc(sae_pwd_seed_key(Sta, addr), pw, id)
  ELSE sae_derive_pwe_ffc(sae_pwd_seed_key(addr, Sta), pw, id)

-----------------------------------------------------------------------------
\* F of the value of e, which is computed once.
With(e, F(_)) == CHOOSE z \in {F(y) : y \in {e}} : z = z

\* Elements of the group: password element -> multiple, those that are not 0.
Times(P, k) == [b \in DOMAIN P |-> (P[b] * k) % Order]
Plus(P, Q) ==
  LET at(R, b) == IF b \in DOMAIN R THEN R[b] ELSE 0
      sum == [b \in DOMAIN P \cup DOMAIN Q |-> (at(P, b) + at(Q, b)) % Order]
  IN  Restrict(sum, {b \in DOMAIN sum : sum[b] # 0})
Negative(P) == Times(P, Order - 1)
Element(e) == [b \in {e} |-> 1]
IsZero(P) == DOMAIN P = {}

(***************************************************************************)
(* struct sae_data, [state, group, tmp, peer, pmk, pmkid, sc]: tmp is <<>>   *)
(* or <<[pwe, rand, scalar, element, peerElement, kck, id]>>, where scalar  *)
(* -1 and element <<>> are NULL, peer is peer_commit_scalar and sc is       *)
(* send_confirm.                                                            *)
(***************************************************************************)
sae_clear_data ==
  [state |-> "nothing", group |-> 0, tmp |-> <<>>, peer |-> -1, pmk |-> <<>>, pmkid |-> 0, sc |-> 0]

sae_set_group(group) ==
  [sae_clear_data EXCEPT !.group = group,
     !.tmp = <<[pwe |-> <<>>, rand |-> 0, scalar |-> -1, element |-> <<>>, peerElement |-> <<>>, kck |-> <<>>, id |-> 0]>>]

\* The scalar and element for a pair drawn; others are drawn when the scalar is 0 or 1.
sae_derive_commit(sae, e, draw) ==
  [sae EXCEPT !.tmp[1].pwe = e, !.tmp[1].rand = draw[1], !.tmp[1].scalar = (draw[1] + draw[2]) % Order,
              !.tmp[1].element = Negative(Times(Element(e), draw[2]))]

\* side: whose password, "sta" or "ap".
sae_prepare_commit(sae, addr, side, draws) ==
  {sae_derive_commit(sae, e, d) :
     e \in pwe[<<sae.group, addr, side>>], d \in {e \in draws : (e[1] + e[2]) % Order \notin {0, 1}}}

sae_write_commit(sae, token, id) ==
  [type |-> "commit", status |-> "ok", group |-> sae.group, token |-> token, scalar |-> sae.tmp[1].scalar,
   element |-> sae.tmp[1].element, id |-> id]

\* The functions of the parser return [ok, sae]; what was parsed before an error stays.
Parsed(ok, sae) == [ok |-> ok, sae |-> sae]

sae_group_allowed(sae, allowed, group) ==
  IF group \notin allowed \/ (sae.state = "committed" /\ group # sae.group) THEN Parsed(FALSE, sae)
  ELSE IF group # sae.group THEN Parsed(TRUE, sae_set_group(group)) ELSE Parsed(sae.tmp # <<>>, sae)

sae_parse_commit_scalar(sae, scalar) ==
  IF (sae.state = "accepted" /\ sae.peer = scalar) \/ scalar \in {0, 1} \/ scalar >= Order THEN Parsed(FALSE, sae)
  ELSE Parsed(TRUE, [sae EXCEPT !.peer = scalar])

sae_parse_commit_element(sae, element) == Parsed(~IsZero(element), [sae EXCEPT !.tmp[1].peerElement = element])

sae_parse_password_identifier(sae, id) ==
  IF sae.tmp[1].id # 0 /\ id # sae.tmp[1].id THEN Parsed(FALSE, sae) ELSE Parsed(TRUE, [sae EXCEPT !.tmp[1].id = id])

Reflected(sae) == sae.tmp[1].scalar = sae.peer /\ sae.tmp[1].element = sae.tmp[1].peerElement

AndThen(p, F(_)) == With(p, LAMBDA r : IF r.ok THEN F(r.sae) ELSE r)

Fields(sae, m, allowed) ==
  AndThen(AndThen(AndThen(sae_group_allowed(sae, allowed, m.group),
                          LAMBDA s : sae_parse_commit_scalar(s, m.scalar)),
                  LAMBDA s : sae_parse_commit_element(s, m.element)),
          LAMBDA s : sae_parse_password_identifier(s, m.id))

sae_parse_commit(sae, m, allowed) == AndThen(Fields(sae, m, allowed), LAMBDA s : Parsed(~Reflected(s), s))

\* The shared secret; of a point only the first coordinate counts.
sae_derive_k(sae) ==
  LET t == sae.tmp[1]
      K == Times(Plus(Times(Element(t.pwe), sae.peer), t.peerElement), t.rand)
  IN  IF IsZero(K) THEN {} ELSE IF sae.group = Ecc THEN {K, Negative(K)} ELSE {K}

sae_derive_keys(sae, k) ==
  LET sum == (sae.tmp[1].scalar + sae.peer) % Order
  IN  [sae EXCEPT !.tmp[1].kck = <<k, sum>>, !.pmk = <<k, sum>>, !.pmkid = sum]

sae_process_commit(sae) ==
  With(sae_derive_k(sae), LAMBDA k : IF k = {} THEN Parsed(FALSE, sae) ELSE Parsed(TRUE, sae_derive_keys(sae, k)))

sae_cn_confirm(kck, sc, scalar1, element1, scalar2, element2) == <<kck, sc, scalar1, element1, scalar2, element2>>

sae_write_confirm(sae) ==
  LET t == sae.tmp[1]
  IN  [type |-> "confirm", sc |-> sae.sc, confirm |-> sae_cn_confirm(t.kck, sae.sc, t.scalar, t.element, sae.peer, t.peerElement)]

Confirming(sae) == [sae EXCEPT !.sc = IF @ < 65535 THEN @ + 1 ELSE @]

sae_check_confirm(sae, m) ==
  /\ sae.tmp # <<>>
  /\ m.confirm = sae_cn_confirm(sae.tmp[1].kck, m.sc, sae.peer, sae.tmp[1].peerElement, sae.tmp[1].scalar, sae.tmp[1].element)

-----------------------------------------------------------------------------
(***************************************************************************)
(* The station.                                                             *)
(***************************************************************************)
esp_wpa3_free_sae_data == g_sae_data' = sae_clear_data

wpa_sta_cur_pmksa_matches_akm(s) == s.cur # <<>>

\* The commits that may be built, with g_sae_data and the frame: none on failure.  With a
\* token the data are those of the commit it answers, when they have not been freed.
wpa3_build_sae_commit(sae, aa, token) ==
  LET fresh == sae_prepare_commit(sae_set_group(cfg.group), aa, "sta", StaDraws)
      built == IF token # 0 THEN IF sae.tmp = <<>> THEN {} ELSE {sae} ELSE fresh
  IN  {<<[s EXCEPT !.state = "committed"], sae_write_commit(s, token, 0)>> : s \in built}

\* The caches of the association that starts; with an SSID of its own or caching off the entry goes.
wpa_set_bss(s, aa, name) ==
  LET use == ~(bssid = aa /\ ssid # name) /\ ~cfg.skip
      entry == pmksa_cache_get(s, aa, 0)
  IN  IF use THEN wpa_sm_set_pmk_from_pmksa(pmksa_cache_set_current(s, aa))
      ELSE IF entry = <<>> THEN s
      \* The PMK is that of the entry, which is freed.
      ELSE pmksa_cache_flush(s, LAMBDA t : IF Contains(t.cache, entry[1]) THEN entry[1].pmk ELSE <<0>>)

\* Every reason but an orderly leave; s is the state machine so far.  The token stays.  A
\* deauthentication asked of a link that is down does nothing.
wpa_sta_disconnected_cb(s) ==
  /\ esp_wpa3_free_sae_data
  /\ sm' = [wpa_sta_clear_curr_pmksa(s) EXCEPT !.deauth = FALSE]
  /\ drv' = "idle"
  /\ UNCHANGED g_sae_token

\* The driver asks for a commit to aa (wpa3_build_sae_msg) and sends it.  The token is used up.
CommitSent(s, aa) ==
  \E b \in wpa3_build_sae_commit(g_sae_data, aa, g_sae_token) :
    /\ g_sae_data' = b[1] /\ g_sae_token' = 0 /\ toAp' = Append(toAp, b[2])
    /\ sm' = s /\ drv' = "commit"

wpa_sta_connect(aa) ==
  /\ drv = "idle" /\ toAp = <<>> /\ toSta = <<>>
  /\ bssid' = aa /\ ssid' = ap[aa].ssid /\ tries' = IF tries > MaxTries THEN tries ELSE tries + 1
  /\ \E s \in {wpa_set_bss(sm, aa, ap[aa].ssid)} :
       IF wpa_sta_cur_pmksa_matches_akm(s)
       THEN sm' = s /\ drv' = "assoc" /\ UNCHANGED <<g_sae_data, g_sae_token, toAp>>
       ELSE IF wpa3_build_sae_commit(g_sae_data, aa, g_sae_token) # {} THEN CommitSent(s, aa)
       ELSE wpa_sta_disconnected_cb(s) /\ UNCHANGED toAp
  /\ UNCHANGED <<cfg, pwe, expiry, ap, toSta, late, now, faults, leaves, confirmed>>

\* A token request: the token is kept until the driver asks for a commit again.
wpa3_parse_token(m) ==
  /\ g_sae_token' = m.token /\ drv' = "token"
  /\ UNCHANGED <<g_sae_data, sm, ssid, bssid, toAp>>

CommitAgain ==
  /\ drv = "token"
  /\ CommitSent(sm, bssid)
  /\ UNCHANGED <<cfg, pwe, ssid, bssid, expiry, ap, toSta, late, now, faults, leaves, tries, confirmed>>

\* A commit: when it is good a confirm follows.
wpa3_parse_sae_commit(m) ==
  IF g_sae_data.state # "committed" THEN UNCHANGED <<staVars, toAp>>
  ELSE IF m.status = "token" THEN wpa3_parse_token(m)
  ELSE \E p \in {AndThen(sae_parse_commit(g_sae_data, m, {cfg.group}), sae_process_commit)} :
         IF p.ok
         THEN /\ g_sae_data' = [Confirming(p.sae) EXCEPT !.state = "confirmed"]
              /\ toAp' = Append(toAp, sae_write_confirm(p.sae))
              /\ drv' = "confirm"
              /\ UNCHANGED <<g_sae_token, sm, ssid, bssid>>
         ELSE g_sae_data' = p.sae /\ UNCHANGED <<g_sae_token, sm, ssid, bssid, drv, toAp>>

\* A confirm ends the exchange, well or not.
wpa3_parse_sae_confirm(m) ==
  /\ UNCHANGED <<g_sae_token, ssid, bssid, toAp>>
  /\ esp_wpa3_free_sae_data
  /\ IF g_sae_data.state = "confirmed" /\ sae_check_confirm(g_sae_data, m)
     THEN /\ sm' = pmksa_cache_add([sm EXCEPT !.pmk = g_sae_data.pmk], bssid, g_sae_data.pmk, g_sae_data.pmkid, now)
          /\ drv' = "assoc"
     ELSE UNCHANGED <<sm, drv>>

\* The driver hands over authentication frames while it authenticates.
wpa3_parse_sae_msg(m) ==
  IF drv \notin {"commit", "token", "confirm"} THEN UNCHANGED <<staVars, toAp>>
  ELSE IF m.type = "commit" THEN wpa3_parse_sae_commit(m) ELSE wpa3_parse_sae_confirm(m)

StaReceive ==
  /\ toSta # <<>>
  /\ wpa3_parse_sae_msg(toSta[1])
  /\ toSta' = Tail(toSta)
  /\ UNCHANGED <<cfg, pwe, expiry, ap, late, now, faults, leaves, tries, confirmed>>

-----------------------------------------------------------------------------
(***************************************************************************)
(* An access point.                                                         *)
(***************************************************************************)
ApCommit(a, m) ==
  IF cfg.token /\ m.token # a
  THEN toSta' = Append(toSta, [m EXCEPT !.status = "token", !.token = a]) /\ UNCHANGED <<ap, confirmed>>
  ELSE \E p \in {sae_parse_commit(sae_clear_data, m, cfg.apGroups)} :
         IF ~p.ok THEN UNCHANGED <<ap, toSta, confirmed>>
         ELSE \E s \in sae_prepare_commit(p.sae, a, "ap", ApDraws) : \E k \in {sae_process_commit(s)} :
                IF ~k.ok THEN UNCHANGED <<ap, toSta, confirmed>>
                ELSE /\ ap' = [ap EXCEPT ![a].sae = [k.sae EXCEPT !.state = "committed"]]
                     /\ toSta' = Append(toSta, sae_write_commit(k.sae, 0, cfg.apId))
                     /\ UNCHANGED confirmed

ApConfirm(a, m) ==
  LET s == ap[a].sae
  IN  IF s.state = "committed" /\ sae_check_confirm(s, m)
      THEN /\ ap' = [ap EXCEPT ![a].sae = [Confirming(s) EXCEPT !.state = "accepted"],
                               ![a].pmksa = <<s.pmkid, s.pmk>>]
           /\ toSta' = Append(toSta, sae_write_confirm(s))
           /\ confirmed' = [confirmed EXCEPT ![a] = @ \cup {s.pmk}]
      ELSE UNCHANGED <<ap, toSta, confirmed>>

ApHandle(a, m) == IF m.type = "commit" THEN ApCommit(a, m) ELSE ApConfirm(a, m)

ApReceive ==
  /\ toAp # <<>>
  /\ ApHandle(bssid, toAp[1])
  /\ toAp' = Tail(toAp)
  /\ UNCHANGED <<cfg, pwe, staVars, expiry, late, now, faults, leaves, tries>>

\* Association and 4-way handshake.  The access point knows the PMK by the PMKID of the
\* association request, or as that of the authentication.
Associate ==
  LET pmksa == ap[bssid].pmksa
      known == pmksa # <<>> /\ (sm.cur = <<>> \/ sm.cur[1].pmkid = pmksa[1])
      s == wpa_supplicant_get_pmk(sm, bssid, pmksa[1])
  IN  /\ drv = "assoc" /\ ~sm.deauth
      /\ IF known /\ s.pmk = pmksa[2]
         THEN sm' = s /\ drv' = "up" /\ tries' = 0 /\ UNCHANGED <<g_sae_data, g_sae_token>>
         ELSE wpa_sta_disconnected_cb(sm) /\ UNCHANGED tries
      /\ UNCHANGED <<cfg, pwe, ssid, bssid, expiry, ap, netVars, now, faults, leaves, confirmed>>

-----------------------------------------------------------------------------
(***************************************************************************)
(* The driver's timeout, the link, time and restarts.                       *)
(***************************************************************************)
Timeout ==
  /\ drv \in {"commit", "token", "confirm"}
  /\ toAp = <<>> /\ toSta = <<>>
  /\ wpa_sta_disconnected_cb(sm)
  /\ UNCHANGED <<cfg, pwe, ssid, bssid, expiry, ap, netVars, now, faults, leaves, tries, confirmed>>

\* wpa_sm_deauthenticate.
Deauth ==
  /\ sm.deauth
  /\ wpa_sta_disconnected_cb(sm)
  /\ toAp' = <<>> /\ toSta' = <<>>
  /\ UNCHANGED <<cfg, pwe, ssid, bssid, expiry, ap, late, now, faults, leaves, tries, confirmed>>

Leave ==
  /\ drv = "up" /\ leaves < cfg.leaves
  /\ drv' = "idle" /\ leaves' = leaves + 1 /\ tries' = 0
  /\ UNCHANGED <<cfg, pwe, g_sae_data, g_sae_token, sm, ssid, bssid, expiry, ap, netVars, now, faults, confirmed>>

\* The esp_timer task: the callback takes an entry out of the list, frees it, and so on,
\* and arms the timer for the next one.
TimerDue == sm.timer # 0 /\ now >= sm.timer

ExpiryStep(s, e) ==
  /\ sm' = s /\ expiry' = e /\ tries' = 0
  /\ UNCHANGED <<cfg, pwe, g_sae_data, g_sae_token, ssid, bssid, drv, ap, netVars, now, faults, leaves, confirmed>>

TimerFires == expiry = <<>> /\ TimerDue /\ ExpiryStep([sm EXCEPT !.timer = 0], <<now>>)

ExpireTakes ==
  /\ Len(expiry) = 1 /\ pmksa_cache_expire(sm, expiry[1])
  /\ ExpiryStep(Unlink(sm, Head(sm.cache)), <<expiry[1], Head(sm.cache)>>)

ExpireFrees ==
  /\ Len(expiry) = 2
  /\ ExpiryStep(pmksa_cache_free_entry(sm, expiry[2], "expire"), <<expiry[1]>>)

ExpireEnds ==
  /\ Len(expiry) = 1 /\ ~pmksa_cache_expire(sm, expiry[1])
  /\ ExpiryStep(pmksa_cache_set_expiration(sm, now), <<>>)

\* esp_timer runs the callback when it is due.
Tick ==
  /\ now < cfg.time /\ ~TimerDue /\ expiry = <<>>
  /\ now' = now + 1 /\ tries' = 0
  /\ UNCHANGED <<cfg, pwe, staVars, expiry, ap, netVars, faults, leaves, confirmed>>

Fault == faults < cfg.faults /\ faults' = faults + 1 /\ tries' = 0

Lose ==
  /\ Fault
  /\ \/ toAp # <<>> /\ toAp' = Tail(toAp) /\ UNCHANGED toSta
     \/ toSta # <<>> /\ toSta' = Tail(toSta) /\ UNCHANGED toAp
  /\ UNCHANGED <<cfg, pwe, staVars, expiry, ap, late, now, leaves, confirmed>>

\* A copy will arrive later, or the sender hears its own frame.
Repeat ==
  /\ Fault
  /\ \/ toAp # <<>> /\ \E to \in {bssid, Sta} : late' = late \cup {<<to, toAp[1]>>}
     \/ toSta # <<>> /\ late' = late \cup {<<Sta, toSta[1]>>}
  /\ UNCHANGED <<cfg, pwe, staVars, expiry, ap, toAp, toSta, now, leaves, confirmed>>

LateArrival ==
  /\ \E l \in late :
       /\ late' = late \ {l} /\ tries' = 0
       /\ IF l[1] = Sta THEN wpa3_parse_sae_msg(l[2]) /\ UNCHANGED <<ap, toSta, confirmed>>
          ELSE ApHandle(l[1], l[2]) /\ UNCHANGED <<staVars, toAp>>
  /\ UNCHANGED <<cfg, pwe, expiry, now, faults, leaves>>

\* An access point starts again: it knows no PMK, and may have another SSID.
ApRestart(a) ==
  /\ Fault
  /\ \E name \in {1, 2} : ap' = [ap EXCEPT ![a] = [sae |-> sae_clear_data, pmksa |-> <<>>, ssid |-> name]]
  /\ UNCHANGED <<cfg, pwe, staVars, expiry, netVars, now, leaves, confirmed>>

Init ==
  /\ cfg \in Configs
  /\ pwe = [x \in {Ecc, Ffc} \X Aps \X {"sta", "ap"} |->
             IF x[3] = "sta" THEN PweOf(x[1], x[2], cfg.pw, 0) ELSE PweOf(x[1], x[2], cfg.apPw, cfg.apId)]
  /\ g_sae_data = sae_clear_data /\ g_sae_token = 0 /\ expiry = <<>>
  /\ sm = EmptySm /\ ssid = 0 /\ bssid = 0 /\ drv = "idle"
  /\ ap = [a \in Aps |-> [sae |-> sae_clear_data, pmksa |-> <<>>, ssid |-> 1]]
  /\ toAp = <<>> /\ toSta = <<>> /\ late = {}
  /\ now = 0 /\ faults = 0 /\ leaves = 0 /\ tries = 0
  /\ confirmed = [a \in Aps |-> {}]

Progress ==
  \/ \E a \in Aps : wpa_sta_connect(a)
  \/ CommitAgain \/ StaReceive \/ ApReceive \/ Associate \/ Timeout \/ Deauth
  \/ TimerFires \/ ExpireTakes \/ ExpireFrees \/ ExpireEnds \/ LateArrival

Next == Progress \/ Leave \/ Tick \/ Lose \/ Repeat \/ \E a \in Aps : ApRestart(a)

Spec == Init /\ [][Next]_vars

-----------------------------------------------------------------------------
\* Every PMK that the station caches for an access point is one which that access point
\* has derived and confirmed, from the same password, in whatever order frames arrive
\* (sae_check_confirm, the reflection test of sae_parse_commit, pmksa_cache_add).
PmkShared ==
  \A i \in DOMAIN sm.cache : cfg.pw = cfg.apPw /\ sm.cache[i].pmk \in confirmed[sm.cache[i].aa]

\* Whatever the timer's task and the supplicant do in turn, the cache holds one entry for
\* an access point and no more than it may, its count is right but for an entry that is
\* being freed; the current entry has not been freed; and while there is an entry the timer
\* will fire in time for the first (pmksa_cache_add, wpa_sm_pmksa_free_cb,
\* pmksa_cache_expire, pmksa_cache_set_expiration).
CacheSound ==
  LET freeing == IF Len(expiry) = 2 THEN {expiry[2]} ELSE {}
  IN  /\ \A i, j \in DOMAIN sm.cache : sm.cache[i].aa = sm.cache[j].aa => i = j
      /\ sm.count = Len(sm.cache) + Cardinality(freeing) /\ Len(sm.cache) <= MaxEntries
      /\ sm.cur = <<>> \/ Contains(sm.cache, sm.cur[1]) \/ sm.cur[1] \in freeing
      /\ sm.cache = <<>> \/ expiry # <<>> \/ sm.timer \in 1 .. Head(sm.cache).exp + 1

\* A token outlived the exchange it was for: esp_wpa3_free_sae_data frees the data it goes
\* with and not the token, so that from then on no commit can be built.
TokenLeft == g_sae_token # 0 /\ drv # "token"

\* With the right password and group the station connects, or connects again, within
\* two attempts of the last disturbance, be it a frame lost or repeated, an entry's expiry,
\* an access point that has forgotten it or a cache out of date (wpa_sta_disconnected_cb
\* clears both), and it never comes to a stop before.  Excepted is a station whose
\* exchange ended between a token request and the commit that answers it.
Reconnects ==
  (cfg.pw = cfg.apPw /\ cfg.group \in cfg.apGroups /\ cfg.apId = 0 /\ ~TokenLeft) =>
     tries <= MaxTries /\ (drv = "up" \/ ENABLED Progress)
=============================================================================
