------------------------- MODULE WpaHandshakeProofs -------------------------
(***************************************************************************)
(* The two theorems of the handshake, for any number of associations,      *)
(* losses, retransmissions and tries.                                      *)
(*                                                                         *)
(* KeyInstalledOnce: the station installs no pairwise key for sending      *)
(* twice, whatever the other side sends. The proof speaks of the station   *)
(* alone: nothing is assumed of a received frame but that it has a MIC or  *)
(* has none. A new nonce is drawn after every 3/4, so a key derived since  *)
(* differs from those installed; and between a 1/4, which asks for the     *)
(* installation, and the installation there is a 3/4 whose MIC only the    *)
(* key of that 1/4 can have made, because 1/4 takes the old one out of     *)
(* use (pset).                                                             *)
(*                                                                         *)
(* KeysAgreed: when both sides have finished, they have the same key. At   *)
(* any time there are two keys to tell apart: t, the one the station has   *)
(* installed for sending, and at most one it has derived and not           *)
(* installed (cs). The access point has no key, has t, or has the derived  *)
(* one, and the last only while it waits for 4/4 (Core); a 2/4 with        *)
(* another key does not follow one with the derived key, and after a 3/4   *)
(* under the derived key nothing else is on its way to the station (Ups,   *)
(* Downs). So a station that takes that 3/4 and installs the key when 4/4  *)
(* has gone out finds the access point with the same key, and one that     *)
(* draws a new nonce finds the access point without the key of that        *)
(* nonce.                                                                  *)
(***************************************************************************)
EXTENDS WpaHandshake, SequenceTheorems, TLAPS

Fields == {"st", "anonce", "snonce", "renew", "tptk", "tset", "ptk", "pset", "rxrc", "reqrc",
           "eapol1_count", "key_install", "install", "gd", "txcb", "rxKey", "txKey", "gtkKey",
           "countermeasures", "mic_errors_seen", "cmTimer"}

IsSta(s) == s = [f \in Fields |-> s[f]]

IsSeq(q) == q \in Seq({q[i] : i \in DOMAIN q})

NotIn(k, q) == \A i \in DOMAIN q : q[i] # k
Once(q) == \A i, j \in DOMAIN q : q[i] = q[j] => i = j
Below(q, n) == \A i \in DOMAIN q : q[i].snonce \in Nat /\ q[i].snonce < n

\* The station s, the keys q it has installed for transmission, and whether it
\* is associated: its nonce is new unless it is drawn anew first, and the key
\* it would install is new.
KeyInv(s, q, l) ==
  /\ IsSta(s) /\ s.snonce \in Nat /\ IsSeq(q) /\ Once(q)
  /\ Below(q, s.snonce + 1)
  /\ l /\ ~s.renew => Below(q, s.snonce)
  /\ l /\ s.st = "LAST_HALF" => s.renew
  /\ s.st = "LAST_HALF" => ~s.tset
  /\ s.tset => ~s.pset /\ s.tptk.snonce = s.snonce /\ NotIn(s.tptk, q)
  /\ s.key_install /\ ~s.tset => s.ptk.snonce \in 0..s.snonce /\ NotIn(s.ptk, q)

\* t differs from s in nothing the invariant speaks of, except that it may
\* have left the state LAST_HALF, or given up an installation.
Alike(s, t) ==
  /\ IsSta(t) /\ t.snonce = s.snonce /\ (s.renew => t.renew) /\ t.tset = s.tset
  /\ t.pset = s.pset /\ t.tptk = s.tptk /\ t.ptk = s.ptk
  /\ t.key_install => s.key_install
  /\ t.st = "LAST_HALF" => s.st = "LAST_HALF"
----------------------------------------------------------------------------

\* A step without an installation leaves the installed keys.
LEMMA EmptyInstall ==
  ASSUME NEW q, IsSeq(q)
  PROVE  q \o <<>> = q
BY DEF IsSeq

\* One more key is installed.
LEMMA OneInstall ==
  ASSUME NEW q, NEW k, NEW n \in Nat, IsSeq(q), Once(q), Below(q, n + 1), NotIn(k, q), k.snonce \in 0..n
  PROVE  LET p == q \o <<k>> IN
           IsSeq(p) /\ Once(p) /\ Below(p, n + 1)
<1> DEFINE S == {q[i] : i \in DOMAIN q} \cup {k}
           p == q \o <<k>>
<1>1. q \in Seq(S) /\ DOMAIN q = 1..Len(q) /\ Len(q) \in Nat
  <2>1. q \in Seq({q[i] : i \in DOMAIN q}) BY DEF IsSeq
  <2>2. \A i \in 1..Len(q) : q[i] \in S BY <2>1
  <2> QED BY <2>1, <2>2
<1>2. k \in S OBVIOUS
<1> HIDE DEF S
<1>3. /\ p \in Seq(S) /\ Len(p) = Len(q) + 1 /\ p[Len(q) + 1] = k
      /\ \A i \in 1..Len(q) : p[i] = q[i]
  BY <1>1, <1>2
<1>4. DOMAIN p = 1..(Len(q) + 1) BY <1>1, <1>3
<1> HIDE DEF p
<1>5. IsSeq(p)
  <2>1. p \in Seq(S) /\ Len(p) \in Nat /\ DOMAIN p = 1..Len(p) BY <1>1, <1>3, <1>4
  <2>2. p = [i \in 1..Len(p) |-> p[i]] BY <2>1
  <2> QED BY <2>1, <2>2 DEF IsSeq
<1>6. \A i \in DOMAIN p : (i \in DOMAIN q /\ p[i] = q[i]) \/ (i = Len(q) + 1 /\ p[i] = k)
  BY <1>1, <1>3, <1>4
<1>7. Once(p)
  BY <1>1, <1>6 DEF Once, NotIn
<1>8. Below(p, n + 1)
  <2>1. k.snonce \in Nat /\ k.snonce < n + 1 OBVIOUS
  <2> QED BY <1>6, <2>1 DEF Below
<1> QED BY <1>5, <1>7, <1>8 DEF p

\* A step that changes none of these keeps the invariant.
LEMMA AlikeKeeps ==
  ASSUME NEW s, NEW t, NEW q, NEW l, NEW k, KeyInv(s, q, l), Alike(s, t), k => l
  PROVE  KeyInv(t, q, k)
BY DEF KeyInv, Alike

\* Two such steps, one after the other.
LEMMA AlikeTrans ==
  ASSUME NEW s, NEW t, NEW u, Alike(s, t), Alike(t, u)
  PROVE  Alike(s, u)
BY DEF Alike

\* Any state but LAST_HALF.
LEMMA AlikeState ==
  ASSUME NEW s, IsSta(s), NEW st, st # "LAST_HALF"
  PROVE  Alike(s, wpa_sm_set_state(s, st))
BY DEF Alike, wpa_sm_set_state, IsSta, Fields

\* wpa_supplicant_install_gtk installs the group key only.
LEMMA AlikeGtk ==
  ASSUME NEW s, IsSta(s)
  PROVE  Alike(s, wpa_supplicant_install_gtk(s))
BY DEF Alike, wpa_supplicant_install_gtk, IsSta, Fields

\* wpa_supplicant_install_ptk for reception sends nothing under the key.
LEMMA AlikePtk ==
  ASSUME NEW s, IsSta(s), NEW n
  PROVE  Alike(s, wpa_supplicant_install_ptk(s, n))
BY DEF Alike, wpa_supplicant_install_ptk, IsSta, Fields

\* What a handler did keeps the invariant.
Kept(d, q, l) == KeyInv(d.s, q \o d.installs, l /\ ~d.leave)

\* A handler that makes such a step and installs no key for sending.
LEMMA KeptAlike ==
  ASSUME NEW s, NEW q, NEW l, NEW t, NEW frames, NEW leave, KeyInv(s, q, l), Alike(s, t)
  PROVE  Kept(Did(t, frames, <<>>, leave), q, l)
<1> DEFINE d == Did(t, frames, <<>>, leave)
<1>1. d.s = t /\ d.installs = <<>> /\ d.leave = leave BY DEF Did
<1>2. q \o <<>> = q BY EmptyInstall DEF KeyInv
<1>3. KeyInv(t, q, l /\ ~leave) BY AlikeKeeps
<1> QED BY <1>1, <1>2, <1>3 DEF Kept
----------------------------------------------------------------------------
(* The handlers of the station.                                            *)

\* 1/4: a nonce no installed key has, and the old key out of use.
LEMMA Process1of4 ==
  ASSUME NEW s, NEW q, NEW m, KeyInv(s, q, TRUE)
  PROVE  Kept(wpa_supplicant_process_1_of_4(s, m), q, TRUE)
<1> DEFINE sn == IF s.renew THEN Fresh(s.snonce) ELSE s.snonce
           key == PTK(conf.staPmk, m.nonce, sn)
           s1 == wpa_sm_set_state(s, "FIRST_HALF")
           s2 == [s1 EXCEPT !.snonce = sn, !.renew = FALSE, !.tptk = key, !.tset = TRUE,
                            !.pset = FALSE, !.key_install = TRUE, !.anonce = m.nonce]
           d == wpa_supplicant_process_1_of_4(s, m)
<1>1. d.s = s2 /\ d.installs = <<>> /\ d.leave = FALSE
  BY DEF wpa_supplicant_process_1_of_4, Did
<1>2. sn \in Nat /\ sn >= s.snonce /\ Below(q, sn)
  BY DEF KeyInv, Below, Fresh
<1>3. key.snonce = sn BY DEF PTK
<1>4. IsSta(s1) /\ s1.st = "FIRST_HALF"
  BY DEF KeyInv, wpa_sm_set_state, IsSta, Fields
<1> HIDE DEF sn, key, s1
<1>5. /\ IsSta(s2) /\ s2.st = "FIRST_HALF" /\ s2.snonce = sn /\ s2.renew = FALSE /\ s2.tptk = key
      /\ s2.tset = TRUE /\ s2.pset = FALSE
  BY <1>4 DEF IsSta, Fields
<1> HIDE DEF s2
<1>6. NotIn(key, q) /\ Below(q, sn + 1)
  BY <1>2, <1>3 DEF Below, NotIn
<1>7. KeyInv(s2, q, TRUE)
  BY <1>2, <1>3, <1>5, <1>6 DEF KeyInv
<1>8. q \o <<>> = q BY EmptyInstall DEF KeyInv
<1> QED BY <1>1, <1>7, <1>8 DEF Kept

\* A MIC that is right settles which key is in use.
LEMMA Verified ==
  ASSUME NEW s, NEW q, NEW m, KeyInv(s, q, TRUE), MicOk(s, m)
  PROVE  LET v == wpa_supplicant_verify_eapol_key_mic(s, m) IN
           KeyInv(v, q, TRUE) /\ ~v.tset
<1> DEFINE v == wpa_supplicant_verify_eapol_key_mic(s, m)
<1>1. /\ IsSta(v) /\ v.st = s.st /\ v.snonce = s.snonce /\ v.renew = s.renew /\ v.key_install = s.key_install
      /\ v.tset = (s.tset /\ m.mic # s.tptk)
      /\ v.ptk = IF s.tset /\ m.mic = s.tptk THEN s.tptk ELSE s.ptk
  BY DEF wpa_supplicant_verify_eapol_key_mic, IsSta, Fields, KeyInv
<1> HIDE DEF v
<1>2. ~v.tset
  BY <1>1 DEF KeyInv, MicOk
<1>3. v.key_install => v.ptk.snonce \in 0..s.snonce /\ NotIn(v.ptk, q)
  <2>1. CASE s.tset
    <3>1. v.ptk = s.tptk BY <1>1, <2>1 DEF KeyInv, MicOk
    <3>2. s.tptk.snonce = s.snonce /\ s.snonce \in Nat /\ NotIn(s.tptk, q) BY <2>1 DEF KeyInv
    <3> QED BY <3>1, <3>2
  <2>2. CASE ~s.tset
    <3>1. v.ptk = s.ptk BY <1>1, <2>2
    <3> QED BY <1>1, <2>2, <3>1 DEF KeyInv
  <2> QED BY <2>1, <2>2
<1>4. /\ IsSta(v) /\ v.st = s.st /\ v.snonce = s.snonce /\ v.renew = s.renew
  BY <1>1
<1>5. KeyInv(v, q, TRUE)
  BY <1>2, <1>3, <1>4 DEF KeyInv
<1> QED BY <1>2, <1>5 DEF v

\* 3/4: from now on a new nonce, unless the station leaves.
LEMMA Process3of4 ==
  ASSUME NEW s, NEW q, NEW m, KeyInv(s, q, TRUE), ~s.tset
  PROVE  Kept(wpa_supplicant_process_3_of_4(s, m), q, TRUE)
<1> DEFINE s1 == wpa_sm_set_state(s, "LAST_HALF")
           s2 == [s1 EXCEPT !.renew = TRUE, !.install = TRUE, !.gd = m.gtk]
           s3 == IF s2.key_install THEN wpa_supplicant_install_ptk(s2, 0) ELSE s2
           s4 == [s3 EXCEPT !.txcb = @ \cup {"4/4"}]
           d == wpa_supplicant_process_3_of_4(s, m)
<1>0. q \o <<>> = q BY EmptyInstall DEF KeyInv
<1>1. /\ IsSta(s1) /\ s1.st = "LAST_HALF" /\ s1.snonce = s.snonce /\ s1.renew = s.renew
      /\ s1.key_install = s.key_install /\ s1.tset = s.tset /\ s1.ptk = s.ptk
  BY DEF KeyInv, wpa_sm_set_state, IsSta, Fields
<1>2. \/ d.s = s1 /\ d.installs = <<>> /\ d.leave = TRUE
      \/ d.s = s4 /\ d.installs = <<>> /\ d.leave = FALSE
  BY DEF wpa_supplicant_process_3_of_4, Did
<1> HIDE DEF s1
<1>3. /\ IsSta(s2) /\ s2.st = "LAST_HALF" /\ s2.snonce = s.snonce /\ s2.renew = TRUE
      /\ s2.key_install = s.key_install /\ s2.tset = s.tset /\ s2.ptk = s.ptk
  BY <1>1 DEF IsSta, Fields
<1> HIDE DEF s2
<1>4. /\ IsSta(s3) /\ s3.st = "LAST_HALF" /\ s3.snonce = s.snonce /\ s3.renew = TRUE
      /\ s3.key_install = s.key_install /\ s3.tset = s.tset /\ s3.ptk = s.ptk
  BY <1>3 DEF IsSta, Fields, wpa_supplicant_install_ptk
<1> HIDE DEF s3
<1>5. /\ IsSta(s4) /\ s4.st = "LAST_HALF" /\ s4.snonce = s.snonce /\ s4.renew = TRUE
      /\ s4.key_install = s.key_install /\ s4.tset = s.tset /\ s4.ptk = s.ptk
  BY <1>4 DEF IsSta, Fields
<1> HIDE DEF s4, d
<1>6. KeyInv(s4, q, TRUE) BY <1>5 DEF KeyInv
<1>7. KeyInv(s1, q, FALSE) BY <1>1 DEF KeyInv
<1> QED BY <1>0, <1>2, <1>6, <1>7 DEF Kept, d

\* 1/2 changes nothing of the pairwise key.
LEMMA Process1of2 ==
  ASSUME NEW s, NEW q, NEW m, KeyInv(s, q, TRUE)
  PROVE  Kept(wpa_supplicant_process_1_of_2(s, m), q, TRUE)
<1> DEFINE s0 == wpa_sm_set_state(s, "GROUP_HANDSHAKE")
           s1 == [s0 EXCEPT !.gd = m.gtk, !.install = FALSE, !.txcb = @ \cup {"2/2"}]
<1>1. Alike(s, s0) BY AlikeState DEF KeyInv
<1> HIDE DEF s0
<1>2. Alike(s0, s1) BY <1>1 DEF Alike, IsSta, Fields
<1> HIDE DEF s1
<1>3. Alike(s, s1) BY <1>1, <1>2, AlikeTrans
<1>4. \E frames : wpa_supplicant_process_1_of_2(s, m) = Did(s1, frames, <<>>, FALSE)
  BY DEF wpa_supplicant_process_1_of_2, s1, s0
<1> QED BY <1>3, <1>4, KeptAlike

\* Any received frame.
LEMMA Received ==
  ASSUME NEW s, NEW q, NEW m, KeyInv(s, q, TRUE)
  PROVE  Kept(wpa_sm_rx_eapol(s, m), q, TRUE)
<1> DEFINE v == wpa_supplicant_verify_eapol_key_mic(s, m)
           c == [s EXCEPT !.eapol1_count = @ + 1]
<1>1. Alike(s, s) /\ Alike(s, c)
  BY DEF KeyInv, Alike, IsSta, Fields
<1>2. KeyInv(c, q, TRUE)
  BY <1>1, AlikeKeeps
<1>3. \/ wpa_sm_rx_eapol(s, m) = Did(s, <<>>, <<>>, FALSE)
      \/ MicOk(s, m) /\ wpa_sm_rx_eapol(s, m) = wpa_supplicant_process_1_of_2(v, m)
      \/ MicOk(s, m) /\ wpa_sm_rx_eapol(s, m) = wpa_supplicant_process_3_of_4(v, m)
      \/ wpa_sm_rx_eapol(s, m) = Did(c, <<>>, <<>>, TRUE)
      \/ wpa_sm_rx_eapol(s, m) = wpa_supplicant_process_1_of_4(c, m)
  BY DEF wpa_sm_rx_eapol
<1>4. MicOk(s, m) => KeyInv(v, q, TRUE) /\ ~v.tset
  BY Verified
<1> HIDE DEF v, c
<1> QED BY <1>1, <1>2, <1>3, <1>4, KeptAlike, Process1of2, Process3of4, Process1of4

\* 4/4 is on the air: the key is installed if it was asked for, and no more.
LEMMA Callback4of4 ==
  ASSUME NEW s, NEW q, NEW l, KeyInv(s, q, l), s.st = "LAST_HALF"
  PROVE  Kept(wpa_supplicant_send_4_of_4_txcallback(s), q, l)
<1> DEFINE tx == s.key_install /\ s.install
           s1 == IF tx THEN wpa_supplicant_install_ptk(s, 2) ELSE s
           s2 == wpa_sm_set_state(s1, "GROUP_HANDSHAKE")
           g  == IF s.key_install THEN wpa_supplicant_install_gtk(s2) ELSE s2
           s3 == IF s.gd = 0 THEN s2 ELSE wpa_supplicant_key_neg_complete(g)
           s4 == [s3 EXCEPT !.key_install = FALSE]
           d  == wpa_supplicant_send_4_of_4_txcallback(s)
<1>1. d.s = s4 /\ d.installs = (IF tx THEN <<s.ptk>> ELSE <<>>) /\ d.leave = FALSE
  BY DEF wpa_supplicant_send_4_of_4_txcallback, Did
<1>2. Alike(s, s) BY DEF KeyInv, Alike
<1>3. Alike(s, s1) BY <1>2, AlikePtk DEF KeyInv
<1> HIDE DEF s1
<1>4. Alike(s1, s2) /\ s2.st # "LAST_HALF"
  <2>1. IsSta(s1) BY <1>3 DEF Alike
  <2> QED BY <2>1, AlikeState DEF wpa_sm_set_state, IsSta, Fields
<1> HIDE DEF s2
<1>5. Alike(s2, g) /\ g.st # "LAST_HALF"
  <2>1. IsSta(s2) BY <1>4 DEF Alike
  <2>2. Alike(s2, s2) BY <2>1 DEF Alike
  <2> QED BY <1>4, <2>1, <2>2, AlikeGtk DEF Alike
<1> HIDE DEF g
<1>6. Alike(g, wpa_supplicant_key_neg_complete(g)) /\ wpa_supplicant_key_neg_complete(g).st # "LAST_HALF"
  <2>1. IsSta(g) BY <1>5 DEF Alike
  <2>2. wpa_supplicant_key_neg_complete(g) = wpa_sm_set_state(g, "COMPLETED")
    BY DEF wpa_supplicant_key_neg_complete
  <2>3. wpa_sm_set_state(g, "COMPLETED").st = "COMPLETED"
    BY <2>1 DEF wpa_sm_set_state, IsSta, Fields
  <2> QED BY <2>1, <2>2, <2>3, AlikeState
<1>7. Alike(s, s3) /\ s3.st # "LAST_HALF"
  BY <1>3, <1>4, <1>5, <1>6, AlikeTrans
<1> HIDE DEF s3
<1>8. Alike(s3, s4) /\ s4.st # "LAST_HALF" /\ s4.key_install = FALSE
  BY <1>7 DEF Alike, IsSta, Fields
<1> HIDE DEF s4, d
<1>9. Alike(s, s4) BY <1>7, <1>8, AlikeTrans
<1>10. CASE ~tx
  <2>1. q \o <<>> = q BY EmptyInstall DEF KeyInv
  <2>2. KeyInv(s4, q, l /\ ~FALSE) BY <1>9, AlikeKeeps
  <2> QED BY <1>1, <1>10, <2>1, <2>2 DEF Kept, d
<1>11. CASE tx
  <2> DEFINE p == q \o <<s.ptk>>
  <2>1. s.key_install /\ ~s.tset /\ s.ptk.snonce \in 0..s.snonce /\ NotIn(s.ptk, q) /\ (l => s.renew)
    BY <1>11 DEF KeyInv
  <2>2. IsSeq(p) /\ Once(p) /\ Below(p, s.snonce + 1)
    BY <2>1, OneInstall DEF KeyInv
  <2> HIDE DEF p
  <2>3. IsSta(s4) /\ s4.snonce = s.snonce /\ ~s4.tset /\ ~s4.key_install /\ (l => s4.renew) /\ s.snonce \in Nat
    BY <1>8, <1>9, <2>1 DEF Alike, KeyInv
  <2>4. KeyInv(s4, p, l /\ ~FALSE)
    BY <1>8, <2>2, <2>3 DEF KeyInv
  <2> QED BY <1>1, <1>11, <2>4 DEF Kept, d, p
<1> QED BY <1>10, <1>11

\* The driver's report that a frame went out.
LEMMA Transmitted ==
  ASSUME NEW s, NEW q, NEW l, KeyInv(s, q, l)
  PROVE  Kept(eapol_txcb(s), q, l)
<1> DEFINE a == [s EXCEPT !.txcb = @ \ {"4/4"}]
           b == [s EXCEPT !.txcb = @ \ {"2/2"}]
<1>0. Alike(s, s) BY DEF KeyInv, Alike
<1>1. Alike(s, a) /\ a.st = s.st BY DEF KeyInv, Alike, IsSta, Fields
<1>2. Alike(s, b) BY DEF KeyInv, Alike, IsSta, Fields
<1>3. \/ s.st = "LAST_HALF" /\ eapol_txcb(s) = wpa_supplicant_send_4_of_4_txcallback(a)
      \/ eapol_txcb(s) = wpa_supplicant_send_2_of_2_txcallback(b)
      \/ \E leave : eapol_txcb(s) = Did(s, <<>>, <<>>, leave)
  BY DEF eapol_txcb
<1> HIDE DEF a, b
<1>4. KeyInv(a, q, l) /\ KeyInv(b, q, l) BY <1>1, <1>2, AlikeKeeps
<1>5. Kept(wpa_supplicant_send_2_of_2_txcallback(b), q, l)
  <2> DEFINE g == wpa_supplicant_install_gtk(b)
             h == wpa_sm_set_state(g, "COMPLETED")
  <2>1. Alike(b, b) /\ IsSta(b) BY <1>2 DEF Alike
  <2>2. Alike(b, g) BY <2>1, AlikeGtk
  <2> HIDE DEF g
  <2>3. Alike(g, h) BY <2>2, AlikeState DEF Alike
  <2> HIDE DEF h
  <2>4. Alike(b, h) BY <2>2, <2>3, AlikeTrans
  <2>5. \/ wpa_supplicant_send_2_of_2_txcallback(b) = Did(b, <<>>, <<>>, TRUE)
        \/ wpa_supplicant_send_2_of_2_txcallback(b) = Did(h, <<>>, <<>>, FALSE)
    BY DEF wpa_supplicant_send_2_of_2_txcallback, wpa_supplicant_key_neg_complete, g, h
  <2> QED BY <1>4, <2>1, <2>4, <2>5, KeptAlike
<1> QED BY <1>0, <1>1, <1>3, <1>4, <1>5, KeptAlike, Callback4of4

\* What is said of a station with an association holds of one without.
LEMMA LinkOnly ==
  ASSUME NEW s, NEW q, NEW k, NEW l, KeyInv(s, q, k), l => k
  PROVE  KeyInv(s, q, l)
<1>1. Alike(s, s) BY DEF KeyInv, Alike
<1> QED BY <1>1, AlikeKeeps

InstallInv == KeyInv(sta, txed, link)

\* Every step of the two sides and of what is between them.
LEMMA KeyStep == KeyInv(sta, txed, link) /\ [Next]_vars => KeyInv(sta', txed', link')
<1> SUFFICES ASSUME KeyInv(sta, txed, link), [Next]_vars PROVE KeyInv(sta', txed', link')
  OBVIOUS
<1>0. IsSta(sta) /\ Alike(sta, sta) BY DEF KeyInv, Alike
<1>a. ASSUME UNCHANGED txed, Alike(sta, sta'), link' => link PROVE KeyInv(sta', txed', link')
  BY <1>a, AlikeKeeps
<1>1. CASE Associate
  <2>1. sta' = wpa_set_bss(sta) /\ txed' = txed BY <1>1 DEF Associate
  <2>2. Alike(sta, sta') /\ sta'.renew = TRUE
    BY <1>0, <2>1 DEF wpa_set_bss, Alike, IsSta, Fields
  <2>3. KeyInv(sta', txed, FALSE)
    BY <2>2, AlikeKeeps
  <2> QED BY <2>1, <2>2, <2>3 DEF KeyInv
<1>2. CASE ApRemove \/ LoseToSta \/ LoseToAp \/ UNCHANGED vars
  <2>1. UNCHANGED <<sta, txed, link>>
    BY <1>2 DEF ApRemove, LoseToSta, LoseToAp, StaUnchanged, vars
  <2> QED BY <2>1
<1>3. CASE ApReceive \/ ApTimeout
  <2>1. UNCHANGED <<sta, txed>> /\ (link' => link)
    BY <1>3 DEF ApReceive, ApTimeout, ApBecomes, StaUnchanged
  <2> QED BY <1>0, <1>a, <2>1
<1>4. CASE StaReceive
  <2> DEFINE d == wpa_sm_rx_eapol(sta, Head(toSta))
  <2>1. link /\ StaBecomes(d) BY <1>4 DEF StaReceive
  <2>2. KeyInv(sta, txed, TRUE) BY <2>1, LinkOnly
  <2>3. Kept(d, txed, TRUE) BY <2>2, Received
  <2> HIDE DEF d
  <2>4. sta' = d.s /\ txed' = txed \o d.installs /\ link' = (link /\ ~d.leave)
    BY <2>1 DEF StaBecomes
  <2>5. KeyInv(sta', txed', TRUE /\ ~d.leave) BY <2>3, <2>4 DEF Kept
  <2> QED BY <2>4, <2>5, LinkOnly
<1>5. CASE StaTransmit
  <2> DEFINE d == eapol_txcb(sta)
  <2>1. sta' = d.s /\ txed' = txed \o d.installs /\ link' = (link /\ ~d.leave)
    BY <1>5 DEF StaTransmit
  <2>2. Kept(d, txed, link) BY Transmitted
  <2> QED BY <2>1, <2>2 DEF Kept
<1>6. CASE StaMicFailure
  <2> DEFINE s1 == [sta EXCEPT !.reqrc = @ + 1]
             s2 == IF sta.mic_errors_seen
                     THEN [s1 EXCEPT !.st = "TKIP_COUNTERMEASURES",
                                     !.countermeasures = TRUE, !.cmTimer = "stop"]
                     ELSE [s1 EXCEPT !.st = "MIC_FAILURE",
                                     !.mic_errors_seen = TRUE, !.cmTimer = "clr"]
             d == wpa_michael_mic_failure(sta)
  <2>1. StaBecomes(d) BY <1>6 DEF StaMicFailure
  <2>2. d.s = s2 /\ d.installs = <<>> /\ d.leave = FALSE
    BY DEF wpa_michael_mic_failure, Did
  <2>3. Alike(sta, s1) BY <1>0 DEF Alike, IsSta, Fields
  <2> HIDE DEF s1
  <2>4. Alike(s1, s2) BY <2>3 DEF Alike, IsSta, Fields
  <2> HIDE DEF s2, d
  <2>5. txed \o <<>> = txed BY EmptyInstall DEF KeyInv
  <2>6. Alike(sta, sta') /\ txed' = txed /\ (link' => link)
    BY <2>1, <2>2, <2>3, <2>4, <2>5, AlikeTrans DEF StaBecomes
  <2> QED BY <1>a, <2>6
<1>7. CASE StaCmTimer
  <2>1. sta' \in {wpa_supplicant_clr_countermeasures(sta), wpa_supplicant_stop_countermeasures(sta), sta}
        /\ UNCHANGED <<txed, link>>
    BY <1>7 DEF StaCmTimer
  <2> DEFINE c == wpa_supplicant_clr_countermeasures(sta)
             e == wpa_supplicant_stop_countermeasures(sta)
             x == c.mic_errors_seen /\ ~sta.countermeasures
  <2>2. Alike(sta, c) BY <1>0 DEF wpa_supplicant_clr_countermeasures, Alike, IsSta, Fields
  <2>3. e = [c EXCEPT !.countermeasures = FALSE, !.st = "DISCONNECTED", !.mic_errors_seen = x]
    BY DEF wpa_supplicant_stop_countermeasures
  <2> HIDE DEF c, x, e
  <2>4. Alike(c, e) BY <2>2, <2>3 DEF Alike, IsSta, Fields
  <2>5. Alike(sta, e) BY <2>2, <2>4, AlikeTrans
  <2>6. Alike(sta, sta') BY <1>0, <2>1, <2>2, <2>5 DEF c, e
  <2> QED BY <1>a, <2>1, <2>6
<1> QED BY <1>1, <1>2, <1>3, <1>4, <1>5, <1>6, <1>7 DEF Next

\* Nothing is installed before the first association.
LEMMA InstallFirst == Init => InstallInv
<1> SUFFICES ASSUME Init PROVE KeyInv(sta, txed, link)
  BY DEF InstallInv
<1>1. IsSta(sta) /\ sta.snonce = 0 /\ sta.st = "INACTIVE" /\ sta.tset = FALSE /\ sta.key_install = FALSE
  BY DEF Init, IsSta, Fields
<1>2. txed = <<>> /\ link = FALSE BY DEF Init
<1>3. IsSeq(txed) /\ Once(txed) /\ Below(txed, sta.snonce + 1)
  BY <1>2 DEF IsSeq, Once, Below
<1> QED BY <1>1, <1>2, <1>3 DEF KeyInv

\* A pairwise key is installed for sending at most once, whatever the access
\* point sends and loses and however often 1/4 and 3/4 are repeated: the
\* packet number of a key never starts again (wpa.c key_install,
\* wpa_supplicant_process_1_of_4, wpa_supplicant_send_4_of_4_txcallback).
THEOREM KeyInstalledOnce == Spec => []NoTxReinstall
<1>1. Init => InstallInv
  BY InstallFirst
<1>2. InstallInv => NoTxReinstall
  BY DEF InstallInv, KeyInv, Once, NoTxReinstall
<1>3. InstallInv /\ [Next]_vars => InstallInv'
  BY KeyStep DEF InstallInv
<1> QED BY <1>1, <1>2, <1>3, PTL DEF Spec
----------------------------------------------------------------------------
(***************************************************************************)
(* Both sides have the same key: the machine of the access point first.    *)
(***************************************************************************)
\* The access point's machine is a record with these fields.
ApFields == {"ptkSt", "grpSt", "changed", "Init", "Disconnect", "AuthenticationRequest", "PTKRequest",
             "assoc", "ANonce", "SNonce", "PTK", "PTK_valid", "key", "pairwise_set", "TimeoutCtr",
             "GTimeoutCtr", "TimeoutEvt", "resend_eapol", "EAPOLKeyReceived", "EAPOLKeyPairwise",
             "EAPOLKeyRequest", "MICVerified", "update_snonce", "PInitAKeys", "req_replay", "last_rx",
             "key_replay", "prev_key_replay", "out", "kick"}

Shape(s) == s = [f \in ApFields |-> s[f]]

IsAp(s) == Shape(s) /\ s.TimeoutCtr \in Nat

SamePmk == conf.staPmk = conf.apPmk

\* A frame of the access point, under its key k.
Sent(m, k, j) ==
  \/ m.k = "1/4" /\ m.mic = None /\ m.nonce = j
  \/ m.k = "3/4" /\ m.mic = k /\ k # None /\ m.nonce = j
  \/ m.k = "1/2" /\ m.mic = k /\ k # None

\* The frames sent so far; under a key in cs nothing but 3/4.
Outs(s, cs, j) ==
  /\ IsSeq(s.out)
  /\ \A i \in DOMAIN s.out : Sent(s.out[i], s.PTK, j) /\ (s.PTK \in cs => s.out[i].k = "3/4")

\* The group machine would start a group handshake now.
GroupReady(s) == s.grpSt = "IDLE" /\ conf.proto = "WPA" /\ s.PInitAKeys

\* The states of the pairwise machine once the first 1/4 is due.
Running == {"PTKSTART", "PTKCALCNEGOTIATING", "PTKCALCNEGOTIATING2", "PTKINITNEGOTIATING", "PTKINITDONE"}

\* The machine s of association j.  t is the key the station has installed,
\* cs holds the key it has derived and not yet installed, if there is one; w
\* is the PTK before the step, and h allows the machine a key in cs.
Base(s, t, cs, j, w, h) ==
  /\ s.assoc = j /\ s.ptkSt \in Running /\ s.ANonce = j
  /\ ~s.Init /\ ~s.AuthenticationRequest /\ ~s.PTKRequest /\ ~s.update_snonce
  /\ s.PTK = None \/ s.PTK = t \/ s.PTK \in cs
  /\ s.PTK # None => SamePmk
  /\ s.MICVerified \/ s.PTK_valid => s.PTK # None
  /\ s.ptkSt = "PTKINITDONE" => s.key = s.PTK
  /\ s.ptkSt \in {"PTKCALCNEGOTIATING2", "PTKINITNEGOTIATING", "PTKINITDONE"} => s.PTK # None
  /\ s.ptkSt \in {"PTKSTART", "PTKCALCNEGOTIATING", "PTKCALCNEGOTIATING2", "PTKINITNEGOTIATING"} =>
       ~s.TimeoutEvt
  /\ s.PTK \in cs =>
       /\ s.PTK_valid /\ s.SNonce = s.PTK.snonce /\ ~s.EAPOLKeyReceived
       /\ s.ptkSt \in {"PTKCALCNEGOTIATING", "PTKCALCNEGOTIATING2", "PTKINITNEGOTIATING"}
       /\ ~GroupReady(s) /\ s.grpSt # "REKEYESTABLISHED" /\ h
  /\ w \in cs => s.PTK \in cs
  /\ Outs(s, cs, j)

\* Where the pairwise machine may be after the n-th pass; 3 stands for the later ones.
Progress(s, n) ==
  /\ s.ptkSt = "PTKCALCNEGOTIATING" => ~SamePmk \/ (n = 1 /\ s.MICVerified /\ s.changed)
  /\ s.ptkSt = "PTKCALCNEGOTIATING2" => n = 2 /\ s.changed

\* Within the n-th pass, between the two machines.
Half(s, n, t, cs, j, w, h) ==
  /\ IsAp(s)
  /\ \/ s.kick
     \/ /\ Base(s, t, cs, j, w, h) /\ Progress(s, n) /\ ~s.Disconnect
        /\ s.grpSt \in {"IDLE", "REKEYNEGOTIATING", "REKEYESTABLISHED"}
        /\ s.grpSt = "REKEYESTABLISHED" => n = 2
        /\ s.EAPOLKeyReceived /\ ~s.EAPOLKeyRequest =>
             n = 1 /\ ~s.EAPOLKeyPairwise /\ s.MICVerified /\ s.grpSt = "REKEYNEGOTIATING"

\* After the n-th pass.
Whole(s, n, t, cs, j, w, h) ==
  /\ IsAp(s)
  /\ \/ s.kick
     \/ /\ Base(s, t, cs, j, w, h) /\ Progress(s, n)
        /\ s.grpSt \in {"IDLE", "REKEYNEGOTIATING", "REKEYESTABLISHED", "KEYERROR"}
        /\ s.grpSt = "KEYERROR" => s.Disconnect
        /\ s.grpSt = "REKEYESTABLISHED" => n = 1 /\ s.changed
        /\ GroupReady(s) => n = 2 /\ s.changed
        /\ s.EAPOLKeyReceived => s.EAPOLKeyRequest
----------------------------------------------------------------------------

\* A frame appended to a queue is its last and leaves the others in place.
LEMMA AppendFrame ==
  ASSUME NEW q, NEW m, IsSeq(q)
  PROVE  LET p == Append(q, m) IN
           /\ IsSeq(p) /\ p = q \o <<m>>
           /\ \A i \in DOMAIN p : p[i] = m \/ (i \in DOMAIN q /\ p[i] = q[i])
<1> DEFINE S == {q[i] : i \in DOMAIN q} \cup {m}
           p == Append(q, m)
<1>1. q \in Seq(S) /\ DOMAIN q = 1..Len(q) /\ Len(q) \in Nat
  <2>1. q \in Seq({q[i] : i \in DOMAIN q}) BY DEF IsSeq
  <2>2. \A i \in 1..Len(q) : q[i] \in S BY <2>1
  <2> QED BY <2>1, <2>2
<1>2. m \in S OBVIOUS
<1> HIDE DEF S
<1>3. /\ p \in Seq(S) /\ Len(p) = Len(q) + 1 /\ p[Len(q) + 1] = m /\ p = q \o <<m>>
      /\ \A i \in 1..Len(q) : p[i] = q[i]
  BY <1>1, <1>2
<1>4. DOMAIN p = 1..(Len(q) + 1) BY <1>1, <1>3
<1> HIDE DEF p
<1>5. IsSeq(p)
  <2>1. p \in Seq(S) /\ Len(p) \in Nat /\ DOMAIN p = 1..Len(p) BY <1>1, <1>3, <1>4
  <2>2. p = [i \in 1..Len(p) |-> p[i]] BY <2>1
  <2> QED BY <2>1, <2>2 DEF IsSeq
<1> QED BY <1>1, <1>3, <1>4, <1>5 DEF p

\* A frame sent, or held back for want of a key, changes nothing else.
LEMMA SendKeeps ==
  ASSUME NEW s, IsAp(s), NEW k, NEW withMic, NEW nonce, NEW g
  PROVE  LET r == wpa_send_eapol(s, k, withMic, nonce, g) IN
           /\ IsAp(r)
           /\ \A f \in ApFields \ {"key_replay", "out", "resend_eapol"} : r[f] = s[f]
           /\ \/ r.out = s.out
              \/ \E m : /\ r.out = Append(s.out, m) /\ m.k = k /\ m.nonce = nonce
                        /\ m.mic = IF withMic THEN s.PTK ELSE None
                        /\ withMic => s.PTK_valid
<1> DEFINE rc0 == s.key_replay[1].c + 1
           win0 == [i \in 1..Window |-> IF i = 1 THEN [c |-> rc0, valid |-> TRUE] ELSE s.key_replay[i - 1]]
           mc0 == IF withMic THEN s.PTK ELSE None
           m0 == [k |-> k, rc |-> rc0, nonce |-> nonce, gtk |-> g, mic |-> mc0]
           o0 == IF withMic /\ ~s.PTK_valid THEN s.out ELSE Append(s.out, m0)
<1>1. wpa_send_eapol(s, k, withMic, nonce, g) =
        [[s EXCEPT !.key_replay = win0, !.out = o0] EXCEPT !.resend_eapol = "armed"]
  BY Zenon DEF wpa_send_eapol, __wpa_send_eapol
<1>2. PICK win, o, r : win = win0 /\ o = o0 /\ r = wpa_send_eapol(s, k, withMic, nonce, g)
  OBVIOUS
<1>3. m0.k = k /\ m0.nonce = nonce /\ m0.mic = mc0 BY Zenon
<1> HIDE DEF win0, m0, rc0
<1>4. r = [[s EXCEPT !.key_replay = win, !.out = o] EXCEPT !.resend_eapol = "armed"]
  BY <1>1, <1>2, Zenon
<1>5. /\ IsAp(r) /\ r.out = o
      /\ \A f \in ApFields \ {"key_replay", "out", "resend_eapol"} : r[f] = s[f]
  BY <1>4 DEF IsAp, Shape, ApFields
<1>6. o = s.out \/ (o = Append(s.out, m0) /\ (withMic => s.PTK_valid))
  BY <1>2
<1> QED BY <1>2, <1>3, <1>5, <1>6

\* r is s but for the frames sent and the timer.
Kin(s, r) ==
  /\ r.ptkSt = s.ptkSt /\ r.grpSt = s.grpSt /\ r.changed = s.changed /\ r.Init = s.Init
  /\ r.Disconnect = s.Disconnect /\ r.AuthenticationRequest = s.AuthenticationRequest
  /\ r.PTKRequest = s.PTKRequest /\ r.assoc = s.assoc /\ r.ANonce = s.ANonce /\ r.SNonce = s.SNonce
  /\ r.PTK = s.PTK /\ r.PTK_valid = s.PTK_valid /\ r.key = s.key /\ r.TimeoutEvt = s.TimeoutEvt
  /\ r.TimeoutCtr = s.TimeoutCtr /\ r.EAPOLKeyReceived = s.EAPOLKeyReceived
  /\ r.EAPOLKeyPairwise = s.EAPOLKeyPairwise /\ r.EAPOLKeyRequest = s.EAPOLKeyRequest
  /\ r.MICVerified = s.MICVerified /\ r.update_snonce = s.update_snonce
  /\ r.PInitAKeys = s.PInitAKeys /\ r.last_rx = s.last_rx /\ r.kick = s.kick

\* Sending keeps the invariant, if the frame is one it allows.
LEMMA SendBase ==
  ASSUME NEW s, IsAp(s), NEW k, NEW withMic, NEW nonce, NEW g,
         NEW t, NEW cs, NEW j, NEW w, NEW h, None \notin cs, Base(s, t, cs, j, w, h),
         \/ k = "1/4" /\ withMic = FALSE /\ nonce = j /\ s.PTK \notin cs
         \/ k = "3/4" /\ withMic = TRUE /\ nonce = j
         \/ k = "1/2" /\ withMic = TRUE /\ s.PTK \notin cs
  PROVE  LET r == wpa_send_eapol(s, k, withMic, nonce, g) IN
           IsAp(r) /\ Kin(s, r) /\ Base(r, t, cs, j, w, h)
<1> DEFINE r == wpa_send_eapol(s, k, withMic, nonce, g)
<1>1. /\ IsAp(r)
      /\ \A f \in ApFields \ {"key_replay", "out", "resend_eapol"} : r[f] = s[f]
      /\ \/ r.out = s.out
         \/ \E m : /\ r.out = Append(s.out, m) /\ m.k = k /\ m.nonce = nonce
                   /\ m.mic = IF withMic THEN s.PTK ELSE None
                   /\ withMic => s.PTK_valid
  BY SendKeeps
<1> HIDE DEF r
<1>2. Kin(s, r) BY <1>1 DEF Kin, ApFields
<1>3. Outs(r, cs, j)
  <2>1. Outs(s, cs, j) /\ (s.PTK_valid => s.PTK # None) BY DEF Base
  <2>2. r.PTK = s.PTK BY <1>2 DEF Kin
  <2>3. CASE r.out = s.out BY <2>1, <2>2, <2>3 DEF Outs
  <2>4. CASE \E m : /\ r.out = Append(s.out, m) /\ m.k = k /\ m.nonce = nonce
                    /\ m.mic = IF withMic THEN s.PTK ELSE None
                    /\ withMic => s.PTK_valid
    <3>1. PICK m : /\ r.out = Append(s.out, m) /\ m.k = k /\ m.nonce = nonce
                   /\ m.mic = IF withMic THEN s.PTK ELSE None
                   /\ withMic => s.PTK_valid
      BY <2>4
    <3>2. Sent(m, s.PTK, j) /\ (s.PTK \in cs => m.k = "3/4")
      BY <2>1, <3>1 DEF Sent
    <3>3. IsSeq(s.out) BY <2>1 DEF Outs
    <3>4. /\ IsSeq(Append(s.out, m))
          /\ \A i \in DOMAIN Append(s.out, m) :
               Append(s.out, m)[i] = m \/ (i \in DOMAIN s.out /\ Append(s.out, m)[i] = s.out[i])
      BY <3>3, AppendFrame
    <3>5. PICK o : o = r.out OBVIOUS
    <3>6. IsSeq(o) /\ \A i \in DOMAIN o : o[i] = m \/ (i \in DOMAIN s.out /\ o[i] = s.out[i])
      BY <3>1, <3>4, <3>5
    <3>7. \A i \in DOMAIN o : Sent(o[i], s.PTK, j) /\ (s.PTK \in cs => o[i].k = "3/4")
      BY <2>1, <3>2, <3>6 DEF Outs
    <3> QED BY <2>2, <3>5, <3>6, <3>7 DEF Outs
  <2> QED BY <1>1, <2>3, <2>4
<1>4. Base(r, t, cs, j, w, h)
  BY <1>2, <1>3 DEF Kin, Base, GroupReady
<1> QED BY <1>1, <1>2, <1>4 DEF r

\* SM_STEP(WPA_PTK), one line for each transition.
LEMMA PtkCases ==
  ASSUME NEW s
  PROVE  LET r == PTK_Step(s)
             st == s.ptkSt
         IN
    \/ s.Init /\ r = PTK_INITIALIZE(s)
    \/ ~s.Init /\ s.Disconnect /\ r = PTK_DISCONNECT(s)
    \/ ~s.Init /\ ~s.Disconnect /\ s.AuthenticationRequest /\ r = PTK_AUTHENTICATION(s)
    \/ ~s.Init /\ ~s.Disconnect /\ ~s.AuthenticationRequest /\ s.PTKRequest /\ r = PTK_PTKSTART(s)
    \/ /\ ~s.Init /\ ~s.Disconnect /\ ~s.AuthenticationRequest /\ ~s.PTKRequest
       /\ \/ st = "DISCONNECT" /\ r = PTK_DISCONNECTED(s)
          \/ st = "DISCONNECTED" /\ r = PTK_INITIALIZE(s)
          \/ st = "AUTHENTICATION" /\ r = PTK_AUTHENTICATION2(s)
          \/ st = "AUTHENTICATION2" /\ r = PTK_INITPSK(s)
          \/ st = "INITPSK" /\ r = PTK_PTKSTART(s)
          \/ st = "PTKSTART" /\ PairwiseReceived(s) /\ r = PTK_PTKCALCNEGOTIATING(s)
          \/ st = "PTKSTART" /\ ~PairwiseReceived(s) /\ s.TimeoutCtr > UpdateCount /\ r = PTK_DISCONNECT(s)
          \/ st = "PTKSTART" /\ ~PairwiseReceived(s) /\ s.TimeoutEvt /\ r = PTK_PTKSTART(s)
          \/ st = "PTKCALCNEGOTIATING" /\ s.MICVerified /\ r = PTK_PTKCALCNEGOTIATING2(s)
          \/ /\ st = "PTKCALCNEGOTIATING" /\ ~s.MICVerified /\ PairwiseReceived(s)
             /\ r = PTK_PTKCALCNEGOTIATING(s)
          \/ /\ st = "PTKCALCNEGOTIATING" /\ ~s.MICVerified /\ ~PairwiseReceived(s) /\ s.TimeoutEvt
             /\ r = PTK_PTKSTART(s)
          \/ st = "PTKCALCNEGOTIATING2" /\ r = PTK_PTKINITNEGOTIATING(s)
          \/ st = "PTKINITNEGOTIATING" /\ s.update_snonce /\ r = PTK_PTKCALCNEGOTIATING(s)
          \/ /\ st = "PTKINITNEGOTIATING" /\ ~s.update_snonce /\ PairwiseReceived(s) /\ s.MICVerified
             /\ r = PTK_PTKINITDONE(s)
          \/ /\ st = "PTKINITNEGOTIATING" /\ ~s.update_snonce /\ s.TimeoutCtr > UpdateCount
             /\ ~(PairwiseReceived(s) /\ s.MICVerified) /\ r = PTK_DISCONNECT(s)
          \/ /\ st = "PTKINITNEGOTIATING" /\ ~s.update_snonce /\ s.TimeoutEvt
             /\ ~(PairwiseReceived(s) /\ s.MICVerified) /\ r = PTK_PTKINITNEGOTIATING(s)
          \/ /\ r = s
             /\ st \notin {"DISCONNECT", "DISCONNECTED", "AUTHENTICATION", "AUTHENTICATION2", "INITPSK",
                           "PTKCALCNEGOTIATING2"}
             /\ st = "PTKSTART" => /\ ~PairwiseReceived(s) /\ ~(s.TimeoutCtr > UpdateCount)
                                   /\ s.TimeoutEvt => ~(s.TimeoutCtr <= UpdateCount)
             /\ st = "PTKCALCNEGOTIATING" => ~s.MICVerified /\ ~PairwiseReceived(s) /\ ~s.TimeoutEvt
             /\ st = "PTKINITNEGOTIATING" =>
                  /\ ~s.update_snonce /\ ~(PairwiseReceived(s) /\ s.MICVerified)
                  /\ ~(s.TimeoutCtr > UpdateCount)
                  /\ s.TimeoutEvt => ~(s.TimeoutCtr <= UpdateCount)
<1>1. CASE s.Init \/ s.Disconnect \/ s.AuthenticationRequest \/ s.PTKRequest
  BY <1>1 DEF PTK_Step
<1>2. CASE ~s.Init /\ ~s.Disconnect /\ ~s.AuthenticationRequest /\ ~s.PTKRequest
  <2>1. CASE s.ptkSt \in {"DISCONNECT", "DISCONNECTED", "AUTHENTICATION", "AUTHENTICATION2", "INITPSK",
                         "PTKCALCNEGOTIATING2"}
    BY <1>2, <2>1 DEF PTK_Step
  <2>2. CASE s.ptkSt = "PTKSTART" BY <1>2, <2>2 DEF PTK_Step
  <2>3. CASE s.ptkSt = "PTKCALCNEGOTIATING" BY <1>2, <2>3 DEF PTK_Step
  <2>4. CASE s.ptkSt = "PTKINITNEGOTIATING" BY <1>2, <2>4 DEF PTK_Step
  <2>5. CASE s.ptkSt \notin {"DISCONNECT", "DISCONNECTED", "AUTHENTICATION", "AUTHENTICATION2", "INITPSK",
                            "PTKCALCNEGOTIATING2", "PTKSTART", "PTKCALCNEGOTIATING", "PTKINITNEGOTIATING"}
    BY <1>2, <2>5 DEF PTK_Step
  <2> QED BY <2>1, <2>2, <2>3, <2>4, <2>5
<1> QED BY <1>1, <1>2

\* SM_STEP(WPA_PTK_GROUP)
LEMMA GroupCases ==
  ASSUME NEW s
  PROVE  LET r == GROUP_Step(s) IN
    \/ s.Init /\ r = GROUP_IDLE(s)
    \/ /\ ~s.Init
       /\ \/ GroupReady(s) /\ r = GROUP_REKEYNEGOTIATING(s)
          \/ s.grpSt = "REKEYNEGOTIATING" /\ GroupReceived(s) /\ r = GROUP_REKEYESTABLISHED(s)
          \/ s.grpSt = "REKEYNEGOTIATING" /\ ~GroupReceived(s) /\ r = GROUP_KEYERROR(s)
          \/ s.grpSt = "REKEYNEGOTIATING" /\ ~GroupReceived(s) /\ s.TimeoutEvt /\ r = GROUP_REKEYNEGOTIATING(s)
          \/ s.grpSt \in {"KEYERROR", "REKEYESTABLISHED"} /\ r = GROUP_IDLE(s)
          \/ /\ r = s /\ ~GroupReady(s) /\ s.grpSt \notin {"KEYERROR", "REKEYESTABLISHED"}
             /\ s.grpSt = "REKEYNEGOTIATING" => ~GroupReceived(s)
BY DEF GROUP_Step, GroupReady

\* wpa_send_eapol keeps the record's shape and decides nothing about the link.
LEMMA SendKick ==
  ASSUME NEW s, IsAp(s), NEW k, NEW withMic, NEW nonce, NEW g
  PROVE  LET r == wpa_send_eapol(s, k, withMic, nonce, g) IN IsAp(r) /\ r.kick = s.kick
<1> DEFINE r == wpa_send_eapol(s, k, withMic, nonce, g)
<1>1. IsAp(r) /\ \A f \in ApFields \ {"key_replay", "out", "resend_eapol"} : r[f] = s[f]
  BY SendKeeps
<1> HIDE DEF r
<1> QED BY <1>1 DEF ApFields, r

\* The transitions of the pairwise machine keep the record's shape, and a
\* disconnect they have asked for (wpa_sta_disconnect) stays asked for.
LEMMA PtkKick ==
  ASSUME NEW s, IsAp(s)
  PROVE  IsAp(PTK_Step(s)) /\ (s.kick => PTK_Step(s).kick)
<1> DEFINE Ok(r) == IsAp(r) /\ (s.kick => r.kick)
<1>1. Ok(PTK_INITIALIZE(s))
  <2> DEFINE s1 == Ptk_Enter(s, "INITIALIZE")
             s2 == wpa_remove_ptk(s1)
  <2>1. IsAp(s1) /\ s1.kick = s.kick BY DEF Ptk_Enter, IsAp, Shape, ApFields
  <2>2. PTK_INITIALIZE(s) = [s2 EXCEPT !.changed = ~s.Init, !.TimeoutCtr = 0,
                                       !.PInitAKeys = s2.PInitAKeys /\ conf.proto # "WPA"]
    BY DEF PTK_INITIALIZE
  <2> HIDE DEF s1
  <2>3. IsAp(s2) /\ s2.kick = s.kick BY <2>1 DEF wpa_remove_ptk, IsAp, Shape, ApFields
  <2> HIDE DEF s2
  <2>4. PICK b : b = (s2.PInitAKeys /\ conf.proto # "WPA") OBVIOUS
  <2>5. PICK a : a = ~s.Init OBVIOUS
  <2>6. PTK_INITIALIZE(s) = [s2 EXCEPT !.changed = a, !.TimeoutCtr = 0, !.PInitAKeys = b]
    BY <2>2, <2>4, <2>5, Zenon
  <2> DEFINE r == PTK_INITIALIZE(s)
  <2>7. Shape(r) /\ r.TimeoutCtr = 0 /\ r.kick = s.kick BY <2>3, <2>6 DEF IsAp, Shape, ApFields
  <2> HIDE DEF r
  <2> QED BY <2>7 DEF IsAp, r
<1>2. Ok(PTK_DISCONNECT(s)) BY DEF PTK_DISCONNECT, Ptk_Enter, IsAp, Shape, ApFields
<1>3. Ok(PTK_DISCONNECTED(s)) BY DEF PTK_DISCONNECTED, Ptk_Enter, IsAp, Shape, ApFields
<1>4. Ok(PTK_AUTHENTICATION(s)) BY DEF PTK_AUTHENTICATION, Ptk_Enter, IsAp, Shape, ApFields
<1>5. Ok(PTK_AUTHENTICATION2(s)) BY DEF PTK_AUTHENTICATION2, Ptk_Enter, IsAp, Shape, ApFields
<1>6. Ok(PTK_INITPSK(s)) BY DEF PTK_INITPSK, Ptk_Enter, IsAp, Shape, ApFields
<1>7. Ok(PTK_PTKSTART(s))
  <2> DEFINE s1 == [Ptk_Enter(s, "PTKSTART") EXCEPT
                      !.PTKRequest = FALSE, !.TimeoutEvt = FALSE, !.TimeoutCtr = @ + 1]
  <2>1. IsAp(s1) /\ s1.kick = s.kick
    <3>1. Shape(s1) /\ s1.TimeoutCtr = s.TimeoutCtr + 1 /\ s1.kick = s.kick
      BY DEF Ptk_Enter, IsAp, Shape, ApFields
    <3> HIDE DEF s1
    <3> QED BY <3>1 DEF IsAp
  <2>2. PTK_PTKSTART(s) \in {s1, wpa_send_eapol(s1, "1/4", FALSE, s1.ANonce, 0)}
    BY DEF PTK_PTKSTART
  <2> HIDE DEF s1
  <2> QED BY <2>1, <2>2, SendKick
<1>8. Ok(PTK_PTKCALCNEGOTIATING(s))
  <2> DEFINE s1 == [Ptk_Enter(s, "PTKCALCNEGOTIATING") EXCEPT
                      !.EAPOLKeyReceived = FALSE, !.update_snonce = FALSE]
             key == PTK(conf.apPmk, s.ANonce, s.SNonce)
  <2>1. IsAp(s1) /\ s1.kick = s.kick BY DEF Ptk_Enter, IsAp, Shape, ApFields
  <2>2. PTK_PTKCALCNEGOTIATING(s) \in {s1, [s1 EXCEPT !.MICVerified = TRUE, !.PTK = key, !.PTK_valid = TRUE]}
    BY DEF PTK_PTKCALCNEGOTIATING
  <2> HIDE DEF s1, key
  <2> QED BY <2>1, <2>2 DEF IsAp, Shape, ApFields
<1>9. Ok(PTK_PTKCALCNEGOTIATING2(s)) BY DEF PTK_PTKCALCNEGOTIATING2, Ptk_Enter, IsAp, Shape, ApFields
<1>10. Ok(PTK_PTKINITNEGOTIATING(s))
  <2> DEFINE s1 == [Ptk_Enter(s, "PTKINITNEGOTIATING") EXCEPT !.TimeoutEvt = FALSE, !.TimeoutCtr = @ + 1]
             g == IF conf.proto = "RSN" THEN gtk ELSE 0
  <2>1. IsAp(s1) /\ s1.kick = s.kick
    <3>1. Shape(s1) /\ s1.TimeoutCtr = s.TimeoutCtr + 1 /\ s1.kick = s.kick
      BY DEF Ptk_Enter, IsAp, Shape, ApFields
    <3> HIDE DEF s1
    <3> QED BY <3>1 DEF IsAp
  <2>2. PTK_PTKINITNEGOTIATING(s) \in {s1, wpa_send_eapol(s1, "3/4", TRUE, s1.ANonce, g)}
    BY DEF PTK_PTKINITNEGOTIATING
  <2> HIDE DEF s1, g
  <2> QED BY <2>1, <2>2, SendKick
<1>11. Ok(PTK_PTKINITDONE(s)) 
  <2> DEFINE s1 == Ptk_Enter(s, "PTKINITDONE")
  <2>1. IsAp(s1) /\ s1.kick = s.kick BY DEF Ptk_Enter, IsAp, Shape, ApFields
  <2>2. PICK b : b = (s1.PInitAKeys \/ conf.proto = "WPA") OBVIOUS
  <2>3. PTK_PTKINITDONE(s) = [s1 EXCEPT !.EAPOLKeyReceived = FALSE, !.key = s.PTK, !.pairwise_set = TRUE,
                                        !.PInitAKeys = b]
    BY <2>2, Zenon DEF PTK_PTKINITDONE
  <2> HIDE DEF s1
  <2> QED BY <2>1, <2>3 DEF IsAp, Shape, ApFields
<1>12. Ok(s) OBVIOUS
<1> HIDE DEF Ok
<1>13. Ok(PTK_Step(s))
  BY <1>1, <1>2, <1>3, <1>4, <1>5, <1>6, <1>7, <1>8, <1>9, <1>10, <1>11, <1>12, PtkCases
<1> QED BY <1>13 DEF Ok

\* So do those of the group machine.
LEMMA GroupKick ==
  ASSUME NEW s, IsAp(s)
  PROVE  IsAp(GROUP_Step(s)) /\ (s.kick => GROUP_Step(s).kick)
<1> DEFINE Ok(r) == IsAp(r) /\ (s.kick => r.kick)
<1>1. Ok(GROUP_IDLE(s)) BY DEF GROUP_IDLE, Group_Enter, IsAp, Shape, ApFields
<1>2. Ok(GROUP_REKEYNEGOTIATING(s))
  <2> DEFINE s1 == [Group_Enter(s, "REKEYNEGOTIATING") EXCEPT !.GTimeoutCtr = @ + 1]
             b == s1.PInitAKeys /\ conf.proto # "WPA"
             s2 == [s1 EXCEPT !.PInitAKeys = b, !.TimeoutEvt = FALSE]
  <2>1. IsAp(s1) /\ s1.kick = s.kick BY DEF Group_Enter, IsAp, Shape, ApFields
  <2>2. GROUP_REKEYNEGOTIATING(s) \in {s1, wpa_send_eapol(s2, "1/2", TRUE, 0, gtk)}
    BY DEF GROUP_REKEYNEGOTIATING
  <2> HIDE DEF s1, b
  <2>3. IsAp(s2) /\ s2.kick = s.kick BY <2>1 DEF IsAp, Shape, ApFields
  <2> HIDE DEF s2
  <2> QED BY <2>1, <2>2, <2>3, SendKick
<1>3. Ok(GROUP_REKEYESTABLISHED(s)) BY DEF GROUP_REKEYESTABLISHED, Group_Enter, IsAp, Shape, ApFields
<1>4. Ok(GROUP_KEYERROR(s)) BY DEF GROUP_KEYERROR, Group_Enter, IsAp, Shape, ApFields
<1>5. Ok(s) OBVIOUS
<1> HIDE DEF Ok
<1>6. Ok(GROUP_Step(s)) BY <1>1, <1>2, <1>3, <1>4, <1>5, GroupCases
<1> QED BY <1>6 DEF Ok

\* A step of the pairwise machine keeps the group machine and what was received.
SameGroup(s, r) ==
  /\ r.grpSt = s.grpSt /\ r.Disconnect = s.Disconnect /\ r.PInitAKeys = s.PInitAKeys
  /\ r.EAPOLKeyReceived = s.EAPOLKeyReceived /\ r.EAPOLKeyRequest = s.EAPOLKeyRequest
  /\ r.EAPOLKeyPairwise = s.EAPOLKeyPairwise /\ r.MICVerified = s.MICVerified

\* 1/4 is sent, or the tries are used up.
LEMMA Enter1of4 ==
  ASSUME NEW s, IsAp(s), NEW t, NEW cs, NEW j, NEW w, NEW h, None \notin cs,
         NEW s0, \A f \in ApFields \ {"ptkSt", "PTKRequest", "TimeoutEvt"} : s0[f] = s[f],
         s0.ptkSt = "PTKSTART", s0.PTKRequest = FALSE, s0.TimeoutEvt = FALSE,
         Base(s0, t, cs, j, w, h)
  PROVE  LET r == PTK_PTKSTART(s) IN
           IsAp(r) /\ SameGroup(s, r) /\ Base(r, t, cs, j, w, h) /\ r.ptkSt = "PTKSTART" /\ r.kick = s.kick
<1> DEFINE s1 == [Ptk_Enter(s, "PTKSTART") EXCEPT
                      !.PTKRequest = FALSE, !.TimeoutEvt = FALSE, !.TimeoutCtr = @ + 1]
<1>1. /\ IsAp(s1)
      /\ \A f \in ApFields \ {"ptkSt", "changed", "PTKRequest", "TimeoutEvt", "TimeoutCtr"} : s1[f] = s[f]
      /\ s1.ptkSt = "PTKSTART" /\ s1.PTKRequest = FALSE /\ s1.TimeoutEvt = FALSE
  <2>1. /\ Shape(s1) /\ s1.TimeoutCtr = s.TimeoutCtr + 1
        /\ \A f \in ApFields \ {"ptkSt", "changed", "PTKRequest", "TimeoutEvt", "TimeoutCtr"} : s1[f] = s[f]
        /\ s1.ptkSt = "PTKSTART" /\ s1.PTKRequest = FALSE /\ s1.TimeoutEvt = FALSE
    BY DEF Ptk_Enter, IsAp, Shape, ApFields
  <2> HIDE DEF s1
  <2> QED BY <2>1 DEF IsAp
<1>2. /\ \A f \in ApFields \ {"ptkSt", "PTKRequest", "TimeoutEvt"} : s0[f] = s[f]
      /\ s0.ptkSt = "PTKSTART" /\ s0.PTKRequest = FALSE /\ s0.TimeoutEvt = FALSE
  OBVIOUS
<1>3. PTK_PTKSTART(s) \in {s1, wpa_send_eapol(s1, "1/4", FALSE, s1.ANonce, 0)}
  BY DEF PTK_PTKSTART
<1>4. Base(s0, t, cs, j, w, h) OBVIOUS
<1> HIDE DEF s1
<1>5. \A f \in ApFields \ {"changed", "TimeoutCtr"} : s1[f] = s0[f] BY <1>1, <1>2 DEF ApFields
<1>6. Base(s1, t, cs, j, w, h) /\ s1.ANonce = j /\ s1.PTK \notin cs
  <2>1. /\ s1.ptkSt = s0.ptkSt /\ s1.grpSt = s0.grpSt /\ s1.Init = s0.Init
        /\ s1.Disconnect = s0.Disconnect /\ s1.AuthenticationRequest = s0.AuthenticationRequest
        /\ s1.PTKRequest = s0.PTKRequest /\ s1.assoc = s0.assoc /\ s1.ANonce = s0.ANonce /\ s1.SNonce = s0.SNonce
        /\ s1.PTK = s0.PTK /\ s1.PTK_valid = s0.PTK_valid /\ s1.key = s0.key /\ s1.TimeoutEvt = s0.TimeoutEvt
        /\ s1.EAPOLKeyReceived = s0.EAPOLKeyReceived
        /\ s1.EAPOLKeyPairwise = s0.EAPOLKeyPairwise /\ s1.EAPOLKeyRequest = s0.EAPOLKeyRequest
        /\ s1.MICVerified = s0.MICVerified /\ s1.update_snonce = s0.update_snonce
        /\ s1.PInitAKeys = s0.PInitAKeys /\ s1.out = s0.out
    BY <1>5 DEF ApFields
  <2>2. Outs(s1, cs, j) BY <1>4, <2>1 DEF Base, Outs
  <2>3. Base(s1, t, cs, j, w, h) BY <1>4, <2>1, <2>2 DEF Base, GroupReady
  <2> QED BY <1>1, <2>3 DEF Base
<1>7. SameGroup(s, s1) /\ s1.kick = s.kick BY <1>1 DEF SameGroup, ApFields
<1>8. CASE PTK_PTKSTART(s) = s1 BY <1>1, <1>6, <1>7, <1>8
<1>9. CASE PTK_PTKSTART(s) = wpa_send_eapol(s1, "1/4", FALSE, s1.ANonce, 0)
  <2> DEFINE r == wpa_send_eapol(s1, "1/4", FALSE, s1.ANonce, 0)
  <2>1. IsAp(r) /\ Kin(s1, r) /\ Base(r, t, cs, j, w, h) BY <1>1, <1>6, SendBase
  <2> HIDE DEF r
  <2>2. SameGroup(s, r) /\ r.ptkSt = "PTKSTART" /\ r.kick = s.kick
    BY <1>1, <1>7, <2>1 DEF SameGroup, Kin
  <2> QED BY <1>9, <2>1, <2>2 DEF r
<1> QED BY <1>3, <1>8, <1>9

\* 3/4 is sent, or the tries are used up.
LEMMA Enter3of4 ==
  ASSUME NEW s, IsAp(s), NEW t, NEW cs, NEW j, NEW w, NEW h, None \notin cs,
         NEW s0, \A f \in ApFields \ {"ptkSt", "TimeoutEvt"} : s0[f] = s[f],
         s0.ptkSt = "PTKINITNEGOTIATING", s0.TimeoutEvt = FALSE,
         Base(s0, t, cs, j, w, h)
  PROVE  LET r == PTK_PTKINITNEGOTIATING(s) IN
           IsAp(r) /\ SameGroup(s, r) /\ Base(r, t, cs, j, w, h) /\ r.ptkSt = "PTKINITNEGOTIATING" /\ r.kick = s.kick
<1> DEFINE s1 == [Ptk_Enter(s, "PTKINITNEGOTIATING") EXCEPT !.TimeoutEvt = FALSE, !.TimeoutCtr = @ + 1]
           g == IF conf.proto = "RSN" THEN gtk ELSE 0
<1>1. /\ IsAp(s1)
      /\ \A f \in ApFields \ {"ptkSt", "changed", "TimeoutEvt", "TimeoutCtr"} : s1[f] = s[f]
      /\ s1.ptkSt = "PTKINITNEGOTIATING" /\ s1.TimeoutEvt = FALSE
  <2>1. /\ Shape(s1) /\ s1.TimeoutCtr = s.TimeoutCtr + 1
        /\ \A f \in ApFields \ {"ptkSt", "changed", "TimeoutEvt", "TimeoutCtr"} : s1[f] = s[f]
        /\ s1.ptkSt = "PTKINITNEGOTIATING" /\ s1.TimeoutEvt = FALSE
    BY DEF Ptk_Enter, IsAp, Shape, ApFields
  <2> HIDE DEF s1
  <2> QED BY <2>1 DEF IsAp
<1>2. /\ \A f \in ApFields \ {"ptkSt", "TimeoutEvt"} : s0[f] = s[f]
      /\ s0.ptkSt = "PTKINITNEGOTIATING" /\ s0.TimeoutEvt = FALSE
  OBVIOUS
<1>3. PTK_PTKINITNEGOTIATING(s) \in {s1, wpa_send_eapol(s1, "3/4", TRUE, s1.ANonce, g)}
  BY DEF PTK_PTKINITNEGOTIATING
<1>4. Base(s0, t, cs, j, w, h) OBVIOUS
<1> HIDE DEF s1, g
<1>5. \A f \in ApFields \ {"changed", "TimeoutCtr"} : s1[f] = s0[f] BY <1>1, <1>2 DEF ApFields
<1>6. Base(s1, t, cs, j, w, h) /\ s1.ANonce = j
  <2>1. /\ s1.ptkSt = s0.ptkSt /\ s1.grpSt = s0.grpSt /\ s1.Init = s0.Init
        /\ s1.Disconnect = s0.Disconnect /\ s1.AuthenticationRequest = s0.AuthenticationRequest
        /\ s1.PTKRequest = s0.PTKRequest /\ s1.assoc = s0.assoc /\ s1.ANonce = s0.ANonce /\ s1.SNonce = s0.SNonce
        /\ s1.PTK = s0.PTK /\ s1.PTK_valid = s0.PTK_valid /\ s1.key = s0.key /\ s1.TimeoutEvt = s0.TimeoutEvt
        /\ s1.EAPOLKeyReceived = s0.EAPOLKeyReceived
        /\ s1.EAPOLKeyPairwise = s0.EAPOLKeyPairwise /\ s1.EAPOLKeyRequest = s0.EAPOLKeyRequest
        /\ s1.MICVerified = s0.MICVerified /\ s1.update_snonce = s0.update_snonce
        /\ s1.PInitAKeys = s0.PInitAKeys /\ s1.out = s0.out
    BY <1>5 DEF ApFields
  <2>2. Outs(s1, cs, j) BY <1>4, <2>1 DEF Base, Outs
  <2>3. Base(s1, t, cs, j, w, h) BY <1>4, <2>1, <2>2 DEF Base, GroupReady
  <2> QED BY <1>1, <2>3 DEF Base
<1>7. SameGroup(s, s1) /\ s1.kick = s.kick BY <1>1 DEF SameGroup, ApFields
<1>8. CASE PTK_PTKINITNEGOTIATING(s) = s1 BY <1>1, <1>6, <1>7, <1>8
<1>9. CASE PTK_PTKINITNEGOTIATING(s) = wpa_send_eapol(s1, "3/4", TRUE, s1.ANonce, g)
  <2> DEFINE r == wpa_send_eapol(s1, "3/4", TRUE, s1.ANonce, g)
  <2>1. IsAp(r) /\ Kin(s1, r) /\ Base(r, t, cs, j, w, h) BY <1>1, <1>6, SendBase
  <2> HIDE DEF r
  <2>2. SameGroup(s, r) /\ r.ptkSt = "PTKINITNEGOTIATING" /\ r.kick = s.kick
    BY <1>1, <1>7, <2>1 DEF SameGroup, Kin
  <2> QED BY <1>9, <2>1, <2>2 DEF r
<1> QED BY <1>3, <1>8, <1>9

\* The fields the invariant of the machine reads.
BaseFields == {"assoc", "ptkSt", "ANonce", "Init", "AuthenticationRequest", "PTKRequest", "update_snonce",
               "PTK", "PTK_valid", "MICVerified", "key", "TimeoutEvt", "SNonce", "EAPOLKeyReceived",
               "grpSt", "PInitAKeys", "out"}

\* A machine with the same values in those fields satisfies it too.
LEMMA BaseSame ==
  ASSUME NEW s, NEW r, NEW t, NEW cs, NEW j, NEW w, NEW h, Base(s, t, cs, j, w, h),
         \A f \in BaseFields : r[f] = s[f]
  PROVE  Base(r, t, cs, j, w, h)
<1>1. /\ r.ptkSt = s.ptkSt /\ r.grpSt = s.grpSt /\ r.Init = s.Init
      /\ r.AuthenticationRequest = s.AuthenticationRequest
      /\ r.PTKRequest = s.PTKRequest /\ r.assoc = s.assoc /\ r.ANonce = s.ANonce /\ r.SNonce = s.SNonce
      /\ r.PTK = s.PTK /\ r.PTK_valid = s.PTK_valid /\ r.key = s.key /\ r.TimeoutEvt = s.TimeoutEvt
      /\ r.EAPOLKeyReceived = s.EAPOLKeyReceived
      /\ r.MICVerified = s.MICVerified /\ r.update_snonce = s.update_snonce
      /\ r.PInitAKeys = s.PInitAKeys /\ r.out = s.out
  BY DEF BaseFields
<1>2. Outs(r, cs, j) BY <1>1 DEF Base, Outs
<1> QED BY <1>1, <1>2 DEF Base, GroupReady

\* A later pass of the pairwise machine.
LEMMA PtkNext ==
  ASSUME NEW s, NEW n \in 1..3, NEW t, NEW cs, NEW j, NEW w, NEW h, None \notin cs,
         Whole(s, n, t, cs, j, w, h)
  PROVE  Half(PTK_Step([s EXCEPT !.changed = FALSE]), IF n = 1 THEN 2 ELSE 3, t, cs, j, w, h)
<1> DEFINE s0 == [s EXCEPT !.changed = FALSE]
           n1 == IF n = 1 THEN 2 ELSE 3
           r == PTK_Step(s0)
<1> SUFFICES Half(r, n1, t, cs, j, w, h) OBVIOUS
<1>1. IsAp(s0) /\ \A f \in ApFields \ {"changed"} : s0[f] = s[f]
  BY DEF Whole, IsAp, Shape, ApFields
<1> HIDE DEF s0
<1>2. IsAp(r) /\ (s0.kick => r.kick) BY <1>1, PtkKick
<1>3. CASE s0.kick BY <1>2, <1>3 DEF Half
<1>4. CASE ~s0.kick
  <2>1. /\ Base(s, t, cs, j, w, h) /\ Progress(s, n)
        /\ s.grpSt \in {"IDLE", "REKEYNEGOTIATING", "REKEYESTABLISHED", "KEYERROR"}
        /\ s.grpSt = "KEYERROR" => s.Disconnect
        /\ s.grpSt = "REKEYESTABLISHED" => n = 1 /\ s.changed
        /\ GroupReady(s) => n = 2 /\ s.changed
        /\ s.EAPOLKeyReceived => s.EAPOLKeyRequest
    BY <1>1, <1>4 DEF Whole, ApFields
  <2>2. Base(s0, t, cs, j, w, h) BY <1>1, <2>1, BaseSame DEF BaseFields, ApFields
  <2>3. /\ s0.grpSt \in {"IDLE", "REKEYNEGOTIATING", "REKEYESTABLISHED", "KEYERROR"}
        /\ s0.grpSt = "KEYERROR" => s0.Disconnect
        /\ s0.grpSt = "REKEYESTABLISHED" => n = 1
        /\ s0.EAPOLKeyReceived => s0.EAPOLKeyRequest
        /\ s0.ptkSt = "PTKCALCNEGOTIATING" => ~SamePmk \/ (n = 1 /\ s0.MICVerified)
        /\ s0.ptkSt = "PTKCALCNEGOTIATING2" => n = 2
    BY <1>1, <2>1 DEF ApFields, Progress
  <2>4. ~PairwiseReceived(s0) BY <2>3 DEF PairwiseReceived
  <2>5. /\ ~s0.Init /\ ~s0.AuthenticationRequest /\ ~s0.PTKRequest /\ ~s0.update_snonce
        /\ s0.ptkSt \in Running
        /\ s0.ptkSt \in {"PTKSTART", "PTKCALCNEGOTIATING", "PTKCALCNEGOTIATING2", "PTKINITNEGOTIATING"} =>
             ~s0.TimeoutEvt
    BY <2>2 DEF Base
  <2>6. CASE s0.Disconnect
    <3>1. r = PTK_DISCONNECT(s0) BY <2>5, <2>6, PtkCases
    <3>2. PTK_DISCONNECT(s0).kick BY <1>1 DEF PTK_DISCONNECT, Ptk_Enter, IsAp, Shape, ApFields
    <3> QED BY <1>2, <3>1, <3>2 DEF Half
  <2>7. CASE ~s0.Disconnect
    <3>1. ASSUME SameGroup(s0, r), Base(r, t, cs, j, w, h), Progress(r, n1)
          PROVE  Half(r, n1, t, cs, j, w, h)
      BY <1>2, <2>3, <2>7, <3>1 DEF Half, SameGroup
    <3>5. CASE s0.ptkSt = "PTKCALCNEGOTIATING" /\ s0.MICVerified /\ r = PTK_PTKCALCNEGOTIATING2(s0)
      <4>1. /\ \A f \in ApFields \ {"ptkSt", "changed", "TimeoutCtr"} : r[f] = s0[f]
            /\ r.ptkSt = "PTKCALCNEGOTIATING2" /\ r.changed = TRUE
        BY <1>1, <3>5 DEF PTK_PTKCALCNEGOTIATING2, Ptk_Enter, IsAp, Shape, ApFields
      <4> HIDE DEF r
      <4>2. n = 1 BY <2>2, <2>3, <3>5 DEF Base
      <4>3. SameGroup(s0, r) /\ Progress(r, n1) BY <4>1, <4>2 DEF SameGroup, Progress, ApFields
      <4>4. /\ r.assoc = s0.assoc /\ r.Init = s0.Init /\ r.AuthenticationRequest = s0.AuthenticationRequest
            /\ r.PTKRequest = s0.PTKRequest /\ r.update_snonce = s0.update_snonce /\ r.PTK = s0.PTK
            /\ r.MICVerified = s0.MICVerified /\ r.PTK_valid = s0.PTK_valid /\ r.out = s0.out
            /\ r.ANonce = s0.ANonce /\ r.SNonce = s0.SNonce /\ r.EAPOLKeyReceived = s0.EAPOLKeyReceived
            /\ r.grpSt = s0.grpSt /\ r.PInitAKeys = s0.PInitAKeys /\ r.TimeoutEvt = s0.TimeoutEvt
        BY <4>1 DEF ApFields
      <4>5. Outs(r, cs, j) BY <2>2, <4>4 DEF Base, Outs
      <4>6. Base(r, t, cs, j, w, h) BY <2>2, <3>5, <4>1, <4>4, <4>5 DEF Base, Running, GroupReady
      <4> QED BY <3>1, <4>3, <4>6 DEF r
    <3>6. CASE s0.ptkSt = "PTKCALCNEGOTIATING2" /\ r = PTK_PTKINITNEGOTIATING(s0)
      <4> DEFINE x == [s0 EXCEPT !.ptkSt = "PTKINITNEGOTIATING", !.TimeoutEvt = FALSE]
      <4>1. /\ \A f \in ApFields \ {"ptkSt", "TimeoutEvt"} : x[f] = s0[f]
            /\ x.ptkSt = "PTKINITNEGOTIATING" /\ x.TimeoutEvt = FALSE
        BY <1>1 DEF IsAp, Shape, ApFields
      <4> HIDE DEF x
      <4>3. /\ x.assoc = s0.assoc /\ x.Init = s0.Init /\ x.AuthenticationRequest = s0.AuthenticationRequest
            /\ x.PTKRequest = s0.PTKRequest /\ x.update_snonce = s0.update_snonce /\ x.PTK = s0.PTK
            /\ x.MICVerified = s0.MICVerified /\ x.PTK_valid = s0.PTK_valid /\ x.out = s0.out
            /\ x.ANonce = s0.ANonce /\ x.SNonce = s0.SNonce /\ x.EAPOLKeyReceived = s0.EAPOLKeyReceived
            /\ x.grpSt = s0.grpSt /\ x.PInitAKeys = s0.PInitAKeys
        BY <4>1 DEF ApFields
      <4>4. Outs(x, cs, j) BY <2>2, <4>3 DEF Base, Outs
      <4>5. Base(x, t, cs, j, w, h) BY <2>2, <3>6, <4>1, <4>3, <4>4 DEF Base, Running, GroupReady
      <4> HIDE DEF r
      <4>6. SameGroup(s0, r) /\ Base(r, t, cs, j, w, h) /\ r.ptkSt = "PTKINITNEGOTIATING"
        BY <1>1, <3>6, <4>1, <4>5, Enter3of4
      <4>7. Progress(r, n1) BY <4>6 DEF Progress
      <4> QED BY <3>1, <4>6, <4>7
    <3>7. CASE r = PTK_DISCONNECT(s0)
      <4>1. PTK_DISCONNECT(s0).kick BY <1>1 DEF PTK_DISCONNECT, Ptk_Enter, IsAp, Shape, ApFields
      <4> QED BY <1>2, <3>7, <4>1 DEF Half
    <3>8. CASE r = s0 /\ (s0.ptkSt = "PTKCALCNEGOTIATING" => ~s0.MICVerified) /\ s0.ptkSt # "PTKCALCNEGOTIATING2"
      <4>1. SameGroup(s0, s0) /\ Progress(s0, n1) BY <2>3, <3>8 DEF SameGroup, Progress
      <4> QED BY <2>2, <3>1, <3>8, <4>1
    <3> HIDE DEF r
    <3>9. \/ s0.ptkSt = "PTKCALCNEGOTIATING" /\ s0.MICVerified /\ r = PTK_PTKCALCNEGOTIATING2(s0)
          \/ s0.ptkSt = "PTKCALCNEGOTIATING2" /\ r = PTK_PTKINITNEGOTIATING(s0)
          \/ r = PTK_DISCONNECT(s0)
          \/ r = s0 /\ (s0.ptkSt = "PTKCALCNEGOTIATING" => ~s0.MICVerified) /\ s0.ptkSt # "PTKCALCNEGOTIATING2"
      BY <2>4, <2>5, <2>7, PtkCases DEF Running, r
    <3> QED BY <3>5, <3>6, <3>7, <3>8, <3>9 DEF r
  <2> QED BY <2>6, <2>7
<1> QED BY <1>3, <1>4 DEF s0

\* 1/2 is sent, or the tries are used up.
LEMMA Enter1of2 ==
  ASSUME NEW s, IsAp(s), NEW t, NEW cs, NEW j, NEW w, NEW h, None \notin cs,
         Base(s, t, cs, j, w, h), s.PTK \notin cs
  PROVE  LET r == GROUP_REKEYNEGOTIATING(s) IN
           /\ IsAp(r) /\ Base(r, t, cs, j, w, h) /\ r.grpSt = "REKEYNEGOTIATING" /\ r.changed = TRUE
           /\ r.ptkSt = s.ptkSt /\ r.MICVerified = s.MICVerified /\ r.EAPOLKeyReceived = s.EAPOLKeyReceived
           /\ r.EAPOLKeyRequest = s.EAPOLKeyRequest /\ r.kick = s.kick
<1> DEFINE s1 == [Group_Enter(s, "REKEYNEGOTIATING") EXCEPT !.GTimeoutCtr = @ + 1]
           b == s1.PInitAKeys /\ conf.proto # "WPA"
           s2 == [s1 EXCEPT !.PInitAKeys = b, !.TimeoutEvt = FALSE]
<1>1. /\ IsAp(s1) /\ \A f \in ApFields \ {"grpSt", "changed", "GTimeoutCtr"} : s1[f] = s[f]
      /\ s1.grpSt = "REKEYNEGOTIATING" /\ s1.changed = TRUE
  BY DEF Group_Enter, IsAp, Shape, ApFields
<1>2. GROUP_REKEYNEGOTIATING(s) \in {s1, wpa_send_eapol(s2, "1/2", TRUE, 0, gtk)}
  BY DEF GROUP_REKEYNEGOTIATING
<1> HIDE DEF s1, b
<1>3. /\ IsAp(s2) /\ \A f \in ApFields \ {"PInitAKeys", "TimeoutEvt"} : s2[f] = s1[f]
      /\ s2.TimeoutEvt = FALSE
  BY <1>1 DEF IsAp, Shape, ApFields
<1> HIDE DEF s2
<1>4. ASSUME NEW x, x \in {s1, s2}
      PROVE  /\ IsAp(x) /\ Base(x, t, cs, j, w, h) /\ x.grpSt = "REKEYNEGOTIATING" /\ x.changed = TRUE
             /\ x.ptkSt = s.ptkSt /\ x.MICVerified = s.MICVerified /\ x.EAPOLKeyReceived = s.EAPOLKeyReceived
             /\ x.EAPOLKeyRequest = s.EAPOLKeyRequest /\ x.kick = s.kick /\ x.PTK \notin cs
  <2>1. /\ IsAp(x) /\ x.grpSt = "REKEYNEGOTIATING" /\ x.changed = TRUE
        /\ \A f \in ApFields \ {"grpSt", "changed", "GTimeoutCtr", "PInitAKeys", "TimeoutEvt"} : x[f] = s[f]
        /\ x.TimeoutEvt => s.TimeoutEvt
    BY <1>1, <1>3, <1>4 DEF ApFields
  <2>2. /\ x.ptkSt = s.ptkSt /\ x.Init = s.Init
        /\ x.AuthenticationRequest = s.AuthenticationRequest
        /\ x.PTKRequest = s.PTKRequest /\ x.assoc = s.assoc /\ x.ANonce = s.ANonce /\ x.SNonce = s.SNonce
        /\ x.PTK = s.PTK /\ x.PTK_valid = s.PTK_valid /\ x.key = s.key
        /\ x.EAPOLKeyReceived = s.EAPOLKeyReceived /\ x.EAPOLKeyRequest = s.EAPOLKeyRequest
        /\ x.MICVerified = s.MICVerified /\ x.update_snonce = s.update_snonce
        /\ x.out = s.out /\ x.kick = s.kick
    BY <2>1 DEF ApFields
  <2>3. Outs(x, cs, j) BY <2>2 DEF Base, Outs
  <2>4. Base(x, t, cs, j, w, h) BY <2>1, <2>2, <2>3 DEF Base
  <2> QED BY <2>1, <2>2, <2>4
<1>5. CASE GROUP_REKEYNEGOTIATING(s) = s1 BY <1>4, <1>5
<1>6. CASE GROUP_REKEYNEGOTIATING(s) = wpa_send_eapol(s2, "1/2", TRUE, 0, gtk)
  <2> DEFINE r == wpa_send_eapol(s2, "1/2", TRUE, 0, gtk)
  <2>1. IsAp(r) /\ Kin(s2, r) /\ Base(r, t, cs, j, w, h) BY <1>4, SendBase
  <2> HIDE DEF r
  <2>2. /\ r.grpSt = "REKEYNEGOTIATING" /\ r.changed = TRUE
        /\ r.ptkSt = s.ptkSt /\ r.MICVerified = s.MICVerified /\ r.EAPOLKeyReceived = s.EAPOLKeyReceived
        /\ r.EAPOLKeyRequest = s.EAPOLKeyRequest /\ r.kick = s.kick
    BY <1>4, <2>1 DEF Kin
  <2> QED BY <1>6, <2>1, <2>2 DEF r
<1> QED BY <1>2, <1>5, <1>6

\* The group machine, in any pass.
LEMMA GroupNext ==
  ASSUME NEW s, NEW n \in 1..3, NEW t, NEW cs, NEW j, NEW w, NEW h, None \notin cs,
         Half(s, n, t, cs, j, w, h)
  PROVE  Whole(GROUP_Step(s), n, t, cs, j, w, h)
<1> DEFINE r == GROUP_Step(s)
<1> SUFFICES Whole(r, n, t, cs, j, w, h) OBVIOUS
<1>1. IsAp(s) BY DEF Half
<1>2. IsAp(r) /\ (s.kick => r.kick) BY <1>1, GroupKick
<1>3. CASE s.kick BY <1>2, <1>3 DEF Whole
<1>4. CASE ~s.kick
  <2>1. /\ Base(s, t, cs, j, w, h) /\ Progress(s, n) /\ ~s.Disconnect
        /\ s.grpSt \in {"IDLE", "REKEYNEGOTIATING", "REKEYESTABLISHED"}
        /\ s.grpSt = "REKEYESTABLISHED" => n = 2
        /\ s.EAPOLKeyReceived /\ ~s.EAPOLKeyRequest =>
             n = 1 /\ ~s.EAPOLKeyPairwise /\ s.MICVerified /\ s.grpSt = "REKEYNEGOTIATING"
    BY <1>4 DEF Half
  <2>2. ~s.Init BY <2>1 DEF Base
  <2>3. CASE r = GROUP_REKEYNEGOTIATING(s) /\ (GroupReady(s) \/ (s.TimeoutEvt /\ ~GroupReceived(s)))
    <3>1. s.PTK \notin cs BY <2>1, <2>3 DEF Base
    <3> HIDE DEF r
    <3>2. /\ IsAp(r) /\ Base(r, t, cs, j, w, h) /\ r.grpSt = "REKEYNEGOTIATING" /\ r.changed = TRUE
          /\ r.ptkSt = s.ptkSt /\ r.MICVerified = s.MICVerified /\ r.EAPOLKeyReceived = s.EAPOLKeyReceived
          /\ r.EAPOLKeyRequest = s.EAPOLKeyRequest /\ r.kick = s.kick
      BY <1>1, <2>1, <2>3, <3>1, Enter1of2
    <3>3. Progress(r, n) BY <2>1, <3>2 DEF Progress
    <3>4. r.EAPOLKeyReceived => r.EAPOLKeyRequest BY <2>1, <2>3, <3>2 DEF GroupReady, GroupReceived
    <3> QED BY <3>2, <3>3, <3>4 DEF Whole, GroupReady
  <2>4. CASE s.grpSt = "REKEYNEGOTIATING" /\ GroupReceived(s) /\ r = GROUP_REKEYESTABLISHED(s)
    <3>1. /\ \A f \in ApFields \ {"grpSt", "changed", "EAPOLKeyReceived", "GTimeoutCtr"} : r[f] = s[f]
          /\ r.grpSt = "REKEYESTABLISHED" /\ r.changed = TRUE /\ r.EAPOLKeyReceived = FALSE
      BY <1>1, <2>4 DEF GROUP_REKEYESTABLISHED, Group_Enter, IsAp, Shape, ApFields
    <3> HIDE DEF r
    <3>2. /\ r.ptkSt = s.ptkSt /\ r.Init = s.Init
          /\ r.AuthenticationRequest = s.AuthenticationRequest
          /\ r.PTKRequest = s.PTKRequest /\ r.assoc = s.assoc /\ r.ANonce = s.ANonce /\ r.SNonce = s.SNonce
          /\ r.PTK = s.PTK /\ r.PTK_valid = s.PTK_valid /\ r.key = s.key /\ r.TimeoutEvt = s.TimeoutEvt
          /\ r.MICVerified = s.MICVerified /\ r.update_snonce = s.update_snonce
          /\ r.out = s.out /\ r.kick = s.kick
      BY <3>1 DEF ApFields
    <3>3. s.PTK \notin cs /\ n = 1 BY <2>1, <2>4 DEF Base, GroupReceived
    <3>4. Outs(r, cs, j) BY <2>1, <3>2 DEF Base, Outs
    <3>5. Base(r, t, cs, j, w, h) BY <2>1, <3>2, <3>3, <3>4 DEF Base
    <3>6. Progress(r, n) BY <2>1, <3>1, <3>2 DEF Progress
    <3> QED BY <1>2, <3>1, <3>3, <3>5, <3>6 DEF Whole, GroupReady
  <2>5. CASE s.grpSt = "REKEYNEGOTIATING" /\ ~GroupReceived(s) /\ r = GROUP_KEYERROR(s)
    <3>1. /\ \A f \in ApFields \ {"grpSt", "changed", "Disconnect"} : r[f] = s[f]
          /\ r.grpSt = "KEYERROR" /\ r.changed = TRUE /\ r.Disconnect = TRUE
      BY <1>1, <2>5 DEF GROUP_KEYERROR, Group_Enter, IsAp, Shape, ApFields
    <3> HIDE DEF r
    <3>2. /\ r.ptkSt = s.ptkSt /\ r.Init = s.Init
          /\ r.AuthenticationRequest = s.AuthenticationRequest
          /\ r.PTKRequest = s.PTKRequest /\ r.assoc = s.assoc /\ r.ANonce = s.ANonce /\ r.SNonce = s.SNonce
          /\ r.PTK = s.PTK /\ r.PTK_valid = s.PTK_valid /\ r.key = s.key /\ r.TimeoutEvt = s.TimeoutEvt
          /\ r.MICVerified = s.MICVerified /\ r.update_snonce = s.update_snonce
          /\ r.EAPOLKeyReceived = s.EAPOLKeyReceived /\ r.EAPOLKeyRequest = s.EAPOLKeyRequest
          /\ r.out = s.out /\ r.kick = s.kick
      BY <3>1 DEF ApFields
    <3>4. Outs(r, cs, j) BY <2>1, <3>2 DEF Base, Outs
    <3>5. Base(r, t, cs, j, w, h) BY <2>1, <3>1, <3>2, <3>4 DEF Base, GroupReady
    <3>6. Progress(r, n) BY <2>1, <3>1, <3>2 DEF Progress
    <3>7. r.EAPOLKeyReceived => r.EAPOLKeyRequest BY <2>1, <2>5, <3>2 DEF GroupReceived
    <3> QED BY <1>2, <3>1, <3>5, <3>6, <3>7 DEF Whole, GroupReady
  <2>6. CASE s.grpSt = "REKEYESTABLISHED" /\ r = GROUP_IDLE(s)
    <3>1. /\ \A f \in ApFields \ {"grpSt", "changed", "GTimeoutCtr"} : r[f] = s[f]
          /\ r.grpSt = "IDLE" /\ r.changed = ~s.Init
      BY <1>1, <2>6 DEF GROUP_IDLE, Group_Enter, IsAp, Shape, ApFields
    <3> HIDE DEF r
    <3>2. /\ r.ptkSt = s.ptkSt /\ r.Init = s.Init
          /\ r.AuthenticationRequest = s.AuthenticationRequest
          /\ r.PTKRequest = s.PTKRequest /\ r.assoc = s.assoc /\ r.ANonce = s.ANonce /\ r.SNonce = s.SNonce
          /\ r.PTK = s.PTK /\ r.PTK_valid = s.PTK_valid /\ r.key = s.key /\ r.TimeoutEvt = s.TimeoutEvt
          /\ r.MICVerified = s.MICVerified /\ r.update_snonce = s.update_snonce
          /\ r.EAPOLKeyReceived = s.EAPOLKeyReceived /\ r.EAPOLKeyRequest = s.EAPOLKeyRequest
          /\ r.out = s.out /\ r.kick = s.kick
      BY <3>1 DEF ApFields
    <3>3. s.PTK \notin cs /\ n = 2 /\ r.changed BY <2>1, <2>2, <2>6, <3>1 DEF Base
    <3>4. Outs(r, cs, j) BY <2>1, <3>2 DEF Base, Outs
    <3>5. Base(r, t, cs, j, w, h) BY <2>1, <3>2, <3>3, <3>4 DEF Base
    <3>6. Progress(r, n) BY <2>1, <3>3, <3>2 DEF Progress
    <3>7. r.EAPOLKeyReceived => r.EAPOLKeyRequest BY <2>1, <2>6, <3>2
    <3> QED BY <1>2, <3>1, <3>3, <3>5, <3>6, <3>7 DEF Whole, GroupReady
  <2>7. CASE r = s /\ ~GroupReady(s) /\ s.grpSt # "REKEYESTABLISHED" /\ (s.grpSt = "REKEYNEGOTIATING" => ~GroupReceived(s))
    <3>1. s.EAPOLKeyReceived => s.EAPOLKeyRequest BY <2>1, <2>7 DEF GroupReceived
    <3> QED BY <1>1, <2>1, <2>7, <3>1 DEF Whole
  <2> HIDE DEF r
  <2>8. \/ r = GROUP_REKEYNEGOTIATING(s) /\ (GroupReady(s) \/ (s.TimeoutEvt /\ ~GroupReceived(s)))
        \/ s.grpSt = "REKEYNEGOTIATING" /\ GroupReceived(s) /\ r = GROUP_REKEYESTABLISHED(s)
        \/ s.grpSt = "REKEYNEGOTIATING" /\ ~GroupReceived(s) /\ r = GROUP_KEYERROR(s)
        \/ s.grpSt = "REKEYESTABLISHED" /\ r = GROUP_IDLE(s)
        \/ r = s /\ ~GroupReady(s) /\ s.grpSt # "REKEYESTABLISHED" /\ (s.grpSt = "REKEYNEGOTIATING" => ~GroupReceived(s))
    BY <2>1, <2>2, GroupCases DEF r
  <2> QED BY <2>3, <2>4, <2>5, <2>6, <2>7, <2>8
<1> QED BY <1>3, <1>4

\* The one member of a singleton.
LEMMA OnlyOne ==
  ASSUME NEW a
  PROVE  (CHOOSE y \in {a} : TRUE) = a
OBVIOUS

\* After is application: the model names a machine before it goes on with it.
LEMMA AfterSteps ==
  ASSUME NEW x
  PROVE  After(GROUP_Step, x) = GROUP_Step(x) /\ After(PTK_Step, x) = PTK_Step(x)
<1>1. {GROUP_Step(z) : z \in {x}} = {GROUP_Step(x)} OBVIOUS
<1>2. {PTK_Step(z) : z \in {x}} = {PTK_Step(x)} OBVIOUS
<1> QED BY <1>1, <1>2, OnlyOne DEF After

\* The same for a pass of wpa_sm_step.
LEMMA AfterPass ==
  ASSUME NEW x
  PROVE  After(Pass, x) = Pass(x)
<1>1. {Pass(z) : z \in {x}} = {Pass(x)} OBVIOUS
<1> QED BY <1>1, OnlyOne DEF After

\* The same for three passes.
LEMMA AfterPasses ==
  ASSUME NEW x
  PROVE  After(Passes, x) = Passes(x)
<1>1. {Passes(z) : z \in {x}} = {Passes(x)} OBVIOUS
<1> QED BY <1>1, OnlyOne DEF After

\* The same for the whole of wpa_sm_step.
LEMMA AfterSm ==
  ASSUME NEW x
  PROVE  After(wpa_sm_step, x) = wpa_sm_step(x)
<1>1. {wpa_sm_step(z) : z \in {x}} = {wpa_sm_step(x)} OBVIOUS
<1> QED BY <1>1, OnlyOne DEF After

\* A pass, as the two machines one after the other.
LEMMA PassIs ==
  ASSUME NEW r
  PROVE  Pass(r) = IF ~r.changed THEN r ELSE GROUP_Step(PTK_Step([r EXCEPT !.changed = FALSE]))
BY AfterSteps, Zenon DEF Pass

\* Three passes, one after the other.
LEMMA PassesIs ==
  ASSUME NEW r
  PROVE  Passes(r) = Pass(Pass(Pass(r)))
BY AfterPass DEF Passes

\* A pass that changes nothing is the last.
LEMMA Settled ==
  ASSUME NEW s, NEW n, NEW t, NEW cs, NEW j, NEW w, NEW h, Whole(s, n, t, cs, j, w, h), ~s.changed
  PROVE  Whole(s, 3, t, cs, j, w, h)
BY DEF Whole, Progress

\* One more pass of the loop in wpa_sm_step.
LEMMA LaterPass ==
  ASSUME NEW s, NEW n \in 1..3, NEW t, NEW cs, NEW j, NEW w, NEW h, None \notin cs,
         Whole(s, n, t, cs, j, w, h)
  PROVE  \E k \in 2..3 : (n # 1 => k = 3) /\ Whole(Pass(s), k, t, cs, j, w, h)
<1>1. CASE ~s.changed
  <2>1. Pass(s) = s BY <1>1, PassIs
  <2>2. Whole(Pass(s), 3, t, cs, j, w, h) BY <1>1, <2>1, Settled
  <2> QED BY <2>2
<1>2. CASE s.changed
  <2> DEFINE x == PTK_Step([s EXCEPT !.changed = FALSE])
             k == IF n = 1 THEN 2 ELSE 3
  <2>1. Half(x, k, t, cs, j, w, h) BY PtkNext
  <2>2. Pass(s) = GROUP_Step(x) BY <1>2, PassIs
  <2>3. k \in 1..3 /\ k \in 2..3 /\ (n # 1 => k = 3) OBVIOUS
  <2> HIDE DEF x, k
  <2>4. Whole(GROUP_Step(x), k, t, cs, j, w, h) BY <2>1, <2>3, GroupNext
  <2> QED BY <2>2, <2>3, <2>4
<1> QED BY <1>1, <1>2

\* Three more passes of it.
LEMMA ThreePasses ==
  ASSUME NEW s, NEW n \in 1..3, NEW t, NEW cs, NEW j, NEW w, NEW h, None \notin cs,
         Whole(s, n, t, cs, j, w, h)
  PROVE  Whole(Passes(s), 3, t, cs, j, w, h)
<1>1. PICK k1 \in 2..3 : Whole(Pass(s), k1, t, cs, j, w, h) BY LaterPass
<1>2. Whole(Pass(Pass(s)), 3, t, cs, j, w, h)
  <2>1. k1 \in 1..3 /\ k1 # 1 OBVIOUS
  <2> QED BY <1>1, <2>1, LaterPass
<1>3. Whole(Pass(Pass(Pass(s))), 3, t, cs, j, w, h)
  <2>1. 3 \in 1..3 /\ 3 # 1 OBVIOUS
  <2> QED BY <1>2, <2>1, LaterPass
<1> QED BY <1>3, PassesIs

\* The whole of wpa_sm_step, when its first pass goes well.
LEMMA SmStep ==
  ASSUME NEW s, NEW t, NEW cs, NEW j, NEW w, NEW h, None \notin cs, IsAp(s),
         Half(PTK_Step([s EXCEPT !.changed = FALSE]), 1, t, cs, j, w, h)
  PROVE  Whole(wpa_sm_step(s), 3, t, cs, j, w, h)
<1> DEFINE x == PTK_Step([s EXCEPT !.changed = FALSE])
           a == [s EXCEPT !.changed = TRUE]
           b == Passes(a)
<1>1. a.changed = TRUE /\ [a EXCEPT !.changed = FALSE] = [s EXCEPT !.changed = FALSE]
  BY DEF IsAp, Shape, ApFields
<1> HIDE DEF a
<1>2. Pass(a) = GROUP_Step(PTK_Step([a EXCEPT !.changed = FALSE])) BY <1>1, PassIs
<1>3. Pass(a) = GROUP_Step(x) BY <1>1, <1>2, Zenon
<1> HIDE DEF x
<1>4. Whole(Pass(a), 1, t, cs, j, w, h) BY <1>3, GroupNext DEF x
<1>5. \E k \in 2..3 : Whole(Pass(Pass(a)), k, t, cs, j, w, h) BY <1>4, LaterPass
<1>6. Whole(Pass(Pass(Pass(a))), 3, t, cs, j, w, h)
  <2>1. PICK k \in 2..3 : Whole(Pass(Pass(a)), k, t, cs, j, w, h) BY <1>5
  <2>2. k \in 1..3 /\ k # 1 OBVIOUS
  <2> QED BY <2>1, <2>2, LaterPass
<1>7. Whole(b, 3, t, cs, j, w, h) BY <1>6, PassesIs
<1> HIDE DEF b
<1>8. Whole(Passes(Passes(Passes(b))), 3, t, cs, j, w, h)
  <2>1. 3 \in 1..3 OBVIOUS
  <2>2. Whole(Passes(b), 3, t, cs, j, w, h) BY <1>7, <2>1, ThreePasses
  <2>3. Whole(Passes(Passes(b)), 3, t, cs, j, w, h) BY <2>1, <2>2, ThreePasses
  <2> QED BY <2>1, <2>3, ThreePasses
<1>9. wpa_sm_step(s) = Passes(Passes(Passes(b)))
  BY AfterPasses, Zenon DEF wpa_sm_step, a, b
<1> QED BY <1>8, <1>9

\* The machine between two handlers.
Rest(s, t, cs, j) == Whole(s, 3, t, cs, j, None, TRUE) /\ ~s.kick /\ s.out = <<>>

\* What a handler of the access point finds in the machine it starts from.
LEMMA RestBase ==
  ASSUME NEW s, NEW t, NEW cs, NEW j, NEW h, Rest(s, t, cs, j), s.PTK \in cs => h
  PROVE  /\ IsAp(s) /\ ~s.kick /\ Base(s, t, cs, j, s.PTK, h)
         /\ s.ptkSt \in {"PTKSTART", "PTKCALCNEGOTIATING", "PTKINITNEGOTIATING", "PTKINITDONE"}
         /\ s.ptkSt = "PTKCALCNEGOTIATING" => ~SamePmk /\ ~s.MICVerified /\ ~s.PTK_valid /\ s.PTK = None
         /\ s.grpSt \in {"IDLE", "REKEYNEGOTIATING", "KEYERROR"} /\ (s.grpSt = "KEYERROR" => s.Disconnect)
         /\ ~GroupReady(s) /\ (s.EAPOLKeyReceived => s.EAPOLKeyRequest)
         /\ s.PTK \in cs => s.ptkSt = "PTKINITNEGOTIATING"
<1>1. IsAp(s) /\ ~s.kick /\ Base(s, t, cs, j, None, TRUE) /\ Progress(s, 3)
  BY DEF Rest, Whole
<1>2. Base(s, t, cs, j, s.PTK, h) BY <1>1 DEF Base
<1>3. /\ s.ptkSt \in {"PTKSTART", "PTKCALCNEGOTIATING", "PTKINITNEGOTIATING", "PTKINITDONE"}
      /\ s.ptkSt = "PTKCALCNEGOTIATING" => ~SamePmk
  BY <1>1 DEF Progress, Base, Running
<1>4. s.ptkSt = "PTKCALCNEGOTIATING" => ~s.MICVerified /\ ~s.PTK_valid /\ s.PTK = None
  BY <1>1, <1>3 DEF Base
<1>5. s.PTK \in cs => s.ptkSt = "PTKINITNEGOTIATING"
  BY <1>1, <1>3 DEF Base
<1>6. /\ s.grpSt \in {"IDLE", "REKEYNEGOTIATING", "KEYERROR"} /\ (s.grpSt = "KEYERROR" => s.Disconnect)
      /\ ~GroupReady(s) /\ (s.EAPOLKeyReceived => s.EAPOLKeyRequest)
  <2>1. /\ s.grpSt \in {"IDLE", "REKEYNEGOTIATING", "REKEYESTABLISHED", "KEYERROR"}
        /\ s.grpSt = "KEYERROR" => s.Disconnect
        /\ s.grpSt = "REKEYESTABLISHED" => 3 = 1 /\ s.changed
        /\ GroupReady(s) => 3 = 2 /\ s.changed
        /\ s.EAPOLKeyReceived => s.EAPOLKeyRequest
    BY <1>1, Zenon DEF Rest, Whole
  <2>2. 3 # 1 /\ 3 # 2 OBVIOUS
  <2> QED BY <2>1, <2>2
<1> QED BY <1>1, <1>2, <1>3, <1>4, <1>5, <1>6

\* The timer that sends a frame again.
LEMMA TimerKeeps ==
  ASSUME NEW s, NEW t, NEW cs, NEW j, NEW h, None \notin cs, Rest(s, t, cs, j), s.PTK \in cs => h
  PROVE  Whole(hostap_eapol_resend_process(s), 3, t, cs, j, s.PTK, h)
<1> DEFINE x == [s EXCEPT !.TimeoutEvt = TRUE, !.resend_eapol = "off"]
           s0 == [x EXCEPT !.changed = FALSE]
           r == PTK_Step(s0)
<1>1. /\ IsAp(s) /\ ~s.kick /\ Base(s, t, cs, j, s.PTK, h)
      /\ s.ptkSt \in {"PTKSTART", "PTKCALCNEGOTIATING", "PTKINITNEGOTIATING", "PTKINITDONE"}
      /\ s.ptkSt = "PTKCALCNEGOTIATING" => ~SamePmk /\ ~s.MICVerified /\ ~s.PTK_valid /\ s.PTK = None
      /\ s.grpSt \in {"IDLE", "REKEYNEGOTIATING", "KEYERROR"} /\ (s.grpSt = "KEYERROR" => s.Disconnect)
      /\ ~GroupReady(s) /\ (s.EAPOLKeyReceived => s.EAPOLKeyRequest)
      /\ s.PTK \in cs => s.ptkSt = "PTKINITNEGOTIATING"
  BY RestBase
<1>2. IsAp(x) BY <1>1 DEF IsAp, Shape, ApFields
<1>3. IsAp(s0) /\ s0.TimeoutEvt = TRUE /\ \A f \in ApFields \ {"TimeoutEvt", "resend_eapol", "changed"} : s0[f] = s[f]
  BY <1>1 DEF IsAp, Shape, ApFields
<1>4. hostap_eapol_resend_process(s) = wpa_sm_step(x) BY AfterSm DEF hostap_eapol_resend_process
<1> SUFFICES Half(r, 1, t, cs, j, s.PTK, h) BY <1>2, <1>4, SmStep
<1> HIDE DEF x, s0
<1>5. /\ s0.ptkSt = s.ptkSt /\ s0.Init = s.Init /\ s0.grpSt = s.grpSt /\ s0.PInitAKeys = s.PInitAKeys
      /\ s0.AuthenticationRequest = s.AuthenticationRequest /\ s0.Disconnect = s.Disconnect
      /\ s0.PTKRequest = s.PTKRequest /\ s0.assoc = s.assoc /\ s0.ANonce = s.ANonce /\ s0.SNonce = s.SNonce
      /\ s0.PTK = s.PTK /\ s0.PTK_valid = s.PTK_valid /\ s0.key = s.key
      /\ s0.MICVerified = s.MICVerified /\ s0.update_snonce = s.update_snonce
      /\ s0.EAPOLKeyReceived = s.EAPOLKeyReceived /\ s0.EAPOLKeyRequest = s.EAPOLKeyRequest
      /\ s0.out = s.out /\ s0.kick = s.kick
  BY <1>3 DEF ApFields
<1>6. ~PairwiseReceived(s0) BY <1>1, <1>5 DEF PairwiseReceived
<1>7. IsAp(r) BY <1>3, PtkKick
<1>8. CASE r = PTK_DISCONNECT(s0)
  <2>1. PTK_DISCONNECT(s0).kick BY <1>3 DEF PTK_DISCONNECT, Ptk_Enter, IsAp, Shape, ApFields
  <2> QED BY <1>7, <1>8, <2>1 DEF Half
<1>9. CASE ~s0.Disconnect /\ SameGroup(s0, r) /\ Base(r, t, cs, j, s.PTK, h) /\ Progress(r, 1)
  <2>1. s.grpSt # "KEYERROR" /\ s.grpSt # "REKEYESTABLISHED" BY <1>1, <1>5, <1>9
  <2>2. ~(r.EAPOLKeyReceived /\ ~r.EAPOLKeyRequest) BY <1>1, <1>5, <1>9 DEF SameGroup
  <2> QED BY <1>1, <1>5, <1>7, <1>9, <2>1, <2>2 DEF Half, SameGroup
<1>10. CASE ~s0.Disconnect /\ s0.ptkSt \in {"PTKSTART", "PTKCALCNEGOTIATING"} /\ r = PTK_PTKSTART(s0)
  <2> DEFINE y == [s0 EXCEPT !.ptkSt = "PTKSTART", !.PTKRequest = FALSE, !.TimeoutEvt = FALSE]
  <2>1. /\ \A f \in ApFields \ {"ptkSt", "PTKRequest", "TimeoutEvt"} : y[f] = s0[f]
        /\ y.ptkSt = "PTKSTART" /\ y.PTKRequest = FALSE /\ y.TimeoutEvt = FALSE
    BY <1>3 DEF IsAp, Shape, ApFields
  <2> HIDE DEF y, r
  <2>2. /\ y.Init = s.Init /\ y.AuthenticationRequest = s.AuthenticationRequest
        /\ y.assoc = s.assoc /\ y.ANonce = s.ANonce
        /\ y.PTK = s.PTK /\ y.PTK_valid = s.PTK_valid
        /\ y.MICVerified = s.MICVerified /\ y.update_snonce = s.update_snonce /\ y.out = s.out
    BY <1>5, <2>1 DEF ApFields
  <2>3. Outs(y, cs, j) BY <1>1, <2>2 DEF Base, Outs
  <2>4. s.PTK \notin cs BY <1>1, <1>5, <1>10
  <2>5. Base(y, t, cs, j, s.PTK, h) BY <1>1, <1>10, <2>1, <2>2, <2>3, <2>4 DEF Base, Running
  <2>6. SameGroup(s0, r) /\ Base(r, t, cs, j, s.PTK, h) /\ r.ptkSt = "PTKSTART"
    BY <1>3, <1>10, <2>1, <2>5, Enter1of4
  <2>7. Progress(r, 1) BY <2>6 DEF Progress
  <2> QED BY <1>9, <1>10, <2>6, <2>7 DEF r
<1>11. CASE ~s0.Disconnect /\ s0.ptkSt = "PTKINITNEGOTIATING" /\ r = PTK_PTKINITNEGOTIATING(s0)
  <2> DEFINE y == [s0 EXCEPT !.ptkSt = "PTKINITNEGOTIATING", !.TimeoutEvt = FALSE]
  <2>1. /\ \A f \in ApFields \ {"ptkSt", "TimeoutEvt"} : y[f] = s0[f]
        /\ y.ptkSt = "PTKINITNEGOTIATING" /\ y.TimeoutEvt = FALSE
    BY <1>3 DEF IsAp, Shape, ApFields
  <2> HIDE DEF y, r
  <2>2. /\ y.Init = s.Init /\ y.AuthenticationRequest = s.AuthenticationRequest
        /\ y.assoc = s.assoc /\ y.ANonce = s.ANonce /\ y.PTKRequest = s.PTKRequest /\ y.SNonce = s.SNonce
        /\ y.PTK = s.PTK /\ y.PTK_valid = s.PTK_valid /\ y.grpSt = s.grpSt /\ y.PInitAKeys = s.PInitAKeys
        /\ y.EAPOLKeyReceived = s.EAPOLKeyReceived
        /\ y.MICVerified = s.MICVerified /\ y.update_snonce = s.update_snonce /\ y.out = s.out
    BY <1>5, <2>1 DEF ApFields
  <2>3. Outs(y, cs, j) BY <1>1, <2>2 DEF Base, Outs
  <2>5. Base(y, t, cs, j, s.PTK, h) BY <1>1, <1>5, <1>11, <2>1, <2>2, <2>3 DEF Base, Running, GroupReady
  <2>6. SameGroup(s0, r) /\ Base(r, t, cs, j, s.PTK, h) /\ r.ptkSt = "PTKINITNEGOTIATING"
    BY <1>3, <1>11, <2>1, <2>5, Enter3of4
  <2>7. Progress(r, 1) BY <2>6 DEF Progress
  <2> QED BY <1>9, <1>11, <2>6, <2>7 DEF r
<1>12. CASE ~s0.Disconnect /\ s0.ptkSt = "PTKINITDONE" /\ r = s0
  <2>1. Outs(s0, cs, j) BY <1>1, <1>5 DEF Base, Outs
  <2>2. Base(s0, t, cs, j, s.PTK, h) BY <1>1, <1>5, <1>12, <2>1 DEF Base
  <2>3. SameGroup(s0, s0) /\ Progress(s0, 1) BY <1>12 DEF SameGroup, Progress
  <2> QED BY <1>9, <1>12, <2>2, <2>3
<1> HIDE DEF r
<1>13. /\ ~s0.Init /\ ~s0.AuthenticationRequest /\ ~s0.PTKRequest /\ ~s0.update_snonce
  BY <1>1, <1>5 DEF Base
<1>14. \/ r = PTK_DISCONNECT(s0)
       \/ ~s0.Disconnect /\ s0.ptkSt \in {"PTKSTART", "PTKCALCNEGOTIATING"} /\ r = PTK_PTKSTART(s0)
       \/ ~s0.Disconnect /\ s0.ptkSt = "PTKINITNEGOTIATING" /\ r = PTK_PTKINITNEGOTIATING(s0)
       \/ ~s0.Disconnect /\ s0.ptkSt = "PTKINITDONE" /\ r = s0
  <2>1. s0.TimeoutCtr > UpdateCount \/ s0.TimeoutCtr <= UpdateCount
    BY <1>3, WpaBounds DEF IsAp
  <2>2. /\ s0.ptkSt \in {"PTKSTART", "PTKCALCNEGOTIATING", "PTKINITNEGOTIATING", "PTKINITDONE"}
        /\ s0.ptkSt = "PTKCALCNEGOTIATING" => ~s0.MICVerified
        /\ s0.TimeoutEvt
    BY <1>1, <1>3, <1>5
  <2>3. CASE s0.Disconnect BY <1>13, <2>3, PtkCases DEF r
  <2>4. CASE ~s0.Disconnect /\ s0.ptkSt = "PTKSTART"
    <3>1. \/ s0.TimeoutCtr > UpdateCount /\ r = PTK_DISCONNECT(s0)
          \/ r = PTK_PTKSTART(s0)
          \/ ~(s0.TimeoutCtr > UpdateCount) /\ ~(s0.TimeoutCtr <= UpdateCount)
      BY <1>6, <1>13, <2>2, <2>4, PtkCases DEF r
    <3> QED BY <2>1, <2>4, <3>1
  <2>5. CASE ~s0.Disconnect /\ s0.ptkSt = "PTKCALCNEGOTIATING" BY <1>6, <1>13, <2>2, <2>5, PtkCases DEF r
  <2>6. CASE ~s0.Disconnect /\ s0.ptkSt = "PTKINITNEGOTIATING" BY <1>6, <1>13, <2>1, <2>2, <2>6, PtkCases DEF r
  <2>7. CASE ~s0.Disconnect /\ s0.ptkSt = "PTKINITDONE" BY <1>6, <1>13, <2>2, <2>7, PtkCases DEF r
  <2> QED BY <2>2, <2>3, <2>4, <2>5, <2>6, <2>7
<1> QED BY <1>8, <1>10, <1>11, <1>12, <1>14 DEF r

\* A frame the machine takes: what it has noted of it when the state machines start.
Accepted(s, m, x) ==
  /\ IsAp(x)
  /\ \A f \in ApFields \ {"update_snonce", "MICVerified", "resend_eapol", "prev_key_replay", "key_replay",
                          "PTKRequest", "PTK_valid", "req_replay", "last_rx", "EAPOLKeyReceived", "SNonce",
                          "EAPOLKeyPairwise", "EAPOLKeyRequest"} : x[f] = s[f]
  /\ x.update_snonce <=> s.update_snonce \/ LateSnonce(s, m)
  /\ x.MICVerified <=> s.PTK_valid /\ ~LateSnonce(s, m)
  /\ x.last_rx = m /\ x.EAPOLKeyReceived /\ x.SNonce = m.nonce
  /\ x.EAPOLKeyPairwise <=> m.k # "2/2"
  /\ x.EAPOLKeyRequest <=> m.k = "request"
  /\ m.k = "request" => x.PTKRequest = TRUE /\ x.PTK_valid = FALSE
  /\ m.k # "request" => x.PTKRequest = s.PTKRequest /\ x.PTK_valid = s.PTK_valid
  /\ Expected(s, m)
  /\ s.PTK_valid /\ ~LateSnonce(s, m) => m.mic = s.PTK
  /\ m.k = "request" => s.PTK_valid /\ ~LateSnonce(s, m)

\* wpa_receive drops the frame, refuses its MIC, disconnects, or notes it and runs the
\* state machines.
LEMMA ReceiveCases ==
  ASSUME NEW s, IsAp(s), NEW m
  PROVE  \/ wpa_receive(s, m) \in {s, [s EXCEPT !.MICVerified = FALSE], [s EXCEPT !.kick = TRUE]}
         \/ \E x : Accepted(s, m, x) /\ wpa_receive(s, m) = wpa_sm_step(x)
<1> DEFINE late0   == LateSnonce(s, m)
           check0  == s.PTK_valid /\ ~late0
           us0 == s.update_snonce \/ late0
           re0 == IF check0 THEN "off" ELSE s.resend_eapol
           pk0 == IF late0 THEN wpa_replay_counter_mark_invalid(s.prev_key_replay, m.rc) ELSE s.prev_key_replay
           s1 == [s EXCEPT !.update_snonce = us0, !.MICVerified = check0,
                           !.resend_eapol = re0, !.prev_key_replay = pk0]
           used == wpa_replay_counter_mark_invalid(s1.key_replay, m.rc)
           pk1 == IF m.k = "2/4" THEN used ELSE [i \in 1..Window |-> [c |-> 0, valid |-> FALSE]]
           kr1 == Invalid(used)
           a == [wpa_request_new_ptk(s1) EXCEPT !.req_replay = m.rc]
           b == [s1 EXCEPT !.prev_key_replay = pk1, !.key_replay = kr1]
           s2 == IF m.k = "request" THEN a ELSE b
           p0 == m.k # "2/2"
           q0 == m.k = "request"
           x == [s2 EXCEPT !.last_rx = m, !.EAPOLKeyReceived = TRUE, !.SNonce = m.nonce,
                           !.EAPOLKeyPairwise = p0, !.EAPOLKeyRequest = q0]
<1>1. wpa_receive(s, m) = IF ~Expected(s, m) THEN s
        ELSE IF m.k = "2/4" /\ ~conf.assocSame THEN [s EXCEPT !.kick = TRUE]
        ELSE IF (check0 /\ m.mic # s.PTK) \/ (m.k = "request" /\ ~check0)
          THEN [s EXCEPT !.MICVerified = FALSE]
        ELSE After(wpa_sm_step, x)
  BY Zenon DEF wpa_receive
<1>2. After(wpa_sm_step, x) = wpa_sm_step(x)
  <2> HIDE DEF x
  <2> QED BY AfterSm
<1>3. PICK us, ck, re, pk : us = us0 /\ ck = check0 /\ re = re0 /\ pk = pk0 OBVIOUS
<1>4. s1 = [s EXCEPT !.update_snonce = us, !.MICVerified = ck, !.resend_eapol = re, !.prev_key_replay = pk]
  BY <1>3, Zenon
<1> HIDE DEF us0, check0, re0, pk0, s1
<1>5. /\ IsAp(s1) /\ s1.update_snonce = us /\ s1.MICVerified = ck
      /\ \A f \in ApFields \ {"update_snonce", "MICVerified", "resend_eapol", "prev_key_replay"} : s1[f] = s[f]
  BY <1>4 DEF IsAp, Shape, ApFields
<1>6. /\ IsAp(a) /\ a.PTKRequest = TRUE /\ a.PTK_valid = FALSE
      /\ \A f \in ApFields \ {"PTKRequest", "PTK_valid", "req_replay"} : a[f] = s1[f]
  BY <1>5 DEF IsAp, Shape, ApFields, wpa_request_new_ptk
<1> HIDE DEF used, pk1, kr1
<1>7. IsAp(b) /\ \A f \in ApFields \ {"prev_key_replay", "key_replay"} : b[f] = s1[f]
  BY <1>5 DEF IsAp, Shape, ApFields
<1> HIDE DEF a, b
<1>8. /\ IsAp(s2) /\ s2.update_snonce = us /\ s2.MICVerified = ck
      /\ \A f \in ApFields \ {"update_snonce", "MICVerified", "resend_eapol", "prev_key_replay", "key_replay",
                              "PTKRequest", "PTK_valid", "req_replay"} : s2[f] = s[f]
      /\ m.k = "request" => s2.PTKRequest = TRUE /\ s2.PTK_valid = FALSE
      /\ m.k # "request" => s2.PTKRequest = s.PTKRequest /\ s2.PTK_valid = s.PTK_valid
  BY <1>5, <1>6, <1>7 DEF ApFields
<1> HIDE DEF s2, p0, q0
<1>9. /\ IsAp(x) /\ x.last_rx = m /\ x.EAPOLKeyReceived = TRUE /\ x.SNonce = m.nonce
      /\ x.EAPOLKeyPairwise = p0 /\ x.EAPOLKeyRequest = q0
      /\ \A f \in ApFields \ {"last_rx", "EAPOLKeyReceived", "SNonce", "EAPOLKeyPairwise", "EAPOLKeyRequest"} :
           x[f] = s2[f]
  BY <1>8 DEF IsAp, Shape, ApFields
<1> HIDE DEF x
<1>10. /\ \A f \in ApFields \ {"update_snonce", "MICVerified", "resend_eapol", "prev_key_replay", "key_replay",
                              "PTKRequest", "PTK_valid", "req_replay", "last_rx", "EAPOLKeyReceived", "SNonce",
                              "EAPOLKeyPairwise", "EAPOLKeyRequest"} : x[f] = s[f]
       /\ x.update_snonce = us /\ x.MICVerified = ck
       /\ m.k = "request" => x.PTKRequest = TRUE /\ x.PTK_valid = FALSE
       /\ m.k # "request" => x.PTKRequest = s.PTKRequest /\ x.PTK_valid = s.PTK_valid
  BY <1>8, <1>9 DEF ApFields
<1>11. CASE Expected(s, m) /\ ~(m.k = "2/4" /\ ~conf.assocSame) /\ ~((check0 /\ m.mic # s.PTK) \/ (m.k = "request" /\ ~check0))
  <2>1. wpa_receive(s, m) = wpa_sm_step(x) BY <1>1, <1>2, <1>11
  <2>2. /\ x.update_snonce <=> s.update_snonce \/ LateSnonce(s, m)
        /\ x.MICVerified <=> s.PTK_valid /\ ~LateSnonce(s, m)
        /\ s.PTK_valid /\ ~LateSnonce(s, m) => m.mic = s.PTK
        /\ m.k = "request" => s.PTK_valid /\ ~LateSnonce(s, m)
    BY <1>3, <1>10, <1>11, Zenon DEF us0, check0
  <2>3. /\ x.EAPOLKeyPairwise <=> m.k # "2/2"
        /\ x.EAPOLKeyRequest <=> m.k = "request"
        /\ x.EAPOLKeyReceived
    BY <1>9, Zenon DEF p0, q0
  <2>4. Accepted(s, m, x) BY <1>9, <1>10, <1>11, <2>2, <2>3 DEF Accepted
  <2> QED BY <2>1, <2>4
<1>12. CASE ~(Expected(s, m) /\ ~(m.k = "2/4" /\ ~conf.assocSame) /\ ~((check0 /\ m.mic # s.PTK) \/ (m.k = "request" /\ ~check0)))
  BY <1>1, <1>12
<1> QED BY <1>11, <1>12

\* A frame from the station, as the access point may get it.
StaFrame(m, p, t, cs, j, h) ==
  /\ m.k \in {"2/4", "4/4", "2/2", "request"}
  /\ m.k # "2/4" => m.mic \notin cs
  /\ m.k = "2/4" => /\ m.mic = PTK(conf.staPmk, j, m.nonce) /\ (m.mic = t \/ m.mic \in cs)
                    /\ p \in cs => m.mic \in cs
                    /\ m.mic \in cs => h

\* The fields of an accepted frame that the proofs below need.
LEMMA AcceptedFacts ==
  ASSUME NEW s, NEW m, NEW x, Accepted(s, m, x)
  PROVE  /\ x.ptkSt = s.ptkSt /\ x.Init = s.Init /\ x.grpSt = s.grpSt /\ x.PInitAKeys = s.PInitAKeys
         /\ x.AuthenticationRequest = s.AuthenticationRequest /\ x.Disconnect = s.Disconnect
         /\ x.assoc = s.assoc /\ x.ANonce = s.ANonce /\ x.PTK = s.PTK /\ x.key = s.key
         /\ x.TimeoutEvt = s.TimeoutEvt /\ x.out = s.out /\ x.kick = s.kick
BY DEF Accepted, ApFields

\* The machine at the start of a pass: changed is cleared.
LEMMA Cleared ==
  ASSUME NEW x, IsAp(x), NEW s0, s0 = [x EXCEPT !.changed = FALSE]
  PROVE  /\ IsAp(s0) /\ \A f \in ApFields \ {"changed"} : s0[f] = x[f]
         /\ s0.ptkSt = x.ptkSt /\ s0.Init = x.Init /\ s0.grpSt = x.grpSt /\ s0.PInitAKeys = x.PInitAKeys
         /\ s0.AuthenticationRequest = x.AuthenticationRequest /\ s0.Disconnect = x.Disconnect
         /\ s0.PTKRequest = x.PTKRequest /\ s0.assoc = x.assoc /\ s0.ANonce = x.ANonce /\ s0.SNonce = x.SNonce
         /\ s0.PTK = x.PTK /\ s0.PTK_valid = x.PTK_valid /\ s0.key = x.key /\ s0.TimeoutEvt = x.TimeoutEvt
         /\ s0.MICVerified = x.MICVerified /\ s0.update_snonce = x.update_snonce
         /\ s0.EAPOLKeyReceived = x.EAPOLKeyReceived /\ s0.EAPOLKeyRequest = x.EAPOLKeyRequest
         /\ s0.EAPOLKeyPairwise = x.EAPOLKeyPairwise /\ s0.last_rx = x.last_rx
         /\ s0.out = x.out /\ s0.kick = x.kick
<1>1. IsAp(s0) /\ \A f \in ApFields \ {"changed"} : s0[f] = x[f] BY DEF IsAp, Shape, ApFields
<1> QED BY <1>1 DEF ApFields

\* 2/4: the key is derived from its nonce, and the MIC tells whether it is the station's.
LEMMA Got2of4 ==
  ASSUME NEW s, NEW t, NEW cs, NEW j, NEW h, None \notin cs, Rest(s, t, cs, j), s.PTK \in cs => h,
         \A a, b \in cs : a = b,
         NEW m, m.k = "2/4", StaFrame(m, s.PTK, t, cs, j, h), NEW x, Accepted(s, m, x)
  PROVE  Half(PTK_Step([x EXCEPT !.changed = FALSE]), 1, t, cs, j, s.PTK, h)
<1> DEFINE s0 == [x EXCEPT !.changed = FALSE]
           r == PTK_Step(s0)
<1> SUFFICES Half(r, 1, t, cs, j, s.PTK, h) OBVIOUS
<1>1. /\ IsAp(s) /\ ~s.kick /\ Base(s, t, cs, j, s.PTK, h)
      /\ s.ptkSt \in {"PTKSTART", "PTKCALCNEGOTIATING", "PTKINITNEGOTIATING", "PTKINITDONE"}
      /\ s.ptkSt = "PTKCALCNEGOTIATING" => ~SamePmk /\ ~s.MICVerified /\ ~s.PTK_valid /\ s.PTK = None
      /\ s.grpSt \in {"IDLE", "REKEYNEGOTIATING", "KEYERROR"} /\ (s.grpSt = "KEYERROR" => s.Disconnect)
      /\ ~GroupReady(s) /\ (s.EAPOLKeyReceived => s.EAPOLKeyRequest)
      /\ s.PTK \in cs => s.ptkSt = "PTKINITNEGOTIATING"
  BY RestBase
<1>2. /\ x.ptkSt = s.ptkSt /\ x.Init = s.Init /\ x.grpSt = s.grpSt /\ x.PInitAKeys = s.PInitAKeys
      /\ x.AuthenticationRequest = s.AuthenticationRequest /\ x.Disconnect = s.Disconnect
      /\ x.assoc = s.assoc /\ x.ANonce = s.ANonce /\ x.PTK = s.PTK /\ x.key = s.key
      /\ x.TimeoutEvt = s.TimeoutEvt /\ x.out = s.out /\ x.kick = s.kick
  BY AcceptedFacts
<1>3. /\ IsAp(x) /\ (x.update_snonce <=> s.update_snonce \/ LateSnonce(s, m))
      /\ (x.MICVerified <=> s.PTK_valid /\ ~LateSnonce(s, m))
      /\ x.last_rx = m /\ x.EAPOLKeyReceived /\ x.SNonce = m.nonce /\ x.EAPOLKeyPairwise /\ ~x.EAPOLKeyRequest
      /\ x.PTKRequest = s.PTKRequest /\ x.PTK_valid = s.PTK_valid /\ Expected(s, m)
  BY DEF Accepted
<1>4. s.ptkSt \in {"PTKSTART", "PTKCALCNEGOTIATING"} \/ (s.ptkSt = "PTKINITNEGOTIATING" /\ LateSnonce(s, m))
  BY <1>3 DEF Expected
<1>5. s.ptkSt # "PTKINITNEGOTIATING" => ~LateSnonce(s, m) BY DEF LateSnonce
<1>6. s.PTK \notin cs
  <2> SUFFICES ASSUME s.PTK \in cs PROVE FALSE OBVIOUS
  <2>1. LateSnonce(s, m) BY <1>1, <1>4
  <2>2. s.SNonce # m.nonce BY <2>1 DEF LateSnonce
  <2>3. s.SNonce = s.PTK.snonce BY <1>1 DEF Base
  <2>4. m.mic = s.PTK BY DEF StaFrame
  <2>5. m.mic = PTK(conf.staPmk, j, m.nonce) BY DEF StaFrame
  <2>6. PTK(conf.staPmk, j, m.nonce).snonce = m.nonce BY DEF PTK
  <2> QED BY <2>2, <2>3, <2>4, <2>5, <2>6
<1>7. /\ IsAp(s0) /\ \A f \in ApFields \ {"changed"} : s0[f] = x[f]
      /\ s0.ptkSt = s.ptkSt /\ s0.Init = s.Init /\ s0.grpSt = s.grpSt /\ s0.PInitAKeys = s.PInitAKeys
      /\ s0.AuthenticationRequest = s.AuthenticationRequest /\ s0.Disconnect = s.Disconnect
      /\ s0.PTKRequest = s.PTKRequest /\ s0.assoc = s.assoc /\ s0.ANonce = s.ANonce /\ s0.SNonce = m.nonce
      /\ s0.PTK = s.PTK /\ s0.PTK_valid = s.PTK_valid /\ s0.key = s.key /\ s0.TimeoutEvt = s.TimeoutEvt
      /\ s0.MICVerified = x.MICVerified /\ s0.update_snonce = x.update_snonce
      /\ s0.EAPOLKeyReceived /\ ~s0.EAPOLKeyRequest
      /\ s0.EAPOLKeyPairwise /\ s0.last_rx = m
      /\ s0.out = s.out /\ s0.kick = s.kick
  <2> HIDE DEF s0
  <2>1. s0 = [x EXCEPT !.changed = FALSE] BY DEF s0
  <2> QED BY <1>2, <1>3, <2>1, Cleared
<1> HIDE DEF s0
<1>8. PairwiseReceived(s0) BY <1>7 DEF PairwiseReceived
<1>9. ~s0.Init /\ ~s0.AuthenticationRequest /\ ~s0.PTKRequest BY <1>1, <1>7 DEF Base
<1>10. IsAp(r) BY <1>7, PtkKick
<1>11. CASE s0.Disconnect
  <2>1. r = PTK_DISCONNECT(s0) BY <1>9, <1>11, PtkCases
  <2>2. PTK_DISCONNECT(s0).kick BY <1>7 DEF PTK_DISCONNECT, Ptk_Enter, IsAp, Shape, ApFields
  <2> QED BY <1>10, <2>1, <2>2 DEF Half
<1>12. CASE ~s0.Disconnect
  <2>1. s0.ptkSt = "PTKCALCNEGOTIATING" => ~s0.MICVerified BY <1>1, <1>3, <1>7
  <2>2. s0.ptkSt = "PTKINITNEGOTIATING" => s0.update_snonce BY <1>3, <1>4, <1>7
  <2>3. s0.ptkSt \in {"PTKSTART", "PTKCALCNEGOTIATING", "PTKINITNEGOTIATING"} BY <1>4, <1>7
  <2>4. r = PTK_PTKCALCNEGOTIATING(s0)
    <3>1. CASE s0.ptkSt = "PTKSTART" BY <1>8, <1>9, <1>12, <3>1, PtkCases
    <3>2. CASE s0.ptkSt = "PTKCALCNEGOTIATING" BY <1>8, <1>9, <1>12, <2>1, <3>2, PtkCases
    <3>3. CASE s0.ptkSt = "PTKINITNEGOTIATING" BY <1>8, <1>9, <1>12, <2>2, <3>3, PtkCases
    <3> QED BY <2>3, <3>1, <3>2, <3>3
  <2> DEFINE s1 == [Ptk_Enter(s0, "PTKCALCNEGOTIATING") EXCEPT
                      !.EAPOLKeyReceived = FALSE, !.update_snonce = FALSE]
             key == PTK(conf.apPmk, s0.ANonce, s0.SNonce)
             s2 == [s1 EXCEPT !.MICVerified = TRUE, !.PTK = key, !.PTK_valid = TRUE]
  <2>5. r = IF m.mic # key THEN s1 ELSE s2 BY <1>7, <2>4, Zenon DEF PTK_PTKCALCNEGOTIATING
  <2>6. /\ IsAp(s1) /\ s1.ptkSt = "PTKCALCNEGOTIATING" /\ s1.changed = TRUE
        /\ s1.EAPOLKeyReceived = FALSE /\ s1.update_snonce = FALSE
        /\ \A f \in ApFields \ {"ptkSt", "changed", "EAPOLKeyReceived", "update_snonce"} : s1[f] = s0[f]
    BY <1>7 DEF Ptk_Enter, IsAp, Shape, ApFields
  <2>7. s0.ANonce = j BY <1>1, <1>7 DEF Base
  <2>8. m.mic = PTK(conf.staPmk, j, m.nonce) /\ (m.mic = t \/ m.mic \in cs) /\ (m.mic \in cs => h)
    BY DEF StaFrame
  <2>9. key = PTK(conf.apPmk, j, m.nonce) BY <1>7, <2>7
  <2>10. SamePmk <=> m.mic = key BY <2>8, <2>9 DEF SamePmk, PTK
  <2>11. key.snonce = m.nonce /\ key # None BY <2>9 DEF PTK, None
  <2> HIDE DEF s1, key, r
  <2>12. s1.grpSt = s.grpSt /\ s1.Disconnect = s.Disconnect /\ s1.Init = s.Init /\ s1.PTK = s.PTK
         /\ s1.PTK_valid = s.PTK_valid
         /\ s1.AuthenticationRequest = s.AuthenticationRequest /\ s1.PTKRequest = s.PTKRequest
         /\ s1.assoc = s.assoc /\ s1.ANonce = j /\ s1.SNonce = m.nonce /\ s1.MICVerified = x.MICVerified
         /\ s1.PInitAKeys = s.PInitAKeys /\ s1.TimeoutEvt = s.TimeoutEvt /\ s1.out = s.out
    BY <1>7, <2>6, <2>7 DEF ApFields
  <2>13. CASE ~SamePmk
    <3>1. r = s1 BY <2>5, <2>10, <2>13
    <3>2. s.PTK = None /\ ~s.PTK_valid BY <1>1, <2>13 DEF Base
    <3>3. Outs(s1, cs, j) BY <1>1, <2>12 DEF Base, Outs
    <3>4. Base(s1, t, cs, j, s.PTK, h)
      BY <1>1, <1>3, <1>4, <1>6, <2>6, <2>12, <3>2, <3>3 DEF Base, Running
    <3>5. Progress(s1, 1) BY <2>6, <2>13 DEF Progress
    <3>6. s.grpSt # "KEYERROR" /\ s.grpSt # "REKEYESTABLISHED" BY <1>1, <1>7, <1>12
    <3> QED BY <1>1, <1>7, <1>12, <2>6, <2>12, <3>1, <3>4, <3>5, <3>6 DEF Half
  <2>14. CASE SamePmk
    <3>1. r = s2 BY <2>5, <2>10, <2>14
    <3>2. /\ IsAp(s2) /\ s2.MICVerified = TRUE /\ s2.PTK = key /\ s2.PTK_valid = TRUE
          /\ \A f \in ApFields \ {"MICVerified", "PTK", "PTK_valid"} : s2[f] = s1[f]
      BY <2>6 DEF IsAp, Shape, ApFields
    <3> HIDE DEF s2
    <3>3. s2.grpSt = s.grpSt /\ s2.Disconnect = s.Disconnect /\ s2.Init = s.Init
         /\ s2.AuthenticationRequest = s.AuthenticationRequest /\ s2.PTKRequest = s.PTKRequest
         /\ s2.assoc = s.assoc /\ s2.ANonce = j /\ s2.SNonce = m.nonce
         /\ s2.PInitAKeys = s.PInitAKeys /\ s2.TimeoutEvt = s.TimeoutEvt /\ s2.out = s.out
         /\ s2.ptkSt = "PTKCALCNEGOTIATING" /\ s2.changed = TRUE
         /\ s2.EAPOLKeyReceived = FALSE /\ s2.update_snonce = FALSE
      BY <2>6, <2>12, <3>2 DEF ApFields
    <3>4. Outs(s2, cs, j) BY <3>3 DEF Rest, Outs, IsSeq
    <3>5. Base(s2, t, cs, j, s.PTK, h)
      <4>1. /\ s2.assoc = j /\ ~s2.Init /\ ~s2.AuthenticationRequest /\ ~s2.PTKRequest /\ ~s2.TimeoutEvt
        BY <1>1, <1>4, <3>3 DEF Base
      <4>2. s2.PTK = t \/ s2.PTK \in cs BY <2>8, <2>10, <2>14, <3>2
      <4>3. s2.PTK \in cs => h BY <2>8, <2>10, <2>14, <3>2
      <4>4. ~GroupReady(s2) /\ s2.grpSt # "REKEYESTABLISHED" BY <1>1, <3>3 DEF GroupReady
      <4>5. s2.PTK # None /\ s2.SNonce = s2.PTK.snonce BY <2>11, <3>2, <3>3
      <4> QED BY <1>6, <2>14, <3>2, <3>3, <3>4, <4>1, <4>2, <4>3, <4>4, <4>5 DEF Base, Running
    <3>6. Progress(s2, 1) BY <3>2, <3>3 DEF Progress
    <3>7. s.grpSt # "KEYERROR" /\ s.grpSt # "REKEYESTABLISHED" BY <1>1, <1>7, <1>12
    <3> QED BY <1>1, <1>7, <1>12, <3>1, <3>2, <3>3, <3>5, <3>6, <3>7 DEF Half
  <2> QED BY <2>13, <2>14
<1> QED BY <1>11, <1>12

\* 4/4 under the PTK: the handshake is done.
LEMMA Got4of4 ==
  ASSUME NEW s, NEW t, NEW cs, NEW j, NEW h, None \notin cs, Rest(s, t, cs, j), s.PTK \in cs => h,
         NEW m, m.k = "4/4", StaFrame(m, s.PTK, t, cs, j, h), NEW x, Accepted(s, m, x)
  PROVE  Half(PTK_Step([x EXCEPT !.changed = FALSE]), 1, t, cs, j, s.PTK, h)
<1> DEFINE s0 == [x EXCEPT !.changed = FALSE]
           r == PTK_Step(s0)
<1> SUFFICES Half(r, 1, t, cs, j, s.PTK, h) OBVIOUS
<1>1. /\ IsAp(s) /\ ~s.kick /\ Base(s, t, cs, j, s.PTK, h)
      /\ s.ptkSt \in {"PTKSTART", "PTKCALCNEGOTIATING", "PTKINITNEGOTIATING", "PTKINITDONE"}
      /\ s.ptkSt = "PTKCALCNEGOTIATING" => ~SamePmk /\ ~s.MICVerified /\ ~s.PTK_valid /\ s.PTK = None
      /\ s.grpSt \in {"IDLE", "REKEYNEGOTIATING", "KEYERROR"} /\ (s.grpSt = "KEYERROR" => s.Disconnect)
      /\ ~GroupReady(s) /\ (s.EAPOLKeyReceived => s.EAPOLKeyRequest)
      /\ s.PTK \in cs => s.ptkSt = "PTKINITNEGOTIATING"
  BY RestBase
<1>2. /\ x.ptkSt = s.ptkSt /\ x.Init = s.Init /\ x.grpSt = s.grpSt /\ x.PInitAKeys = s.PInitAKeys
      /\ x.AuthenticationRequest = s.AuthenticationRequest /\ x.Disconnect = s.Disconnect
      /\ x.assoc = s.assoc /\ x.ANonce = s.ANonce /\ x.PTK = s.PTK /\ x.key = s.key
      /\ x.TimeoutEvt = s.TimeoutEvt /\ x.out = s.out /\ x.kick = s.kick
  BY AcceptedFacts
<1>3. ~LateSnonce(s, m) BY DEF LateSnonce
<1>4. /\ IsAp(x) /\ (x.update_snonce <=> s.update_snonce)
      /\ (x.MICVerified <=> s.PTK_valid) /\ (s.PTK_valid => m.mic = s.PTK)
      /\ x.EAPOLKeyReceived /\ (x.EAPOLKeyPairwise <=> m.k # "2/2") /\ (x.EAPOLKeyRequest <=> m.k = "request")
      /\ m.k # "request" => x.PTKRequest = s.PTKRequest /\ x.PTK_valid = s.PTK_valid
      /\ Expected(s, m)
      /\ m.k = "request" => s.PTK_valid /\ x.PTK_valid = FALSE /\ x.PTKRequest = TRUE
  BY <1>3 DEF Accepted
<1>5. s.PTK_valid /\ s.PTK = m.mic /\ s.PTK \notin cs /\ s.PTK # None
  <2>1. s.PTK_valid BY <1>4 DEF Expected, Accepted
  <2> QED BY <1>1, <1>4, <2>1 DEF StaFrame, Base
<1>6. /\ IsAp(s0) /\ \A f \in ApFields \ {"changed"} : s0[f] = x[f]
      /\ s0.ptkSt = s.ptkSt /\ s0.Init = s.Init /\ s0.grpSt = s.grpSt /\ s0.PInitAKeys = s.PInitAKeys
      /\ s0.AuthenticationRequest = s.AuthenticationRequest /\ s0.Disconnect = s.Disconnect
      /\ s0.assoc = s.assoc /\ s0.ANonce = s.ANonce /\ s0.PTK = s.PTK /\ s0.key = s.key /\ s0.TimeoutEvt = s.TimeoutEvt
      /\ s0.PTK_valid = x.PTK_valid /\ s0.PTKRequest = x.PTKRequest
      /\ s0.MICVerified /\ (s0.update_snonce <=> s.update_snonce)
      /\ s0.EAPOLKeyReceived /\ (s0.EAPOLKeyRequest <=> m.k = "request")
      /\ (s0.EAPOLKeyPairwise <=> m.k # "2/2")
      /\ s0.out = s.out /\ s0.kick = s.kick
  <2> HIDE DEF s0
  <2>1. s0 = [x EXCEPT !.changed = FALSE] BY DEF s0
  <2> QED BY <1>2, <1>4, <1>5, <2>1, Cleared
<1> HIDE DEF s0
<1>7. ~s0.Init /\ ~s0.AuthenticationRequest /\ ~s0.update_snonce /\ ~s.PTKRequest BY <1>1, <1>6 DEF Base
<1>8. IsAp(r) BY <1>6, PtkKick
<1>9. CASE r = PTK_DISCONNECT(s0)
  <2>1. PTK_DISCONNECT(s0).kick BY <1>6 DEF PTK_DISCONNECT, Ptk_Enter, IsAp, Shape, ApFields
  <2> QED BY <1>8, <1>9, <2>1 DEF Half
<1>10. CASE ~s0.Disconnect
  <2>1. s0.ptkSt = "PTKINITNEGOTIATING" /\ ~s0.PTKRequest BY <1>4, <1>6, <1>7 DEF Expected
  <2>2. PairwiseReceived(s0) BY <1>6 DEF PairwiseReceived
  <2>3. r = PTK_PTKINITDONE(s0) BY <1>6, <1>7, <1>10, <2>1, <2>2, PtkCases
  <2> DEFINE s1 == Ptk_Enter(s0, "PTKINITDONE")
  <2>4. IsAp(s1) /\ \A f \in ApFields \ {"ptkSt", "changed"} : s1[f] = s0[f]
        /\ s1.ptkSt = "PTKINITDONE"
    BY <1>6 DEF Ptk_Enter, IsAp, Shape, ApFields
  <2>5. PICK b : b = (s1.PInitAKeys \/ conf.proto = "WPA") OBVIOUS
  <2>6. r = [s1 EXCEPT !.EAPOLKeyReceived = FALSE, !.key = s0.PTK, !.pairwise_set = TRUE, !.PInitAKeys = b]
    BY <2>3, <2>5, Zenon DEF PTK_PTKINITDONE
  <2> HIDE DEF s1
  <2>7. /\ \A f \in ApFields \ {"EAPOLKeyReceived", "key", "pairwise_set", "PInitAKeys"} : r[f] = s1[f]
        /\ r.EAPOLKeyReceived = FALSE /\ r.key = s0.PTK
    BY <2>4, <2>6 DEF IsAp, Shape, ApFields
  <2> HIDE DEF r
  <2>8. /\ r.ptkSt = "PTKINITDONE" /\ r.Init = s0.Init /\ r.grpSt = s0.grpSt
        /\ r.AuthenticationRequest = s0.AuthenticationRequest /\ r.Disconnect = s0.Disconnect
        /\ r.PTKRequest = s0.PTKRequest /\ r.assoc = s0.assoc /\ r.ANonce = s0.ANonce
        /\ r.PTK = s0.PTK /\ r.PTK_valid = s0.PTK_valid
        /\ r.update_snonce = s0.update_snonce /\ r.out = s0.out
    BY <2>4, <2>7 DEF ApFields
  <2>9. Outs(r, cs, j) BY <1>1, <1>6, <2>8 DEF Base, Outs
  <2>10. Base(r, t, cs, j, s.PTK, h)
    BY <1>1, <1>5, <1>6, <1>7, <2>1, <2>7, <2>8, <2>9 DEF Base, Running
  <2>11. Progress(r, 1) BY <2>8 DEF Progress
  <2>12. s.grpSt # "KEYERROR" /\ s.grpSt # "REKEYESTABLISHED" BY <1>1, <1>6, <1>10
  <2> QED BY <1>1, <1>6, <1>8, <1>10, <2>7, <2>8, <2>10, <2>11, <2>12 DEF Half, r
<1>11. s0.Disconnect => r = PTK_DISCONNECT(s0) BY <1>7, PtkCases
<1> QED BY <1>9, <1>10, <1>11

\* 2/2 under the PTK: the group machine will see it.
LEMMA Got2of2 ==
  ASSUME NEW s, NEW t, NEW cs, NEW j, NEW h, None \notin cs, Rest(s, t, cs, j), s.PTK \in cs => h,
         NEW m, m.k = "2/2", StaFrame(m, s.PTK, t, cs, j, h), NEW x, Accepted(s, m, x)
  PROVE  Half(PTK_Step([x EXCEPT !.changed = FALSE]), 1, t, cs, j, s.PTK, h)
<1> DEFINE s0 == [x EXCEPT !.changed = FALSE]
           r == PTK_Step(s0)
<1> SUFFICES Half(r, 1, t, cs, j, s.PTK, h) OBVIOUS
<1>1. /\ IsAp(s) /\ ~s.kick /\ Base(s, t, cs, j, s.PTK, h)
      /\ s.ptkSt \in {"PTKSTART", "PTKCALCNEGOTIATING", "PTKINITNEGOTIATING", "PTKINITDONE"}
      /\ s.ptkSt = "PTKCALCNEGOTIATING" => ~SamePmk /\ ~s.MICVerified /\ ~s.PTK_valid /\ s.PTK = None
      /\ s.grpSt \in {"IDLE", "REKEYNEGOTIATING", "KEYERROR"} /\ (s.grpSt = "KEYERROR" => s.Disconnect)
      /\ ~GroupReady(s) /\ (s.EAPOLKeyReceived => s.EAPOLKeyRequest)
      /\ s.PTK \in cs => s.ptkSt = "PTKINITNEGOTIATING"
  BY RestBase
<1>2. /\ x.ptkSt = s.ptkSt /\ x.Init = s.Init /\ x.grpSt = s.grpSt /\ x.PInitAKeys = s.PInitAKeys
      /\ x.AuthenticationRequest = s.AuthenticationRequest /\ x.Disconnect = s.Disconnect
      /\ x.assoc = s.assoc /\ x.ANonce = s.ANonce /\ x.PTK = s.PTK /\ x.key = s.key
      /\ x.TimeoutEvt = s.TimeoutEvt /\ x.out = s.out /\ x.kick = s.kick
  BY AcceptedFacts
<1>3. ~LateSnonce(s, m) BY DEF LateSnonce
<1>4. /\ IsAp(x) /\ (x.update_snonce <=> s.update_snonce)
      /\ (x.MICVerified <=> s.PTK_valid) /\ (s.PTK_valid => m.mic = s.PTK)
      /\ x.EAPOLKeyReceived /\ (x.EAPOLKeyPairwise <=> m.k # "2/2") /\ (x.EAPOLKeyRequest <=> m.k = "request")
      /\ m.k # "request" => x.PTKRequest = s.PTKRequest /\ x.PTK_valid = s.PTK_valid
      /\ Expected(s, m)
      /\ m.k = "request" => s.PTK_valid /\ x.PTK_valid = FALSE /\ x.PTKRequest = TRUE
  BY <1>3 DEF Accepted
<1>5. s.PTK_valid /\ s.PTK = m.mic /\ s.PTK \notin cs /\ s.PTK # None
  <2>1. s.PTK_valid BY <1>4 DEF Expected, Accepted
  <2> QED BY <1>1, <1>4, <2>1 DEF StaFrame, Base
<1>6. /\ IsAp(s0) /\ \A f \in ApFields \ {"changed"} : s0[f] = x[f]
      /\ s0.ptkSt = s.ptkSt /\ s0.Init = s.Init /\ s0.grpSt = s.grpSt /\ s0.PInitAKeys = s.PInitAKeys
      /\ s0.AuthenticationRequest = s.AuthenticationRequest /\ s0.Disconnect = s.Disconnect
      /\ s0.assoc = s.assoc /\ s0.ANonce = s.ANonce /\ s0.PTK = s.PTK /\ s0.key = s.key /\ s0.TimeoutEvt = s.TimeoutEvt
      /\ s0.PTK_valid = x.PTK_valid /\ s0.PTKRequest = x.PTKRequest
      /\ s0.MICVerified /\ (s0.update_snonce <=> s.update_snonce)
      /\ s0.EAPOLKeyReceived /\ (s0.EAPOLKeyRequest <=> m.k = "request")
      /\ (s0.EAPOLKeyPairwise <=> m.k # "2/2")
      /\ s0.out = s.out /\ s0.kick = s.kick
  <2> HIDE DEF s0
  <2>1. s0 = [x EXCEPT !.changed = FALSE] BY DEF s0
  <2> QED BY <1>2, <1>4, <1>5, <2>1, Cleared
<1> HIDE DEF s0
<1>7. ~s0.Init /\ ~s0.AuthenticationRequest /\ ~s0.update_snonce /\ ~s.PTKRequest BY <1>1, <1>6 DEF Base
<1>8. IsAp(r) BY <1>6, PtkKick
<1>9. CASE r = PTK_DISCONNECT(s0)
  <2>1. PTK_DISCONNECT(s0).kick BY <1>6 DEF PTK_DISCONNECT, Ptk_Enter, IsAp, Shape, ApFields
  <2> QED BY <1>8, <1>9, <2>1 DEF Half
<1>10. ~PairwiseReceived(s0) BY <1>6 DEF PairwiseReceived
<1>11. /\ s0.ptkSt \in {"PTKSTART", "PTKINITNEGOTIATING", "PTKINITDONE"} /\ ~s0.PTKRequest
       /\ s0.ptkSt \in {"PTKSTART", "PTKINITNEGOTIATING"} => ~s0.TimeoutEvt
  BY <1>1, <1>4, <1>5, <1>6, <1>7 DEF Base
<1>12. CASE ~s0.Disconnect /\ r = s0
  <2>1. Outs(s0, cs, j) BY <1>1, <1>6 DEF Base, Outs
  <2>2. Base(s0, t, cs, j, s.PTK, h) BY <1>1, <1>4, <1>5, <1>6, <1>11, <2>1 DEF Base, Running
  <2>3. Progress(s0, 1) BY <1>11 DEF Progress
  <2>4. s0.grpSt = "REKEYNEGOTIATING" BY <1>4, <1>6 DEF Expected
  <2> QED BY <1>6, <1>12, <2>2, <2>3, <2>4 DEF Half
<1>13. r = PTK_DISCONNECT(s0) \/ (~s0.Disconnect /\ r = s0)
  <2>1. CASE s0.Disconnect BY <1>7, <2>1, PtkCases
  <2>2. CASE ~s0.Disconnect /\ s0.ptkSt = "PTKSTART" BY <1>7, <1>10, <1>11, <2>2, PtkCases
  <2>3. CASE ~s0.Disconnect /\ s0.ptkSt = "PTKINITNEGOTIATING" BY <1>7, <1>10, <1>11, <2>3, PtkCases
  <2>4. CASE ~s0.Disconnect /\ s0.ptkSt = "PTKINITDONE" BY <1>7, <1>11, <2>4, PtkCases
  <2> QED BY <1>11, <2>1, <2>2, <2>3, <2>4
<1> QED BY <1>9, <1>12, <1>13

\* An error report under the PTK: the handshake starts again.
LEMMA GotRequest ==
  ASSUME NEW s, NEW t, NEW cs, NEW j, NEW h, None \notin cs, Rest(s, t, cs, j), s.PTK \in cs => h,
         NEW m, m.k = "request", StaFrame(m, s.PTK, t, cs, j, h), NEW x, Accepted(s, m, x)
  PROVE  Half(PTK_Step([x EXCEPT !.changed = FALSE]), 1, t, cs, j, s.PTK, h)
<1> DEFINE s0 == [x EXCEPT !.changed = FALSE]
           r == PTK_Step(s0)
<1> SUFFICES Half(r, 1, t, cs, j, s.PTK, h) OBVIOUS
<1>1. /\ IsAp(s) /\ ~s.kick /\ Base(s, t, cs, j, s.PTK, h)
      /\ s.ptkSt \in {"PTKSTART", "PTKCALCNEGOTIATING", "PTKINITNEGOTIATING", "PTKINITDONE"}
      /\ s.ptkSt = "PTKCALCNEGOTIATING" => ~SamePmk /\ ~s.MICVerified /\ ~s.PTK_valid /\ s.PTK = None
      /\ s.grpSt \in {"IDLE", "REKEYNEGOTIATING", "KEYERROR"} /\ (s.grpSt = "KEYERROR" => s.Disconnect)
      /\ ~GroupReady(s) /\ (s.EAPOLKeyReceived => s.EAPOLKeyRequest)
      /\ s.PTK \in cs => s.ptkSt = "PTKINITNEGOTIATING"
  BY RestBase
<1>2. /\ x.ptkSt = s.ptkSt /\ x.Init = s.Init /\ x.grpSt = s.grpSt /\ x.PInitAKeys = s.PInitAKeys
      /\ x.AuthenticationRequest = s.AuthenticationRequest /\ x.Disconnect = s.Disconnect
      /\ x.assoc = s.assoc /\ x.ANonce = s.ANonce /\ x.PTK = s.PTK /\ x.key = s.key
      /\ x.TimeoutEvt = s.TimeoutEvt /\ x.out = s.out /\ x.kick = s.kick
  BY AcceptedFacts
<1>3. ~LateSnonce(s, m) BY DEF LateSnonce
<1>4. /\ IsAp(x) /\ (x.update_snonce <=> s.update_snonce)
      /\ (x.MICVerified <=> s.PTK_valid) /\ (s.PTK_valid => m.mic = s.PTK)
      /\ x.EAPOLKeyReceived /\ (x.EAPOLKeyPairwise <=> m.k # "2/2") /\ (x.EAPOLKeyRequest <=> m.k = "request")
      /\ m.k # "request" => x.PTKRequest = s.PTKRequest /\ x.PTK_valid = s.PTK_valid
      /\ Expected(s, m)
      /\ m.k = "request" => s.PTK_valid /\ x.PTK_valid = FALSE /\ x.PTKRequest = TRUE
  BY <1>3 DEF Accepted
<1>5. s.PTK_valid /\ s.PTK = m.mic /\ s.PTK \notin cs /\ s.PTK # None
  <2>1. s.PTK_valid BY <1>4 DEF Expected, Accepted
  <2> QED BY <1>1, <1>4, <2>1 DEF StaFrame, Base
<1>6. /\ IsAp(s0) /\ \A f \in ApFields \ {"changed"} : s0[f] = x[f]
      /\ s0.ptkSt = s.ptkSt /\ s0.Init = s.Init /\ s0.grpSt = s.grpSt /\ s0.PInitAKeys = s.PInitAKeys
      /\ s0.AuthenticationRequest = s.AuthenticationRequest /\ s0.Disconnect = s.Disconnect
      /\ s0.assoc = s.assoc /\ s0.ANonce = s.ANonce /\ s0.PTK = s.PTK /\ s0.key = s.key /\ s0.TimeoutEvt = s.TimeoutEvt
      /\ s0.PTK_valid = x.PTK_valid /\ s0.PTKRequest = x.PTKRequest
      /\ s0.MICVerified /\ (s0.update_snonce <=> s.update_snonce)
      /\ s0.EAPOLKeyReceived /\ (s0.EAPOLKeyRequest <=> m.k = "request")
      /\ (s0.EAPOLKeyPairwise <=> m.k # "2/2")
      /\ s0.out = s.out /\ s0.kick = s.kick
  <2> HIDE DEF s0
  <2>1. s0 = [x EXCEPT !.changed = FALSE] BY DEF s0
  <2> QED BY <1>2, <1>4, <1>5, <2>1, Cleared
<1> HIDE DEF s0
<1>7. ~s0.Init /\ ~s0.AuthenticationRequest /\ ~s0.update_snonce /\ ~s.PTKRequest BY <1>1, <1>6 DEF Base
<1>8. IsAp(r) BY <1>6, PtkKick
<1>9. CASE r = PTK_DISCONNECT(s0)
  <2>1. PTK_DISCONNECT(s0).kick BY <1>6 DEF PTK_DISCONNECT, Ptk_Enter, IsAp, Shape, ApFields
  <2> QED BY <1>8, <1>9, <2>1 DEF Half
<1>10. CASE ~s0.Disconnect /\ r = PTK_PTKSTART(s0)
  <2> DEFINE y == [s0 EXCEPT !.ptkSt = "PTKSTART", !.PTKRequest = FALSE, !.TimeoutEvt = FALSE]
  <2>1. /\ \A f \in ApFields \ {"ptkSt", "PTKRequest", "TimeoutEvt"} : y[f] = s0[f]
        /\ y.ptkSt = "PTKSTART" /\ y.PTKRequest = FALSE /\ y.TimeoutEvt = FALSE
    BY <1>6 DEF IsAp, Shape, ApFields
  <2> HIDE DEF y, r
  <2>2. /\ y.Init = s0.Init /\ y.AuthenticationRequest = s0.AuthenticationRequest
        /\ y.assoc = s.assoc /\ y.ANonce = s.ANonce /\ y.PTK = s.PTK
        /\ y.update_snonce = s0.update_snonce /\ y.out = s.out
    BY <1>6, <2>1 DEF ApFields
  <2>3. Outs(y, cs, j) BY <1>1, <2>2 DEF Base, Outs
  <2>5. Base(y, t, cs, j, s.PTK, h) BY <1>1, <1>5, <1>7, <2>1, <2>2, <2>3 DEF Base, Running
  <2>6. SameGroup(s0, r) /\ Base(r, t, cs, j, s.PTK, h) /\ r.ptkSt = "PTKSTART"
    <3>1. IsAp(s0) BY <1>6
    <3>2. r = PTK_PTKSTART(s0) BY <1>10
    <3> QED BY <2>1, <2>5, <3>1, <3>2, Enter1of4
  <2>7. Progress(r, 1) BY <2>6 DEF Progress
  <2>8. s.grpSt # "KEYERROR" /\ s.grpSt # "REKEYESTABLISHED" BY <1>1, <1>6, <1>10
  <2> QED BY <1>1, <1>6, <1>8, <1>10, <2>6, <2>7, <2>8 DEF Half, SameGroup, r
<1>11. r = PTK_DISCONNECT(s0) \/ (~s0.Disconnect /\ r = PTK_PTKSTART(s0))
  <2>1. s0.PTKRequest BY <1>4, <1>6 DEF Accepted
  <2>2. CASE s0.Disconnect BY <1>7, <2>2, PtkCases
  <2>3. CASE ~s0.Disconnect BY <1>7, <2>1, <2>3, PtkCases
  <2> QED BY <2>2, <2>3
<1> QED BY <1>9, <1>10, <1>11

\* Any frame of the station.
LEMMA ReceiveKeeps ==
  ASSUME NEW s, NEW t, NEW cs, NEW j, NEW h, None \notin cs, Rest(s, t, cs, j), s.PTK \in cs => h,
         \A a, b \in cs : a = b, NEW m, StaFrame(m, s.PTK, t, cs, j, h)
  PROVE  Whole(wpa_receive(s, m), 3, t, cs, j, s.PTK, h)
<1>1. IsAp(s) /\ Base(s, t, cs, j, s.PTK, h) BY RestBase
<1>2. CASE wpa_receive(s, m) = s
  <2>1. Whole(s, 3, t, cs, j, s.PTK, h) BY <1>1 DEF Rest, Whole
  <2> QED BY <1>2, <2>1
<1>3. CASE wpa_receive(s, m) = [s EXCEPT !.MICVerified = FALSE]
  <2> DEFINE r == [s EXCEPT !.MICVerified = FALSE]
  <2>1. IsAp(r) /\ r.MICVerified = FALSE /\ \A f \in ApFields \ {"MICVerified"} : r[f] = s[f]
    BY <1>1 DEF IsAp, Shape, ApFields
  <2> HIDE DEF r
  <2>2. /\ r.ptkSt = s.ptkSt /\ r.grpSt = s.grpSt /\ r.Init = s.Init /\ r.Disconnect = s.Disconnect
        /\ r.AuthenticationRequest = s.AuthenticationRequest /\ r.changed = s.changed
        /\ r.PTKRequest = s.PTKRequest /\ r.assoc = s.assoc /\ r.ANonce = s.ANonce /\ r.SNonce = s.SNonce
        /\ r.PTK = s.PTK /\ r.PTK_valid = s.PTK_valid /\ r.key = s.key /\ r.TimeoutEvt = s.TimeoutEvt
        /\ r.EAPOLKeyReceived = s.EAPOLKeyReceived /\ r.EAPOLKeyRequest = s.EAPOLKeyRequest
        /\ r.update_snonce = s.update_snonce /\ r.PInitAKeys = s.PInitAKeys /\ r.out = s.out /\ r.kick = s.kick
    BY <2>1 DEF ApFields
  <2>3. Outs(r, cs, j) BY <1>1, <2>2 DEF Base, Outs
  <2>4. Base(r, t, cs, j, s.PTK, h) BY <1>1, <2>1, <2>2, <2>3 DEF Base, GroupReady
  <2>5. Progress(s, 3) BY DEF Rest, Whole
  <2>6. Progress(r, 3) BY <2>2, <2>5 DEF Progress
  <2>7. Whole(r, 3, t, cs, j, s.PTK, h) BY <2>1, <2>2, <2>4, <2>6 DEF Rest, Whole, GroupReady
  <2> QED BY <1>3, <2>7 DEF r
<1>5. CASE wpa_receive(s, m) = [s EXCEPT !.kick = TRUE]
  <2> DEFINE r == [s EXCEPT !.kick = TRUE]
  <2>1. IsAp(r) /\ r.kick
    BY <1>1 DEF IsAp, Shape, ApFields
  <2> HIDE DEF r
  <2>2. Whole(r, 3, t, cs, j, s.PTK, h) BY <2>1 DEF Whole
  <2> QED BY <1>5, <2>2 DEF r
<1>4. CASE \E x : Accepted(s, m, x) /\ wpa_receive(s, m) = wpa_sm_step(x)
  <2>1. PICK x : Accepted(s, m, x) /\ wpa_receive(s, m) = wpa_sm_step(x) BY <1>4
  <2>2. IsAp(x) BY <2>1 DEF Accepted
  <2>3. m.k \in {"2/4", "4/4", "2/2", "request"} BY DEF StaFrame
  <2>4. Half(PTK_Step([x EXCEPT !.changed = FALSE]), 1, t, cs, j, s.PTK, h)
    BY <2>1, <2>3, Got2of4, Got4of4, Got2of2, GotRequest
  <2> QED BY <2>1, <2>2, <2>4, SmStep
<1> QED BY <1>1, <1>2, <1>3, <1>4, <1>5, ReceiveCases

\* A machine that has sent nothing and received nothing, of association j.
Idle(s, j) ==
  /\ IsAp(s) /\ s.grpSt = "IDLE" /\ ~s.Disconnect /\ ~s.PTKRequest /\ s.assoc = j /\ s.PTK = None
  /\ ~s.PTK_valid /\ ~s.EAPOLKeyReceived /\ ~s.MICVerified /\ ~s.update_snonce /\ ~s.PInitAKeys
  /\ ~s.kick /\ ~s.TimeoutEvt

IdleFields == {"grpSt", "Disconnect", "PTKRequest", "assoc", "PTK", "PTK_valid", "EAPOLKeyReceived",
               "MICVerified", "update_snonce", "PInitAKeys", "kick", "TimeoutEvt"}

\* A machine with the same values in those fields has not started either.
LEMMA IdleSame ==
  ASSUME NEW s, NEW r, NEW j, Idle(s, j), IsAp(r), \A f \in IdleFields : r[f] = s[f]
  PROVE  Idle(r, j)
<1>1. /\ r.grpSt = s.grpSt /\ r.Disconnect = s.Disconnect /\ r.PTKRequest = s.PTKRequest /\ r.assoc = s.assoc
      /\ r.PTK = s.PTK /\ r.PTK_valid = s.PTK_valid /\ r.EAPOLKeyReceived = s.EAPOLKeyReceived
      /\ r.MICVerified = s.MICVerified /\ r.update_snonce = s.update_snonce /\ r.PInitAKeys = s.PInitAKeys
      /\ r.kick = s.kick /\ r.TimeoutEvt = s.TimeoutEvt
  BY DEF IdleFields
<1> QED BY <1>1 DEF Idle

\* The group machine does nothing.
LEMMA IdleGroup ==
  ASSUME NEW s, NEW j, Idle(s, j), ~s.Init
  PROVE  GROUP_Step(s) = s
BY GroupCases DEF Idle, GroupReady

\* Its first run, with Init set, ends after one pass.
LEMMA FirstRun ==
  ASSUME NEW j
  PROVE  LET z == wpa_sm_step([NewSm(j) EXCEPT !.Init = TRUE]) IN
           Idle(z, j) /\ z.out = <<>>
<1> DEFINE z == wpa_sm_step([NewSm(j) EXCEPT !.Init = TRUE])
           s == NewSm(j)
           b == [[s EXCEPT !.Init = TRUE] EXCEPT !.changed = TRUE]
           c == [b EXCEPT !.changed = FALSE]
           p == PTK_Step(c)
           g == GROUP_Step(p)
<1>1. Idle(s, j) /\ s.out = <<>>
  <2> DEFINE w0 == [i \in 1..Window |-> [c |-> 0, valid |-> FALSE]]
             o0 == <<>>
  <2>1. PICK w, o, nf, no : w = w0 /\ o = o0 /\ nf = NoFrame /\ no = None OBVIOUS
  <2>2. s = [ptkSt |-> "INITIALIZE", grpSt |-> "IDLE", changed |-> FALSE, Init |-> FALSE,
     Disconnect |-> FALSE, AuthenticationRequest |-> FALSE, PTKRequest |-> FALSE,
     assoc |-> j, ANonce |-> 0, SNonce |-> 0, PTK |-> no,
     PTK_valid |-> FALSE, key |-> no, pairwise_set |-> FALSE,
     TimeoutCtr |-> 0, GTimeoutCtr |-> 0, TimeoutEvt |-> FALSE,
     resend_eapol |-> "off", EAPOLKeyReceived |-> FALSE,
     EAPOLKeyPairwise |-> FALSE, EAPOLKeyRequest |-> FALSE,
     MICVerified |-> FALSE, update_snonce |-> FALSE, PInitAKeys |-> FALSE,
     req_replay |-> 0, last_rx |-> nf, key_replay |-> w, prev_key_replay |-> w,
     out |-> o, kick |-> FALSE]
    BY <2>1, Zenon DEF NewSm
  <2>3. Shape(s) /\ s.TimeoutCtr = 0 /\ s.out = o /\ s.grpSt = "IDLE" /\ s.Disconnect = FALSE /\ s.PTKRequest = FALSE
        /\ s.assoc = j /\ s.PTK = no /\ s.PTK_valid = FALSE /\ s.EAPOLKeyReceived = FALSE /\ s.MICVerified = FALSE
        /\ s.update_snonce = FALSE /\ s.PInitAKeys = FALSE /\ s.kick = FALSE /\ s.TimeoutEvt = FALSE
    <3> HIDE DEF s
    <3> QED BY <2>2 DEF Shape, ApFields
  <2> HIDE DEF s, w0
  <2> QED BY <2>1, <2>3 DEF Idle, IsAp
<1> HIDE DEF s
<1>2. IsAp(s) BY <1>1 DEF Idle
<1>3. IsAp(b) /\ b.changed = TRUE /\ b.Init = TRUE /\ \A f \in ApFields \ {"Init", "changed"} : b[f] = s[f]
  BY <1>2 DEF IsAp, Shape, ApFields
<1>4. z = Passes(Passes(Passes(Passes(b)))) BY AfterPasses, Zenon DEF wpa_sm_step, b, s
<1> HIDE DEF b
<1>5. IsAp(c) /\ c.Init = TRUE /\ \A f \in ApFields \ {"Init", "changed"} : c[f] = s[f]
  BY <1>3 DEF IsAp, Shape, ApFields
<1> HIDE DEF c
<1>6. p = PTK_INITIALIZE(c) BY <1>5, PtkCases
<1>7. IsAp(p) BY <1>5, PtkKick
<1>8. Idle(p, j) /\ p.out = <<>> /\ p.Init = TRUE
  <2> DEFINE s1 == Ptk_Enter(c, "INITIALIZE")
             s2 == wpa_remove_ptk(s1)
             b0 == s2.PInitAKeys /\ conf.proto # "WPA"
  <2>1. IsAp(s1) /\ \A f \in ApFields \ {"ptkSt", "changed"} : s1[f] = c[f]
    BY <1>5 DEF Ptk_Enter, IsAp, Shape, ApFields
  <2>2. p = [s2 EXCEPT !.changed = ~c.Init, !.TimeoutCtr = 0, !.PInitAKeys = b0]
    BY <1>6 DEF PTK_INITIALIZE
  <2> HIDE DEF s1
  <2>3. /\ IsAp(s2) /\ s2.PTK_valid = FALSE /\ s2.PTK = None
        /\ \A f \in ApFields \ {"PTK_valid", "PTK", "key", "pairwise_set"} : s2[f] = s1[f]
    <3>1. PICK no : no = None OBVIOUS
    <3>2. s2 = [s1 EXCEPT !.PTK_valid = FALSE, !.PTK = no, !.key = no, !.pairwise_set = FALSE]
      BY <3>1 DEF wpa_remove_ptk
    <3> HIDE DEF s2
    <3>3. /\ IsAp(s2) /\ s2.PTK_valid = FALSE /\ s2.PTK = no
          /\ \A f \in ApFields \ {"PTK_valid", "PTK", "key", "pairwise_set"} : s2[f] = s1[f]
      BY <2>1, <3>2 DEF IsAp, Shape, ApFields
    <3> QED BY <3>1, <3>3
  <2> HIDE DEF s2
  <2>4. PICK bb, aa : bb = b0 /\ aa = ~c.Init OBVIOUS
  <2>5. p = [s2 EXCEPT !.changed = aa, !.TimeoutCtr = 0, !.PInitAKeys = bb] BY <2>2, <2>4, Zenon
  <2> HIDE DEF p, b0
  <2>6. p.PInitAKeys = bb /\ \A f \in ApFields \ {"changed", "TimeoutCtr", "PInitAKeys"} : p[f] = s2[f]
    BY <2>3, <2>5 DEF IsAp, Shape, ApFields
  <2>7. ~bb
    <3>1. s2.PInitAKeys = s.PInitAKeys BY <1>5, <2>1, <2>3 DEF ApFields
    <3>2. ~s.PInitAKeys BY <1>1 DEF Idle
    <3> QED BY <2>4, <3>1, <3>2 DEF b0
  <2>8. /\ p.grpSt = s.grpSt /\ p.Disconnect = s.Disconnect /\ p.PTKRequest = s.PTKRequest /\ p.assoc = s.assoc
        /\ p.PTK = None /\ p.PTK_valid = FALSE /\ p.EAPOLKeyReceived = s.EAPOLKeyReceived
        /\ p.MICVerified = s.MICVerified /\ p.update_snonce = s.update_snonce
        /\ p.kick = s.kick /\ p.TimeoutEvt = s.TimeoutEvt /\ p.out = s.out /\ p.Init = TRUE
    BY <1>5, <2>1, <2>3, <2>6 DEF ApFields
  <2> QED BY <1>1, <1>7, <2>6, <2>7, <2>8 DEF Idle, p
<1> HIDE DEF p
<1>9. g = GROUP_IDLE(p) BY <1>8, GroupCases
<1>10. /\ IsAp(g) /\ g.changed = ~p.Init /\ g.grpSt = "IDLE"
       /\ \A f \in ApFields \ {"grpSt", "changed", "GTimeoutCtr"} : g[f] = p[f]
  BY <1>7, <1>9 DEF GROUP_IDLE, Group_Enter, IsAp, Shape, ApFields
<1> HIDE DEF g
<1>11. /\ g.grpSt = p.grpSt /\ g.out = p.out /\ \A f \in IdleFields \ {"grpSt"} : g[f] = p[f]
  BY <1>8, <1>10 DEF ApFields, IdleFields, Idle
<1>12. Idle(g, j) /\ g.out = <<>> /\ ~g.changed
  <2>1. \A f \in IdleFields : g[f] = p[f] BY <1>11
  <2> QED BY <1>8, <1>10, <1>11, <2>1, IdleSame
<1>13. Pass(b) = g BY <1>3, PassIs DEF g, p, c
<1>14. Pass(g) = g BY <1>12, PassIs
<1>15. Passes(b) = g /\ Passes(g) = g BY <1>13, <1>14, PassesIs
<1>16. z = g BY <1>4, <1>15
<1> QED BY <1>12, <1>16

\* 1/4 has been sent, and nothing else.
Ready(s, j) ==
  /\ Idle(s, j) /\ s.ptkSt = "PTKSTART" /\ ~s.Init /\ ~s.AuthenticationRequest /\ s.ANonce = j
  /\ s.TimeoutCtr = 1 /\ Outs(s, {}, j)

\* A pass of the state machines after 1/4 does nothing.
LEMMA ReadyStays ==
  ASSUME NEW s, NEW j, Ready(s, j)
  PROVE  Ready(Pass(s), j)
<1>1. CASE ~s.changed
  <2>1. Pass(s) = s BY <1>1, PassIs
  <2> QED BY <2>1
<1>2. CASE s.changed
  <2> DEFINE c == [s EXCEPT !.changed = FALSE]
  <2>1. /\ IsAp(c) /\ \A f \in ApFields \ {"changed"} : c[f] = s[f]
    BY DEF Ready, Idle, IsAp, Shape, ApFields
  <2> HIDE DEF c
  <2>2. Idle(c, j) BY <2>1, IdleSame DEF Ready, IdleFields, ApFields
  <2>3. /\ c.ptkSt = s.ptkSt /\ c.Init = s.Init /\ c.AuthenticationRequest = s.AuthenticationRequest
        /\ c.ANonce = s.ANonce /\ c.TimeoutCtr = s.TimeoutCtr /\ c.out = s.out /\ c.PTK = s.PTK
    BY <2>1 DEF ApFields
  <2>4. Outs(c, {}, j) BY <2>3 DEF Ready, Outs
  <2>5. Ready(c, j) BY <2>2, <2>3, <2>4 DEF Ready
  <2>6. PTK_Step(c) = c
    <3>1. ~PairwiseReceived(c) BY <2>2 DEF PairwiseReceived, Idle
    <3>2. ~(c.TimeoutCtr > UpdateCount) BY <2>5, WpaBounds DEF Ready
    <3>3. ~c.Init /\ ~c.Disconnect /\ ~c.AuthenticationRequest /\ ~c.PTKRequest /\ ~c.TimeoutEvt /\ c.ptkSt = "PTKSTART"
      BY <2>5 DEF Ready, Idle
    <3> QED BY <3>1, <3>2, <3>3, PtkCases
  <2>7. GROUP_Step(c) = c BY <2>5, IdleGroup DEF Ready
  <2>8. Pass(s) = c BY <1>2, <2>6, <2>7, PassIs DEF c
  <2> QED BY <2>5, <2>8
<1> QED BY <1>1, <1>2

\* Nor do three.
LEMMA ReadyPasses ==
  ASSUME NEW s, NEW j, Ready(s, j)
  PROVE  Ready(Passes(s), j)
<1>1. Ready(Pass(s), j) BY ReadyStays
<1>2. Ready(Pass(Pass(s)), j) BY <1>1, ReadyStays
<1>3. Ready(Pass(Pass(Pass(s))), j) BY <1>2, ReadyStays
<1> QED BY <1>3, PassesIs

\* The machine of a new association stands at 1/4.
LEMMA StartReady ==
  ASSUME NEW j
  PROVE  Ready(wpa_auth_sta_associated(NewSm(j)), j)
<1> DEFINE Start(r) == wpa_sm_step([r EXCEPT !.Init = FALSE, !.AuthenticationRequest = TRUE])
           z == wpa_sm_step([NewSm(j) EXCEPT !.Init = TRUE])
           x == [z EXCEPT !.Init = FALSE, !.AuthenticationRequest = TRUE]
           b == [x EXCEPT !.changed = TRUE]
           a0 == [b EXCEPT !.changed = FALSE]
           a1 == PTK_AUTHENTICATION(a0)
           b0 == [a1 EXCEPT !.changed = FALSE]
           b1 == PTK_AUTHENTICATION2(b0)
           c0 == [b1 EXCEPT !.changed = FALSE]
           c1 == PTK_INITPSK(c0)
           d0 == [c1 EXCEPT !.changed = FALSE]
           d1 == PTK_PTKSTART(d0)
<1>1. wpa_auth_sta_associated(NewSm(j)) = Start(z)
  <2>1. wpa_auth_sta_associated(NewSm(j)) = CHOOSE y \in {Start(r) : r \in {z}} : TRUE
    BY DEF wpa_auth_sta_associated, After
  <2> HIDE DEF z, Start
  <2>2. {Start(r) : r \in {z}} = {Start(z)} OBVIOUS
  <2> QED BY <2>1, <2>2, OnlyOne
<1>2. Idle(z, j) /\ z.out = <<>> BY FirstRun
<1> HIDE DEF z
<1>3. Start(z) = Passes(Passes(Passes(Passes(b)))) BY AfterPasses, Zenon DEF wpa_sm_step
<1> HIDE DEF Start
<1>4. IsAp(z) BY <1>2 DEF Idle
<1>5. IsAp(x) /\ x.Init = FALSE /\ x.AuthenticationRequest = TRUE
      /\ \A f \in ApFields \ {"Init", "AuthenticationRequest"} : x[f] = z[f]
  BY <1>4 DEF IsAp, Shape, ApFields
<1> HIDE DEF x
<1>6. IsAp(b) /\ b.changed = TRUE /\ \A f \in ApFields \ {"changed"} : b[f] = x[f]
  BY <1>5 DEF IsAp, Shape, ApFields
<1> HIDE DEF b
<1>7. IsAp(a0) /\ \A f \in ApFields \ {"changed"} : a0[f] = b[f]
  BY <1>6 DEF IsAp, Shape, ApFields
<1> HIDE DEF a0
<1>8. Idle(a0, j) /\ a0.out = <<>> /\ a0.Init = FALSE /\ a0.AuthenticationRequest = TRUE
  <2>1. \A f \in ApFields \ {"Init", "AuthenticationRequest", "changed"} : a0[f] = z[f]
    BY <1>5, <1>6, <1>7 DEF ApFields
  <2>2. \A f \in IdleFields : a0[f] = z[f] BY <2>1 DEF IdleFields, ApFields
  <2>3. Idle(a0, j) BY <1>2, <1>7, <2>2, IdleSame
  <2> QED BY <1>2, <1>5, <1>6, <1>7, <2>1, <2>3 DEF ApFields
\* AUTHENTICATION
<1>9. Idle(a1, j) /\ a1.out = <<>> /\ ~a1.Init /\ ~a1.AuthenticationRequest /\ a1.ptkSt = "AUTHENTICATION" /\ a1.changed
  <2>1. PICK no : no = None OBVIOUS
  <2>2. a1 = [Ptk_Enter(a0, "AUTHENTICATION") EXCEPT !.PTK = no, !.PTK_valid = FALSE, !.AuthenticationRequest = FALSE]
    BY <2>1 DEF PTK_AUTHENTICATION
  <2> HIDE DEF a1
  <2>3. /\ IsAp(a1) /\ a1.ptkSt = "AUTHENTICATION" /\ a1.changed = TRUE /\ a1.PTK = no /\ a1.PTK_valid = FALSE
        /\ a1.AuthenticationRequest = FALSE
        /\ \A f \in ApFields \ {"ptkSt", "changed", "PTK", "PTK_valid", "AuthenticationRequest"} : a1[f] = a0[f]
    BY <1>7, <2>2 DEF Ptk_Enter, IsAp, Shape, ApFields
  <2>4. /\ a1.grpSt = a0.grpSt /\ a1.Disconnect = a0.Disconnect /\ a1.PTKRequest = a0.PTKRequest
        /\ a1.assoc = a0.assoc /\ a1.EAPOLKeyReceived = a0.EAPOLKeyReceived
        /\ a1.MICVerified = a0.MICVerified /\ a1.update_snonce = a0.update_snonce /\ a1.PInitAKeys = a0.PInitAKeys
        /\ a1.kick = a0.kick /\ a1.TimeoutEvt = a0.TimeoutEvt /\ a1.out = a0.out /\ a1.Init = a0.Init
    BY <2>3 DEF ApFields
  <2>5. Idle(a1, j) BY <1>8, <2>1, <2>3, <2>4 DEF Idle
  <2> QED BY <1>8, <2>3, <2>4, <2>5
<1>10. Pass(b) = a1
  <2>1. PTK_Step(a0) = a1 BY <1>8, PtkCases DEF Idle
  <2>2. GROUP_Step(a1) = a1 BY <1>9, IdleGroup
  <2> QED BY <1>6, <2>1, <2>2, PassIs DEF a0
<1> HIDE DEF a1
<1>11. IsAp(a1) BY <1>9 DEF Idle
<1>12. IsAp(b0) /\ \A f \in ApFields \ {"changed"} : b0[f] = a1[f]
  BY <1>11 DEF IsAp, Shape, ApFields
<1> HIDE DEF b0
<1>13. Idle(b0, j) /\ b0.out = <<>> /\ ~b0.Init /\ ~b0.AuthenticationRequest /\ b0.ptkSt = "AUTHENTICATION"
  <2>1. \A f \in IdleFields : b0[f] = a1[f] BY <1>12 DEF IdleFields, ApFields
  <2>2. Idle(b0, j) BY <1>9, <1>12, <2>1, IdleSame
  <2> QED BY <1>9, <1>12, <2>2 DEF ApFields
\* AUTHENTICATION2
<1>14. /\ IsAp(b1) /\ b1.ptkSt = "AUTHENTICATION2" /\ b1.changed = TRUE /\ b1.ANonce = b0.assoc /\ b1.TimeoutCtr = 0
       /\ \A f \in ApFields \ {"ptkSt", "changed", "ANonce", "TimeoutCtr"} : b1[f] = b0[f]
  BY <1>12 DEF PTK_AUTHENTICATION2, Ptk_Enter, IsAp, Shape, ApFields
<1>15. /\ Idle(b1, j) /\ b1.out = <<>> /\ ~b1.Init /\ ~b1.AuthenticationRequest /\ b1.ANonce = j
  <2> HIDE DEF b1
  <2>1. \A f \in IdleFields : b1[f] = b0[f] BY <1>14 DEF IdleFields, ApFields
  <2>2. Idle(b1, j) BY <1>13, <1>14, <2>1, IdleSame
  <2>3. b0.assoc = j BY <1>13 DEF Idle
  <2> QED BY <1>13, <1>14, <2>2, <2>3 DEF ApFields
<1>16. Pass(a1) = b1
  <2>1. PTK_Step(b0) = b1 BY <1>13, PtkCases DEF Idle
  <2> HIDE DEF b1
  <2>2. GROUP_Step(b1) = b1 BY <1>15, IdleGroup
  <2> QED BY <1>9, <2>1, <2>2, PassIs DEF b0
<1> HIDE DEF b1
<1>17. IsAp(c0) /\ \A f \in ApFields \ {"changed"} : c0[f] = b1[f]
  BY <1>14 DEF IsAp, Shape, ApFields
<1> HIDE DEF c0
<1>18. /\ Idle(c0, j) /\ c0.out = <<>> /\ ~c0.Init /\ ~c0.AuthenticationRequest /\ c0.ANonce = j
       /\ c0.ptkSt = "AUTHENTICATION2" /\ c0.TimeoutCtr = 0
  <2>1. \A f \in IdleFields : c0[f] = b1[f] BY <1>17 DEF IdleFields, ApFields
  <2>2. Idle(c0, j) BY <1>15, <1>17, <2>1, IdleSame
  <2> QED BY <1>14, <1>15, <1>17, <2>2 DEF ApFields
\* INITPSK
<1>19. /\ IsAp(c1) /\ c1.ptkSt = "INITPSK" /\ c1.changed = TRUE
       /\ \A f \in ApFields \ {"ptkSt", "changed", "req_replay"} : c1[f] = c0[f]
  BY <1>17 DEF PTK_INITPSK, Ptk_Enter, IsAp, Shape, ApFields
<1>20. /\ Idle(c1, j) /\ c1.out = <<>> /\ ~c1.Init /\ ~c1.AuthenticationRequest /\ c1.ANonce = j
       /\ c1.TimeoutCtr = 0
  <2> HIDE DEF c1
  <2>1. \A f \in IdleFields : c1[f] = c0[f] BY <1>19 DEF IdleFields, ApFields
  <2>2. Idle(c1, j) BY <1>18, <1>19, <2>1, IdleSame
  <2> QED BY <1>18, <1>19, <2>2 DEF ApFields
<1>21. Pass(b1) = c1
  <2>1. PTK_Step(c0) = c1 BY <1>18, PtkCases DEF Idle
  <2> HIDE DEF c1
  <2>2. GROUP_Step(c1) = c1 BY <1>20, IdleGroup
  <2> QED BY <1>14, <2>1, <2>2, PassIs DEF c0
<1> HIDE DEF c1
<1>22. IsAp(d0) /\ \A f \in ApFields \ {"changed"} : d0[f] = c1[f]
  BY <1>19 DEF IsAp, Shape, ApFields
<1> HIDE DEF d0
<1>23. /\ Idle(d0, j) /\ d0.out = <<>> /\ ~d0.Init /\ ~d0.AuthenticationRequest /\ d0.ANonce = j
       /\ d0.ptkSt = "INITPSK" /\ d0.TimeoutCtr = 0
  <2>1. \A f \in IdleFields : d0[f] = c1[f] BY <1>22 DEF IdleFields, ApFields
  <2>2. Idle(d0, j) BY <1>20, <1>22, <2>1, IdleSame
  <2> QED BY <1>19, <1>20, <1>22, <2>2 DEF ApFields
\* PTKSTART
<1>24. Ready(d1, j)
  <2> DEFINE s1 == [Ptk_Enter(d0, "PTKSTART") EXCEPT
                      !.PTKRequest = FALSE, !.TimeoutEvt = FALSE, !.TimeoutCtr = @ + 1]
             y == wpa_send_eapol(s1, "1/4", FALSE, s1.ANonce, 0)
  <2>1. /\ Shape(s1) /\ s1.TimeoutCtr = d0.TimeoutCtr + 1 /\ s1.ptkSt = "PTKSTART"
        /\ s1.PTKRequest = FALSE /\ s1.TimeoutEvt = FALSE
        /\ \A f \in ApFields \ {"ptkSt", "changed", "PTKRequest", "TimeoutEvt", "TimeoutCtr"} : s1[f] = d0[f]
    BY <1>22 DEF Ptk_Enter, IsAp, Shape, ApFields
  <2>2. d1 = IF s1.TimeoutCtr > UpdateCount THEN s1 ELSE y BY DEF PTK_PTKSTART
  <2> HIDE DEF s1
  <2>3. s1.TimeoutCtr = 1 /\ IsAp(s1) BY <1>23, <2>1 DEF IsAp
  <2>4. d1 = y
    <3>1. UpdateCount \in Nat \ {0} BY WpaBounds
    <3>2. ~(s1.TimeoutCtr > UpdateCount) BY <2>3, <3>1
    <3> HIDE DEF y, d1
    <3> QED BY <2>2, <3>2
  <2>5. /\ s1.grpSt = d0.grpSt /\ s1.Disconnect = d0.Disconnect /\ s1.assoc = d0.assoc
        /\ s1.PTK = d0.PTK /\ s1.PTK_valid = d0.PTK_valid /\ s1.EAPOLKeyReceived = d0.EAPOLKeyReceived
        /\ s1.MICVerified = d0.MICVerified /\ s1.update_snonce = d0.update_snonce /\ s1.PInitAKeys = d0.PInitAKeys
        /\ s1.kick = d0.kick /\ s1.out = d0.out /\ s1.Init = d0.Init /\ s1.ANonce = d0.ANonce
        /\ s1.AuthenticationRequest = d0.AuthenticationRequest
    BY <2>1 DEF ApFields
  <2>6. Idle(s1, j) BY <1>23, <2>1, <2>3, <2>5 DEF Idle
  <2>7. /\ IsAp(y)
        /\ \A f \in ApFields \ {"key_replay", "out", "resend_eapol"} : y[f] = s1[f]
        /\ \/ y.out = s1.out
           \/ \E m : y.out = Append(s1.out, m) /\ m.k = "1/4" /\ m.nonce = s1.ANonce /\ m.mic = None
    <3>0. PICK no, zero : no = FALSE /\ zero = 0 OBVIOUS
    <3>2. y = wpa_send_eapol(s1, "1/4", no, s1.ANonce, zero) BY <3>0
    <3> HIDE DEF y
    <3>1. /\ IsAp(y)
          /\ \A f \in ApFields \ {"key_replay", "out", "resend_eapol"} : y[f] = s1[f]
          /\ \/ y.out = s1.out
             \/ \E m : /\ y.out = Append(s1.out, m) /\ m.k = "1/4" /\ m.nonce = s1.ANonce
                       /\ m.mic = IF no THEN s1.PTK ELSE None
                       /\ no => s1.PTK_valid
      BY <2>3, <3>2, SendKeeps
    <3> QED BY <3>0, <3>1
  <2> HIDE DEF y, d1
  <2>8. Idle(y, j)
    <3>1. \A f \in IdleFields : y[f] = s1[f] BY <2>7 DEF IdleFields, ApFields
    <3> QED BY <2>6, <2>7, <3>1, IdleSame
  <2>9. /\ y.ptkSt = "PTKSTART" /\ ~y.Init /\ ~y.AuthenticationRequest /\ y.ANonce = j /\ y.TimeoutCtr = 1
    BY <1>23, <2>1, <2>3, <2>5, <2>7 DEF ApFields
  <2>10. IsSeq(s1.out) /\ s1.out = <<>> BY <1>23, <2>5 DEF IsSeq
  <2>11. Outs(y, {}, j)
    <3>1. CASE y.out = s1.out BY <2>10, <3>1 DEF Outs
    <3>2. CASE \E m : y.out = Append(s1.out, m) /\ m.k = "1/4" /\ m.nonce = s1.ANonce /\ m.mic = None
      <4>1. PICK m : y.out = Append(s1.out, m) /\ m.k = "1/4" /\ m.nonce = s1.ANonce /\ m.mic = None BY <3>2
      <4>2. Sent(m, y.PTK, j) BY <1>23, <2>5, <4>1 DEF Sent
      <4>3. IsSeq(y.out) /\ \A i \in DOMAIN y.out : y.out[i] = m \/ i \in DOMAIN s1.out
        <5>1. /\ IsSeq(Append(s1.out, m))
              /\ \A i \in DOMAIN Append(s1.out, m) :
                   Append(s1.out, m)[i] = m \/ (i \in DOMAIN s1.out /\ Append(s1.out, m)[i] = s1.out[i])
          BY <2>10, AppendFrame
        <5>2. PICK o : o = Append(s1.out, m) OBVIOUS
        <5> QED BY <4>1, <5>1, <5>2
      <4> QED BY <2>10, <4>2, <4>3 DEF Outs
    <3> QED BY <2>7, <3>1, <3>2
  <2> QED BY <2>4, <2>8, <2>9, <2>11 DEF Ready
<1>25. Pass(c1) = d1
  <2>1. PTK_Step(d0) = d1 BY <1>23, PtkCases DEF Idle
  <2> HIDE DEF d1
  <2>2. GROUP_Step(d1) = d1 BY <1>24, IdleGroup DEF Ready
  <2> QED BY <1>19, <2>1, <2>2, PassIs DEF d0
<1> HIDE DEF d1
<1>26. Passes(b) = c1 BY <1>10, <1>16, <1>21, PassesIs
<1>27. Ready(Passes(c1), j)
  <2>1. Ready(Pass(d1), j) BY <1>24, ReadyStays
  <2>2. Ready(Pass(Pass(d1)), j) BY <2>1, ReadyStays
  <2> QED BY <1>25, <2>2, PassesIs
<1>28. Ready(Passes(Passes(c1)), j) BY <1>27, ReadyPasses
<1>29. Ready(Passes(Passes(Passes(c1))), j) BY <1>28, ReadyPasses
<1> QED BY <1>1, <1>3, <1>26, <1>29
----------------------------------------------------------------------------
(***************************************************************************)
(* Both sides have the same key: the station, and the frames under way.    *)
(***************************************************************************)
\* k is among the installed keys q.
In(k, q) == \E i \in DOMAIN q : q[i] = k

\* The key the station has derived and not installed, if it has one it may
\* still install in this association.
Cand(s) == IF s.tset THEN s.tptk ELSE s.ptk
Waits(cf, s) == cf.ieSame /\ s.key_install /\ ~s.tset
Cands(cf, s) == IF s.key_install /\ (IF s.tset THEN ~s.renew ELSE cf.ieSame) THEN {Cand(s)} ELSE {}

\* The access point's machine between two handlers, spelled out.
Core(cf, s, t, cs, j) ==
  /\ IsAp(s) /\ ~s.kick /\ s.out = <<>>
  /\ s.assoc = j /\ s.ANonce = j
  /\ s.ptkSt \in {"PTKSTART", "PTKCALCNEGOTIATING", "PTKINITNEGOTIATING", "PTKINITDONE"}
  /\ ~s.Init /\ ~s.AuthenticationRequest /\ ~s.PTKRequest /\ ~s.update_snonce
  /\ s.PTK = None \/ s.PTK = t \/ s.PTK \in cs
  /\ s.PTK # None => cf.staPmk = cf.apPmk
  /\ s.MICVerified \/ s.PTK_valid => s.PTK # None
  /\ s.ptkSt = "PTKINITDONE" => s.key = s.PTK
  /\ s.ptkSt \in {"PTKINITNEGOTIATING", "PTKINITDONE"} => s.PTK # None
  /\ s.ptkSt # "PTKINITDONE" => ~s.TimeoutEvt
  /\ s.ptkSt = "PTKCALCNEGOTIATING" => cf.staPmk # cf.apPmk
  /\ s.grpSt \in {"IDLE", "REKEYNEGOTIATING", "KEYERROR"}
  /\ s.grpSt = "KEYERROR" => s.Disconnect
  /\ ~(s.grpSt = "IDLE" /\ cf.proto = "WPA" /\ s.PInitAKeys)
  /\ s.EAPOLKeyReceived => s.EAPOLKeyRequest
  /\ s.PTK \in cs =>
       s.PTK_valid /\ s.SNonce = s.PTK.snonce /\ ~s.EAPOLKeyReceived /\ s.ptkSt = "PTKINITNEGOTIATING"

\* What Core spells out is what the access point's handlers start from.
LEMMA CoreRest ==
  ASSUME NEW s, NEW t, NEW cs, NEW j, None \notin cs, Core(conf, s, t, cs, j)
  PROVE  Rest(s, t, cs, j)
<1>1. Outs(s, cs, j) BY DEF Core, Outs, IsSeq
<1>2. ~GroupReady(s) BY DEF Core, GroupReady
<1>3. Base(s, t, cs, j, None, TRUE) BY <1>1, <1>2 DEF Core, Base, Running, SamePmk
<1>4. Progress(s, 3) BY DEF Core, Progress, SamePmk
<1>5. Whole(s, 3, t, cs, j, None, TRUE)
  <2>1. IsAp(s) /\ s.grpSt \in {"IDLE", "REKEYNEGOTIATING", "KEYERROR"}
        /\ (s.grpSt = "KEYERROR" => s.Disconnect) /\ (s.EAPOLKeyReceived => s.EAPOLKeyRequest)
    BY DEF Core
  <2> QED BY <1>2, <1>3, <1>4, <2>1 DEF Whole
<1> QED BY <1>5 DEF Rest, Core

\* The machine r once its frames are on the air.
Emptied(s, r) == IsAp(s) /\ ~s.kick /\ s.out = <<>> /\ \A f \in ApFields \ {"out", "kick"} : s[f] = r[f]

\* ApBecomes empties the machine of its frames and of its disconnect.
LEMMA EmptiedIs ==
  ASSUME NEW r, IsAp(r)
  PROVE  Emptied([r EXCEPT !.out = <<>>, !.kick = FALSE], r)
<1> DEFINE a == [r EXCEPT !.out = <<>>, !.kick = FALSE]
<1>1. Shape(a) /\ a.out = <<>> /\ a.kick = FALSE /\ \A f \in ApFields \ {"out", "kick"} : a[f] = r[f]
  BY DEF IsAp, Shape, ApFields
<1>2. "TimeoutCtr" \in ApFields \ {"out", "kick"} BY DEF ApFields
<1>3. a.TimeoutCtr = r.TimeoutCtr BY <1>1, <1>2
<1> QED BY <1>1, <1>3 DEF IsAp, Emptied

\* A handler of the access point that does not disconnect ends where the next
\* can start; it has taken a derived key only if it was allowed to (h), and has
\* not lost one it had (w).
LEMMA WholeCore ==
  ASSUME NEW r, NEW t, NEW cs, NEW j, NEW w, NEW h, Whole(r, 3, t, cs, j, w, h), ~r.kick,
         NEW s, Emptied(s, r)
  PROVE  Core(conf, s, t, cs, j) /\ s.PTK = r.PTK /\ (s.PTK \in cs => h) /\ (w \in cs => s.PTK \in cs)
<1>1. /\ s.ptkSt = r.ptkSt /\ s.grpSt = r.grpSt /\ s.Init = r.Init /\ s.Disconnect = r.Disconnect
      /\ s.AuthenticationRequest = r.AuthenticationRequest
      /\ s.PTKRequest = r.PTKRequest /\ s.assoc = r.assoc /\ s.ANonce = r.ANonce /\ s.SNonce = r.SNonce
      /\ s.PTK = r.PTK /\ s.PTK_valid = r.PTK_valid /\ s.key = r.key /\ s.TimeoutEvt = r.TimeoutEvt
      /\ s.EAPOLKeyReceived = r.EAPOLKeyReceived /\ s.EAPOLKeyRequest = r.EAPOLKeyRequest
      /\ s.MICVerified = r.MICVerified /\ s.update_snonce = r.update_snonce
      /\ s.PInitAKeys = r.PInitAKeys
  BY DEF ApFields, Emptied
<1>2. /\ Base(r, t, cs, j, w, h) /\ Progress(r, 3)
      /\ r.grpSt \in {"IDLE", "REKEYNEGOTIATING", "REKEYESTABLISHED", "KEYERROR"}
      /\ r.grpSt = "KEYERROR" => r.Disconnect
      /\ r.grpSt = "REKEYESTABLISHED" => 3 = 1 /\ r.changed
      /\ GroupReady(r) => 3 = 2 /\ r.changed
      /\ r.EAPOLKeyReceived => r.EAPOLKeyRequest
  BY Zenon DEF Whole
<1>3. r.grpSt # "REKEYESTABLISHED" /\ ~GroupReady(r)
  <2>1. 3 # 1 /\ 3 # 2 OBVIOUS
  <2> QED BY <1>2, <2>1
<1>4. /\ r.ptkSt \in {"PTKSTART", "PTKCALCNEGOTIATING", "PTKINITNEGOTIATING", "PTKINITDONE"}
      /\ r.ptkSt = "PTKCALCNEGOTIATING" => ~SamePmk
  BY <1>2 DEF Base, Running, Progress
<1>5. r.PTK \in cs => r.ptkSt = "PTKINITNEGOTIATING" /\ h
  BY <1>2, <1>4 DEF Base
<1>6. /\ ~(r.grpSt = "IDLE" /\ conf.proto = "WPA" /\ r.PInitAKeys)
      /\ r.grpSt \in {"IDLE", "REKEYNEGOTIATING", "KEYERROR"}
  BY <1>2, <1>3 DEF GroupReady
<1>7. /\ r.assoc = j /\ r.ANonce = j
      /\ ~r.Init /\ ~r.AuthenticationRequest /\ ~r.PTKRequest /\ ~r.update_snonce
      /\ r.PTK = None \/ r.PTK = t \/ r.PTK \in cs
      /\ r.PTK # None => conf.staPmk = conf.apPmk
      /\ r.MICVerified \/ r.PTK_valid => r.PTK # None
      /\ r.ptkSt = "PTKINITDONE" => r.key = r.PTK
      /\ r.ptkSt \in {"PTKINITNEGOTIATING", "PTKINITDONE"} => r.PTK # None
      /\ r.ptkSt # "PTKINITDONE" => ~r.TimeoutEvt
      /\ r.PTK \in cs => r.PTK_valid /\ r.SNonce = r.PTK.snonce /\ ~r.EAPOLKeyReceived
      /\ w \in cs => r.PTK \in cs
  BY <1>2, <1>4 DEF Base, SamePmk
<1>8. r.ptkSt = "PTKCALCNEGOTIATING" => conf.staPmk # conf.apPmk BY <1>4 DEF SamePmk
<1> QED BY <1>1, <1>2, <1>4, <1>5, <1>6, <1>7, <1>8 DEF Core, Emptied

\* A machine that has sent its first 1/4 has no key.
LEMMA ReadyCore ==
  ASSUME NEW r, NEW t, NEW j, Ready(r, j),
         NEW s, IsAp(s), s.out = <<>>, \A f \in ApFields \ {"out"} : s[f] = r[f]
  PROVE  Core(conf, s, t, {}, j) /\ s.PTK = None
<1>1. /\ s.ptkSt = r.ptkSt /\ s.grpSt = r.grpSt /\ s.Init = r.Init /\ s.Disconnect = r.Disconnect
      /\ s.AuthenticationRequest = r.AuthenticationRequest
      /\ s.PTKRequest = r.PTKRequest /\ s.assoc = r.assoc /\ s.ANonce = r.ANonce
      /\ s.PTK = r.PTK /\ s.PTK_valid = r.PTK_valid /\ s.TimeoutEvt = r.TimeoutEvt
      /\ s.EAPOLKeyReceived = r.EAPOLKeyReceived
      /\ s.MICVerified = r.MICVerified /\ s.update_snonce = r.update_snonce
      /\ s.PInitAKeys = r.PInitAKeys /\ s.kick = r.kick
  BY DEF ApFields
<1> QED BY <1>1 DEF Ready, Idle, Core
----------------------------------------------------------------------------
\* Sequences.
LEMMA SeqFacts ==
  ASSUME NEW q, IsSeq(q)
  PROVE  DOMAIN q = 1..Len(q) /\ Len(q) \in Nat
BY DEF IsSeq

\* A queue without its first frame.
LEMMA TailFacts ==
  ASSUME NEW q, IsSeq(q), q # <<>>
  PROVE  /\ IsSeq(Tail(q)) /\ 1 \in DOMAIN q /\ Head(q) = q[1]
         /\ \A i \in DOMAIN Tail(q) : i \in Nat /\ i > 0 /\ i + 1 \in DOMAIN q /\ Tail(q)[i] = q[i + 1]
<1> DEFINE S == {q[i] : i \in DOMAIN q}
           p == Tail(q)
<1>1. q \in Seq(S) BY DEF IsSeq
<1>0. q \in Seq(S) /\ DOMAIN q = 1..Len(q) /\ Len(q) \in Nat BY <1>1
<1> HIDE DEF S
<1>2. Len(q) > 0 BY <1>0
<1>3. p \in Seq(S) /\ Len(p) = Len(q) - 1 /\ DOMAIN p = 1..Len(p) /\ \A i \in 1..Len(p) : p[i] = q[i + 1]
  BY <1>0, <1>2
<1> HIDE DEF p
<1>4. IsSeq(p)
  <2>1. p = [i \in 1..Len(p) |-> p[i]] /\ Len(p) \in Nat BY <1>0, <1>2, <1>3
  <2> QED BY <1>3, <2>1 DEF IsSeq
<1>5. Head(q) = q[1] /\ 1 \in DOMAIN q BY <1>0, <1>2
<1> QED BY <1>0, <1>3, <1>4, <1>5 DEF p

\* Two queues, one after the other.
LEMMA ConcatFacts ==
  ASSUME NEW p, NEW q, IsSeq(p), IsSeq(q)
  PROVE  LET r == p \o q IN
         /\ IsSeq(r)
         /\ \A i \in DOMAIN r : \/ i \in DOMAIN p /\ r[i] = p[i]
                                \/ i \notin DOMAIN p /\ \E k \in DOMAIN q : r[i] = q[k]
         /\ \A i, k \in DOMAIN r : i < k /\ k \in DOMAIN p => i \in DOMAIN p
<1> DEFINE S == {p[i] : i \in DOMAIN p} \cup {q[i] : i \in DOMAIN q}
           r == p \o q
<1>1. p \in Seq(S) /\ DOMAIN p = 1..Len(p) /\ Len(p) \in Nat
  <2>1. p \in Seq({p[i] : i \in DOMAIN p}) BY DEF IsSeq
  <2>2. \A i \in 1..Len(p) : p[i] \in S BY <2>1
  <2> QED BY <2>1, <2>2
<1>2. q \in Seq(S) /\ DOMAIN q = 1..Len(q) /\ Len(q) \in Nat
  <2>1. q \in Seq({q[i] : i \in DOMAIN q}) BY DEF IsSeq
  <2>2. \A i \in 1..Len(q) : q[i] \in S BY <2>1
  <2> QED BY <2>1, <2>2
<1> HIDE DEF S
<1>3. /\ r \in Seq(S) /\ Len(r) = Len(p) + Len(q) /\ DOMAIN r = 1..Len(r)
      /\ \A i \in 1..Len(p) : r[i] = p[i]
      /\ \A i \in (Len(p) + 1)..Len(r) : r[i] = q[i - Len(p)]
  BY <1>1, <1>2
<1> HIDE DEF r
<1>4. IsSeq(r)
  <2>1. r \in Seq(S) /\ Len(r) \in Nat /\ DOMAIN r = 1..Len(r) BY <1>1, <1>2, <1>3
  <2>2. r = [i \in 1..Len(r) |-> r[i]] BY <2>1
  <2> QED BY <2>1, <2>2 DEF IsSeq
<1>5. ASSUME NEW i \in DOMAIN r
      PROVE  \/ i \in DOMAIN p /\ r[i] = p[i]
             \/ i \notin DOMAIN p /\ \E k \in DOMAIN q : r[i] = q[k]
  <2>1. CASE i \in 1..Len(p) BY <1>1, <1>3, <2>1
  <2>2. CASE i \notin 1..Len(p)
    <3>1. i \in (Len(p) + 1)..Len(r) /\ i - Len(p) \in DOMAIN q BY <1>1, <1>2, <1>3, <2>2
    <3> QED BY <1>1, <1>3, <2>2, <3>1
  <2> QED BY <2>1, <2>2
<1>6. \A i, k \in DOMAIN r : i < k /\ k \in DOMAIN p => i \in DOMAIN p
  BY <1>1, <1>2, <1>3
<1> QED BY <1>4, <1>5, <1>6 DEF r

\* A queue of one frame.
LEMMA OneFrame ==
  ASSUME NEW m
  PROVE  IsSeq(<<m>>) /\ \A k \in DOMAIN <<m>> : <<m>>[k] = m
BY DEF IsSeq
----------------------------------------------------------------------------
(* The frames under way, between a station with the installed key t and    *)
(* an access point with the PTK p, in association j.                       *)

\* A frame of the station: 2/4 is made with the installed key or the derived
\* one, and only with that one once the access point has it.
Answer(cf, m, t, cs, j, p) ==
  /\ m.k \in {"2/4", "4/4", "2/2", "request"}
  /\ m.k = "2/4" => /\ m.mic = PTK(cf.staPmk, j, m.nonce) /\ (m.mic = t \/ m.mic \in cs)
                    /\ p \in cs => m.mic \in cs

\* After a 2/4 with the derived key no 2/4 with another follows.
Later(m, n, cs) == m.k = "2/4" /\ m.mic \in cs /\ n.k = "2/4" => n.mic \in cs

\* The frames of the station: on the air (ta), then in its driver (tq).
Ups(cf, t, cs, ws, j, p, ta, tq, q) ==
  /\ \A i \in DOMAIN ta : /\ Answer(cf, ta[i], t, cs, j, p)
                          /\ ta[i].k # "2/4" => ta[i].mic = None \/ In(ta[i].mic, q)
  /\ \A i \in DOMAIN tq : /\ Answer(cf, tq[i], t, cs, j, p)
                          /\ tq[i].k # "2/4" => tq[i].mic = None \/ In(tq[i].mic, q) \/ tq[i].mic \in ws
  /\ \A i, k \in DOMAIN ta : i < k => Later(ta[i], ta[k], cs)
  /\ \A i, k \in DOMAIN tq : i < k => Later(tq[i], tq[k], cs)
  /\ \A i \in DOMAIN ta, k \in DOMAIN tq : Later(ta[i], tq[k], cs)

\* A frame of the access point: under the installed key, or 3/4 under the derived one.
Down(m, t, cs, j, p) ==
  \/ m.k = "1/4" /\ m.mic = None /\ m.nonce = j
  \/ m.k = "3/4" /\ m.mic = t /\ m.mic # None /\ m.nonce = j
  \/ m.k = "1/2" /\ m.mic = t /\ m.mic # None
  \/ m.k = "3/4" /\ m.mic \in cs /\ m.mic = p /\ m.nonce = j

\* The frames of the access point on the air: none but 3/4 follows a 3/4 under
\* the derived key.
Downs(t, cs, j, p, ts) ==
  /\ \A i \in DOMAIN ts : Down(ts[i], t, cs, j, p)
  /\ \A i, k \in DOMAIN ts : i < k /\ ts[i].mic \in cs => ts[k].k = "3/4" /\ ts[k].mic = ts[i].mic

\* The station has got 3/4 and waits for 4/4 to go out (ws holds its key).
Waiting(ws, p, ts) == \A k \in ws : p = k /\ \A i \in DOMAIN ts : ts[i].k = "3/4" /\ ts[i].mic = k

\* Every 2/4 under way is made with the derived key.
AllNew(ta, tq, cs) ==
  /\ \A i \in DOMAIN ta : ta[i].k = "2/4" => ta[i].mic \in cs
  /\ \A i \in DOMAIN tq : tq[i].k = "2/4" => tq[i].mic \in cs

\* The frames a handler of the access point sends are such frames, and none
\* but 3/4 follows a 3/4 under the derived key.
LEMMA ApDowns ==
  ASSUME NEW t, NEW cs, NEW ws, NEW j, NEW p, NEW h, NEW ts, NEW r, IsSeq(ts), t \notin cs, ws \subseteq cs,
         \A a, b \in cs : a = b, None \notin cs,
         Whole(r, 3, t, cs, j, p, h), ~r.kick, Downs(t, cs, j, p, ts), Waiting(ws, p, ts),
         NEW ts2, ts2 = ts \o r.out
  PROVE  IsSeq(ts2) /\ Downs(t, cs, j, r.PTK, ts2) /\ Waiting(ws, r.PTK, ts2)
<1>1. Base(r, t, cs, j, p, h) BY DEF Whole
<1>2. /\ Outs(r, cs, j) /\ (p \in cs => r.PTK \in cs)
      /\ r.PTK = None \/ r.PTK = t \/ r.PTK \in cs
  BY <1>1 DEF Base
<1>3. IsSeq(r.out) /\ \A k \in DOMAIN r.out : Sent(r.out[k], r.PTK, j) /\ (r.PTK \in cs => r.out[k].k = "3/4")
  BY <1>2 DEF Outs
<1>4. /\ IsSeq(ts2)
      /\ \A i \in DOMAIN ts2 : \/ i \in DOMAIN ts /\ ts2[i] = ts[i]
                               \/ i \notin DOMAIN ts /\ \E k \in DOMAIN r.out : ts2[i] = r.out[k]
      /\ \A i, k \in DOMAIN ts2 : i < k /\ k \in DOMAIN ts => i \in DOMAIN ts
  <2>1. PICK o : o = r.out OBVIOUS
  <2>2. IsSeq(o) BY <1>3, <2>1
  <2>3. ts2 = ts \o o BY <2>1
  <2> QED BY <2>1, <2>2, <2>3, ConcatFacts
<1>5. \A m : Sent(m, r.PTK, j) /\ (r.PTK \in cs => m.k = "3/4") =>
        /\ Down(m, t, cs, j, r.PTK)
        /\ m.mic \in cs \/ r.PTK \in cs => m.k = "3/4" /\ m.mic = r.PTK /\ r.PTK \in cs
  BY <1>2 DEF Sent, Down
<1>6. \A i \in DOMAIN ts2 : i \notin DOMAIN ts =>
        /\ Down(ts2[i], t, cs, j, r.PTK)
        /\ ts2[i].mic \in cs \/ r.PTK \in cs => ts2[i].k = "3/4" /\ ts2[i].mic = r.PTK /\ r.PTK \in cs
  BY <1>3, <1>4, <1>5
<1>7. \A i \in DOMAIN ts2 : i \in DOMAIN ts => ts2[i] = ts[i] BY <1>4
<1>8. \A i \in DOMAIN ts : Down(ts[i], t, cs, j, r.PTK) /\ (ts[i].mic \in cs => ts[i].mic = r.PTK /\ r.PTK \in cs)
  <2> SUFFICES ASSUME NEW i \in DOMAIN ts
               PROVE  Down(ts[i], t, cs, j, r.PTK) /\ (ts[i].mic \in cs => ts[i].mic = r.PTK /\ r.PTK \in cs)
    OBVIOUS
  <2>1. Down(ts[i], t, cs, j, p) BY DEF Downs
  <2>2. ts[i].mic \in cs => ts[i].mic = p BY <2>1 DEF Down
  <2> QED BY <1>2, <2>1, <2>2 DEF Down
<1>9. \A i \in DOMAIN ts2 : Down(ts2[i], t, cs, j, r.PTK) BY <1>6, <1>7, <1>8
<1>10. ASSUME NEW i \in DOMAIN ts2, NEW k \in DOMAIN ts2, i < k, ts2[i].mic \in cs
       PROVE  ts2[k].k = "3/4" /\ ts2[k].mic = ts2[i].mic
  <2>1. ts2[i].mic = r.PTK /\ r.PTK \in cs BY <1>6, <1>7, <1>8, <1>10
  <2>2. CASE k \in DOMAIN ts
    <3>1. i \in DOMAIN ts BY <1>4, <1>10, <2>2
    <3> QED BY <1>7, <1>10, <2>2, <3>1 DEF Downs
  <2>3. CASE k \notin DOMAIN ts BY <1>6, <2>1, <2>3
  <2> QED BY <2>2, <2>3
<1>11. Waiting(ws, r.PTK, ts2)
  <2> SUFFICES ASSUME NEW k \in ws PROVE r.PTK = k /\ \A i \in DOMAIN ts2 : ts2[i].k = "3/4" /\ ts2[i].mic = k
    BY DEF Waiting
  <2>1. p = k /\ k \in cs /\ \A i \in DOMAIN ts : ts[i].k = "3/4" /\ ts[i].mic = k BY DEF Waiting
  <2>2. r.PTK = k BY <1>2, <2>1
  <2> QED BY <1>6, <1>7, <2>1, <2>2
<1> QED BY <1>4, <1>9, <1>10, <1>11 DEF Downs

\* The access point's PTK may become the derived key when every 2/4 under way
\* is made with that key.
LEMMA UpsMoved ==
  ASSUME NEW cf, NEW t, NEW cs, NEW ws, NEW j, NEW p, NEW p2, NEW ta, NEW tq, NEW q,
         Ups(cf, t, cs, ws, j, p, ta, tq, q), p2 \in cs => AllNew(ta, tq, cs)
  PROVE  Ups(cf, t, cs, ws, j, p2, ta, tq, q)
BY DEF Ups, Answer, AllNew

\* The access point takes the first frame; if that is a 2/4 with the derived
\* key, every later 2/4 is made with it.
LEMMA UpsTail ==
  ASSUME NEW cf, NEW t, NEW cs, NEW ws, NEW j, NEW p, NEW ta, NEW tq, NEW q, IsSeq(ta), ta # <<>>,
         Ups(cf, t, cs, ws, j, p, ta, tq, q)
  PROVE  /\ IsSeq(Tail(ta)) /\ Ups(cf, t, cs, ws, j, p, Tail(ta), tq, q)
         /\ Head(ta).k = "2/4" /\ Head(ta).mic \in cs => AllNew(Tail(ta), tq, cs)
<1> DEFINE u == Tail(ta)
<1>1. /\ IsSeq(u) /\ 1 \in DOMAIN ta /\ Head(ta) = ta[1]
      /\ \A i \in DOMAIN u : i \in Nat /\ i > 0 /\ i + 1 \in DOMAIN ta /\ u[i] = ta[i + 1]
  BY TailFacts
<1> HIDE DEF u
<1>2. \A i, k \in DOMAIN u : i < k => Later(u[i], u[k], cs)
  <2> SUFFICES ASSUME NEW i \in DOMAIN u, NEW k \in DOMAIN u, i < k PROVE Later(u[i], u[k], cs) OBVIOUS
  <2>1. i + 1 \in DOMAIN ta /\ k + 1 \in DOMAIN ta /\ i + 1 < k + 1 /\ u[i] = ta[i + 1] /\ u[k] = ta[k + 1]
    BY <1>1
  <2>2. Later(ta[i + 1], ta[k + 1], cs) BY <2>1 DEF Ups
  <2> QED BY <2>1, <2>2
<1>3. Ups(cf, t, cs, ws, j, p, u, tq, q)
  <2>1. \A i \in DOMAIN u : Answer(cf, u[i], t, cs, j, p) /\ (u[i].k # "2/4" => u[i].mic = None \/ In(u[i].mic, q))
    BY <1>1 DEF Ups
  <2>2. \A i \in DOMAIN u, k \in DOMAIN tq : Later(u[i], tq[k], cs) BY <1>1 DEF Ups
  <2> QED BY <1>2, <2>1, <2>2 DEF Ups
<1>4. ASSUME ta[1].k = "2/4", ta[1].mic \in cs PROVE AllNew(u, tq, cs)
  <2>1. \A i \in DOMAIN u : Later(ta[1], u[i], cs)
    <3> SUFFICES ASSUME NEW i \in DOMAIN u PROVE Later(ta[1], u[i], cs) OBVIOUS
    <3>1. i + 1 \in DOMAIN ta /\ 1 < i + 1 /\ u[i] = ta[i + 1] BY <1>1
    <3>2. Later(ta[1], ta[i + 1], cs) BY <1>1, <3>1 DEF Ups
    <3> QED BY <3>1, <3>2
  <2>2. \A k \in DOMAIN tq : Later(ta[1], tq[k], cs) BY <1>1 DEF Ups
  <2> QED BY <1>4, <2>1, <2>2 DEF AllNew, Later
<1> QED BY <1>1, <1>3, <1>4 DEF u

\* Once the access point has the derived key, every 2/4 under way is made with it.
LEMMA UpsNew ==
  ASSUME NEW cf, NEW t, NEW cs, NEW ws, NEW j, NEW p, NEW ta, NEW tq, NEW q,
         Ups(cf, t, cs, ws, j, p, ta, tq, q), p \in cs
  PROVE  AllNew(ta, tq, cs)
BY DEF Ups, Answer, AllNew
----------------------------------------------------------------------------
\* The station s with the installed keys q and the frames tq in its driver;
\* l: it is associated, n: Michael failures so far.
StaOk(cf, s, q, tq, l, n) ==
  /\ s.cmTimer # "stop" /\ s.st # "TKIP_COUNTERMEASURES" /\ (s.mic_errors_seen => n >= 1)
  /\ s.txKey = None \/ In(s.txKey, q)
  /\ s.tset => s.key_install /\ s.st \notin {"LAST_HALF", "GROUP_HANDSHAKE", "COMPLETED"}
  /\ s.key_install => Cand(s) # None
  /\ s.key_install /\ ~s.tset => s.st = "LAST_HALF"
  /\ l /\ ~s.tset => s.renew
  /\ s.pset /\ ~s.key_install => In(s.ptk, q)
  /\ Waits(cf, s) => s.install /\ tq # <<>> /\ "4/4" \in s.txcb /\ s.pset
  /\ ~Waits(cf, s) => s.rxKey = s.txKey
  /\ ~cf.ieSame => "4/4" \notin s.txcb

\* The key the station holds for reception only.
Held(cf, s) == IF Waits(cf, s) THEN {s.ptk} ELSE {}

\* The installed key t, the derived ones cs, those held for reception ws.
Apart(t, cs, ws) == t \notin cs /\ ws \subseteq cs /\ (\A a, b \in cs : a = b) /\ None \notin cs

\* The frames under way in both directions.
Air(cf, t, cs, ws, j, p, ts, ta, tq, q) ==
  Ups(cf, t, cs, ws, j, p, ta, tq, q) /\ IsSeq(ts) /\ Downs(t, cs, j, p, ts) /\ Waiting(ws, p, ts)

\* The two sides and the frames between them, in association j.
Pair(cf, s, a, ts, tq, ta, q, j) ==
  /\ Core(cf, a, s.txKey, Cands(cf, s), j)
  /\ Air(cf, s.txKey, Cands(cf, s), Held(cf, s), j, a.PTK, ts, ta, tq, q)
  /\ s.tset /\ ~s.renew => s.anonce = j /\ s.tptk = PTK(cf.staPmk, j, s.snonce)

\* The derived key is none of those installed (KeyInv): a nonce serves for one
\* key.
LEMMA Derived ==
  ASSUME NEW cf, NEW s, NEW q, NEW tq, NEW l, NEW l2, NEW n, KeyInv(s, q, l2), StaOk(cf, s, q, tq, l, n)
  PROVE  Apart(s.txKey, Cands(cf, s), Held(cf, s)) /\ \A k \in Cands(cf, s) : ~In(k, q)
<1>1. s.key_install => Cand(s) # None /\ ~In(Cand(s), q)
  BY DEF KeyInv, StaOk, Cand, In, NotIn
<1>2. s.txKey = None \/ In(s.txKey, q) BY DEF StaOk
<1>3. \A k \in Cands(cf, s) : s.key_install /\ k = Cand(s) BY DEF Cands
<1>4. Held(cf, s) \subseteq Cands(cf, s) BY DEF Held, Cands, Waits, Cand
<1> QED BY <1>1, <1>2, <1>3, <1>4 DEF Apart

\* A handler of the access point keeps its side of the invariant and what it
\* says of the frames under way.
LEMMA ApMoves ==
  ASSUME NEW t, NEW cs, NEW ws, NEW j, NEW p, NEW h, NEW ts, NEW ta, NEW tq, NEW q, NEW r,
         Apart(t, cs, ws), Whole(r, 3, t, cs, j, p, h), ~r.kick, h => AllNew(ta, tq, cs),
         Air(conf, t, cs, ws, j, p, ts, ta, tq, q), NEW s, Emptied(s, r)
  PROVE  Core(conf, s, t, cs, j) /\ Air(conf, t, cs, ws, j, s.PTK, ts \o r.out, ta, tq, q)
<1>1. t \notin cs /\ ws \subseteq cs /\ (\A a, b \in cs : a = b) /\ None \notin cs BY DEF Apart
<1>2. IsSeq(ts) /\ Ups(conf, t, cs, ws, j, p, ta, tq, q) /\ Downs(t, cs, j, p, ts) /\ Waiting(ws, p, ts)
  BY DEF Air
<1>3. Core(conf, s, t, cs, j) /\ s.PTK = r.PTK /\ (s.PTK \in cs => h)
  BY WholeCore
<1>4. PICK ts2 : ts2 = ts \o r.out OBVIOUS
<1>5. IsSeq(ts2) /\ Downs(t, cs, j, r.PTK, ts2) /\ Waiting(ws, r.PTK, ts2)
  BY <1>1, <1>2, <1>4, ApDowns
<1>6. PICK p2 : p2 = s.PTK OBVIOUS
<1>7. Ups(conf, t, cs, ws, j, p2, ta, tq, q)
  <2>1. PICK cf : cf = conf OBVIOUS
  <2>2. Ups(cf, t, cs, ws, j, p, ta, tq, q) BY <1>2, <2>1
  <2>3. Ups(cf, t, cs, ws, j, p2, ta, tq, q) BY <1>3, <1>6, <2>2, UpsMoved
  <2> QED BY <2>1, <2>3
<1> QED BY <1>3, <1>4, <1>5, <1>6, <1>7 DEF Air

\* What a handler of the access point leaves behind, if it does not end the
\* association.
ApDid(r, t, cs, ws, j, ts, ta, tq, q) ==
  /\ IsAp(r)
  /\ ~r.kick => \A a : Emptied(a, r) =>
       Core(conf, a, t, cs, j) /\ Air(conf, t, cs, ws, j, a.PTK, ts \o r.out, ta, tq, q)

\* The same, for a handler that may also end the association.
LEMMA ApDidMoves ==
  ASSUME NEW t, NEW cs, NEW ws, NEW j, NEW p, NEW h, NEW ts, NEW ta, NEW tq, NEW q, NEW r,
         Apart(t, cs, ws), Whole(r, 3, t, cs, j, p, h), h => AllNew(ta, tq, cs),
         Air(conf, t, cs, ws, j, p, ts, ta, tq, q)
  PROVE  ApDid(r, t, cs, ws, j, ts, ta, tq, q)
<1>1. IsAp(r) BY DEF Whole
<1>2. ASSUME ~r.kick, NEW a, Emptied(a, r)
      PROVE  Core(conf, a, t, cs, j) /\ Air(conf, t, cs, ws, j, a.PTK, ts \o r.out, ta, tq, q)
  BY <1>2, ApMoves
<1> QED BY <1>1, <1>2, Zenon DEF ApDid

\* The access point gets a frame of the station.
LEMMA ApGets ==
  ASSUME NEW t, NEW cs, NEW ws, NEW j, NEW s, NEW ts, NEW ta, NEW tq, NEW q, NEW r, IsSeq(ta),
         ta # <<>>, Apart(t, cs, ws), \A k \in cs : ~In(k, q), Core(conf, s, t, cs, j),
         Air(conf, t, cs, ws, j, s.PTK, ts, ta, tq, q), r = wpa_receive(s, Head(ta))
  PROVE  ApDid(r, t, cs, ws, j, ts, Tail(ta), tq, q)
<1>0. t \notin cs /\ ws \subseteq cs /\ (\A x, y \in cs : x = y) /\ None \notin cs BY DEF Apart
<1>1. PICK p : p = s.PTK OBVIOUS
<1>2. PICK u : u = Tail(ta) OBVIOUS
<1>3. PICK m : m = Head(ta) OBVIOUS
<1>4. /\ IsSeq(u) /\ Ups(conf, t, cs, ws, j, p, u, tq, q)
      /\ m.k = "2/4" /\ m.mic \in cs => AllNew(u, tq, cs)
  <2>2. PICK cf : cf = conf OBVIOUS
  <2>1. Ups(cf, t, cs, ws, j, p, ta, tq, q) BY <1>1, <2>2 DEF Air
  <2>3. /\ IsSeq(Tail(ta)) /\ Ups(cf, t, cs, ws, j, p, Tail(ta), tq, q)
        /\ Head(ta).k = "2/4" /\ Head(ta).mic \in cs => AllNew(Tail(ta), tq, cs)
    BY <2>1, UpsTail
  <2> QED BY <1>2, <1>3, <2>2, <2>3
<1>5. PICK h \in BOOLEAN : h <=> AllNew(u, tq, cs) OBVIOUS
<1>6. p \in cs => h
  <2>1. PICK cf : cf = conf OBVIOUS
  <2>2. Ups(cf, t, cs, ws, j, p, u, tq, q) BY <1>4, <2>1
  <2> QED BY <1>5, <2>2, UpsNew
<1>7. StaFrame(m, p, t, cs, j, h)
  <2>1. 1 \in DOMAIN ta /\ m = ta[1] BY <1>3, TailFacts
  <2>2. Answer(conf, m, t, cs, j, p) /\ (m.k # "2/4" => m.mic = None \/ In(m.mic, q))
    BY <1>1, <2>1 DEF Ups, Air
  <2>3. m.k # "2/4" => m.mic \notin cs BY <1>0, <2>2
  <2> QED BY <1>4, <1>5, <2>2, <2>3 DEF StaFrame, Answer
<1>8. Rest(s, t, cs, j) BY <1>0, CoreRest
<1>9. Whole(r, 3, t, cs, j, p, h)
  BY <1>0, <1>1, <1>3, <1>6, <1>7, <1>8, ReceiveKeeps
<1>10. h => AllNew(u, tq, cs) BY <1>5
<1>11. Air(conf, t, cs, ws, j, p, ts, u, tq, q)
  BY <1>1, <1>4 DEF Air
<1>12. ApDid(r, t, cs, ws, j, ts, u, tq, q)
  BY <1>9, <1>10, <1>11, ApDidMoves
<1> QED BY <1>2, <1>12

\* Its timer runs out.
LEMMA ApResends ==
  ASSUME NEW t, NEW cs, NEW ws, NEW j, NEW s, NEW ts, NEW ta, NEW tq, NEW q, NEW r,
         Apart(t, cs, ws), Core(conf, s, t, cs, j),
         Air(conf, t, cs, ws, j, s.PTK, ts, ta, tq, q), r = hostap_eapol_resend_process(s)
  PROVE  ApDid(r, t, cs, ws, j, ts, ta, tq, q)
<1>0. None \notin cs BY DEF Apart
<1>1. PICK p : p = s.PTK OBVIOUS
<1>5. PICK h \in BOOLEAN : h <=> AllNew(ta, tq, cs) OBVIOUS
<1>6. p \in cs => h
  <2>1. PICK cf : cf = conf OBVIOUS
  <2>2. Ups(cf, t, cs, ws, j, p, ta, tq, q) BY <1>1, <2>1 DEF Air
  <2> QED BY <1>5, <2>2, UpsNew
<1>8. Rest(s, t, cs, j) BY <1>0, CoreRest
<1>9. Whole(r, 3, t, cs, j, p, h)
  BY <1>0, <1>1, <1>6, <1>8, TimerKeeps
<1>10. Air(conf, t, cs, ws, j, p, ts, ta, tq, q) /\ (h => AllNew(ta, tq, cs)) BY <1>1, <1>5
<1> QED BY <1>9, <1>10, ApDidMoves
----------------------------------------------------------------------------
(* What the station's steps do to the frames under way.                    *)

\* m comes before the frames u: after one under a key of cs, and while one is
\* held, there is nothing but 3/4 under that key.
Leads(m, u, cs, ws) ==
  /\ \A k \in ws : m.k = "3/4" /\ m.mic = k
  /\ m.mic \in cs => \A i \in DOMAIN u : u[i].k = "3/4" /\ u[i].mic = m.mic

\* The first frame of the access point is taken off the air.
LEMMA AirTail ==
  ASSUME NEW cf, NEW t, NEW cs, NEW ws, NEW j, NEW p, NEW ts, NEW ta, NEW tq, NEW q, ts # <<>>,
         Air(cf, t, cs, ws, j, p, ts, ta, tq, q), NEW u, u = Tail(ts), NEW m, m = Head(ts)
  PROVE  Air(cf, t, cs, ws, j, p, u, ta, tq, q) /\ Down(m, t, cs, j, p) /\ Leads(m, u, cs, ws)
<1>0. Ups(cf, t, cs, ws, j, p, ta, tq, q) /\ IsSeq(ts) /\ Downs(t, cs, j, p, ts) /\ Waiting(ws, p, ts)
  BY DEF Air
<1>1. /\ IsSeq(u) /\ 1 \in DOMAIN ts /\ m = ts[1]
      /\ \A i \in DOMAIN u : i \in Nat /\ i > 0 /\ i + 1 \in DOMAIN ts /\ u[i] = ts[i + 1]
  BY <1>0, TailFacts
<1>2. Downs(t, cs, j, p, u)
  <2>1. \A i \in DOMAIN u : Down(u[i], t, cs, j, p) BY <1>0, <1>1 DEF Downs
  <2>2. ASSUME NEW i \in DOMAIN u, NEW k \in DOMAIN u, i < k, u[i].mic \in cs
        PROVE  u[k].k = "3/4" /\ u[k].mic = u[i].mic
    <3>1. i + 1 \in DOMAIN ts /\ k + 1 \in DOMAIN ts /\ i + 1 < k + 1 /\ u[i] = ts[i + 1] /\ u[k] = ts[k + 1]
      BY <1>1, <2>2
    <3> QED BY <1>0, <2>2, <3>1 DEF Downs
  <2> QED BY <2>1, <2>2 DEF Downs
<1>3. Waiting(ws, p, u) BY <1>0, <1>1 DEF Waiting
<1>4. Down(m, t, cs, j, p) /\ \A k \in ws : m.k = "3/4" /\ m.mic = k
  BY <1>0, <1>1 DEF Downs, Waiting
<1>5. m.mic \in cs => \A i \in DOMAIN u : u[i].k = "3/4" /\ u[i].mic = m.mic
  <2> SUFFICES ASSUME m.mic \in cs, NEW i \in DOMAIN u PROVE u[i].k = "3/4" /\ u[i].mic = m.mic OBVIOUS
  <2>1. i + 1 \in DOMAIN ts /\ 1 < i + 1 /\ u[i] = ts[i + 1] BY <1>1
  <2> QED BY <1>0, <1>1, <2>1 DEF Downs
<1>6. Air(cf, t, cs, ws, j, p, u, ta, tq, q) BY <1>0, <1>1, <1>2, <1>3 DEF Air
<1> QED BY <1>4, <1>5, <1>6 DEF Leads

\* The first frame of the station is lost.
LEMMA AirLost ==
  ASSUME NEW cf, NEW t, NEW cs, NEW ws, NEW j, NEW p, NEW ts, NEW ta, NEW tq, NEW q, ta # <<>>, IsSeq(ta),
         Air(cf, t, cs, ws, j, p, ts, ta, tq, q)
  PROVE  Air(cf, t, cs, ws, j, p, ts, Tail(ta), tq, q)
<1>1. Ups(cf, t, cs, ws, j, p, ta, tq, q) BY DEF Air
<1>2. Ups(cf, t, cs, ws, j, p, Tail(ta), tq, q) BY <1>1, UpsTail
<1> QED BY <1>2 DEF Air

\* The station hands a frame to its driver.
LEMMA AirSend ==
  ASSUME NEW cf, NEW t, NEW cs, NEW ws, NEW j, NEW p, NEW ts, NEW ta, NEW tq, NEW q, NEW m, IsSeq(tq),
         Air(cf, t, cs, ws, j, p, ts, ta, tq, q), Answer(cf, m, t, cs, j, p),
         m.k # "2/4" => m.mic = None \/ In(m.mic, q) \/ m.mic \in ws,
         m.k = "2/4" => m.mic \in cs
  PROVE  IsSeq(tq \o <<m>>) /\ Air(cf, t, cs, ws, j, p, ts, ta, tq \o <<m>>, q)
<1> DEFINE u == tq \o <<m>>
<1>0. Ups(cf, t, cs, ws, j, p, ta, tq, q) BY DEF Air
<1>1. /\ IsSeq(u)
      /\ \A i \in DOMAIN u : \/ i \in DOMAIN tq /\ u[i] = tq[i]
                             \/ i \notin DOMAIN tq /\ u[i] = m
      /\ \A i, k \in DOMAIN u : i < k /\ k \in DOMAIN tq => i \in DOMAIN tq
  <2>1. PICK o : o = <<m>> OBVIOUS
  <2>2. IsSeq(o) /\ \A k \in DOMAIN o : o[k] = m BY <2>1, OneFrame
  <2>3. PICK r : r = tq \o o OBVIOUS
  <2>4. /\ IsSeq(r)
        /\ \A i \in DOMAIN r : \/ i \in DOMAIN tq /\ r[i] = tq[i]
                               \/ i \notin DOMAIN tq /\ \E k \in DOMAIN o : r[i] = o[k]
        /\ \A i, k \in DOMAIN r : i < k /\ k \in DOMAIN tq => i \in DOMAIN tq
    BY <2>2, <2>3, ConcatFacts
  <2> QED BY <2>1, <2>2, <2>3, <2>4
<1> HIDE DEF u
<1>2. \A i \in DOMAIN u : /\ Answer(cf, u[i], t, cs, j, p)
                          /\ u[i].k # "2/4" => u[i].mic = None \/ In(u[i].mic, q) \/ u[i].mic \in ws
  BY <1>0, <1>1 DEF Ups
<1>3. \A x : Later(x, m, cs) BY DEF Later
<1>4. \A i, k \in DOMAIN u : i < k => Later(u[i], u[k], cs)
  BY <1>0, <1>1, <1>3 DEF Ups
<1>5. \A i \in DOMAIN ta, k \in DOMAIN u : Later(ta[i], u[k], cs)
  BY <1>0, <1>1, <1>3 DEF Ups
<1>6. Ups(cf, t, cs, ws, j, p, ta, u, q)
  BY <1>0, <1>2, <1>4, <1>5 DEF Ups
<1>7. Air(cf, t, cs, ws, j, p, ts, ta, u, q) BY <1>6 DEF Air
<1> QED BY <1>1, <1>7 DEF u

\* The driver puts the first of them on the air.
LEMMA AirGone ==
  ASSUME NEW cf, NEW t, NEW cs, NEW ws, NEW j, NEW p, NEW ts, NEW ta, NEW tq, NEW q, IsSeq(tq), IsSeq(ta),
         tq # <<>>, ws = {}, Air(cf, t, cs, ws, j, p, ts, ta, tq, q)
  PROVE  /\ IsSeq(Append(ta, Head(tq))) /\ IsSeq(Tail(tq))
         /\ Air(cf, t, cs, ws, j, p, ts, Append(ta, Head(tq)), Tail(tq), q)
<1> DEFINE u == Tail(tq)
           m == Head(tq)
           v == Append(ta, m)
<1>0. Ups(cf, t, cs, ws, j, p, ta, tq, q) BY DEF Air
<1>1. /\ IsSeq(u) /\ 1 \in DOMAIN tq /\ m = tq[1]
      /\ \A i \in DOMAIN u : i \in Nat /\ i > 0 /\ i + 1 \in DOMAIN tq /\ u[i] = tq[i + 1]
  BY TailFacts
<1> HIDE DEF u, m
<1>2. /\ IsSeq(v)
      /\ \A i \in DOMAIN v : \/ i \in DOMAIN ta /\ v[i] = ta[i]
                             \/ i \notin DOMAIN ta /\ v[i] = m
      /\ \A i, k \in DOMAIN v : i < k /\ k \in DOMAIN ta => i \in DOMAIN ta
      /\ \A i, k \in DOMAIN v : i < k => i \in DOMAIN ta
  <2> DEFINE S == {ta[i] : i \in DOMAIN ta} \cup {m}
  <2>1. ta \in Seq(S) /\ DOMAIN ta = 1..Len(ta) /\ Len(ta) \in Nat
    <3>1. ta \in Seq({ta[i] : i \in DOMAIN ta}) BY DEF IsSeq
    <3>2. \A i \in 1..Len(ta) : ta[i] \in S BY <3>1
    <3> QED BY <3>1, <3>2
  <2>2. m \in S OBVIOUS
  <2> HIDE DEF S
  <2>3. /\ v \in Seq(S) /\ Len(v) = Len(ta) + 1 /\ v[Len(ta) + 1] = m /\ DOMAIN v = 1..Len(v)
        /\ \A i \in 1..Len(ta) : v[i] = ta[i]
    BY <2>1, <2>2
  <2>5. IsSeq(v) BY AppendFrame
  <2> HIDE DEF v
  <2> QED BY <2>1, <2>3, <2>5
<1> HIDE DEF v
<1>3. Answer(cf, m, t, cs, j, p) /\ (m.k # "2/4" => m.mic = None \/ In(m.mic, q))
  BY <1>0, <1>1 DEF Ups
<1>4. \A i \in DOMAIN v : Answer(cf, v[i], t, cs, j, p) /\ (v[i].k # "2/4" => v[i].mic = None \/ In(v[i].mic, q))
  BY <1>0, <1>2, <1>3 DEF Ups
<1>5. \A i \in DOMAIN ta : Later(ta[i], m, cs) BY <1>0, <1>1 DEF Ups
<1>6. \A i, k \in DOMAIN v : i < k => Later(v[i], v[k], cs)
  <2> SUFFICES ASSUME NEW i \in DOMAIN v, NEW k \in DOMAIN v, i < k PROVE Later(v[i], v[k], cs) OBVIOUS
  <2>1. i \in DOMAIN ta /\ v[i] = ta[i] BY <1>2
  <2>2. CASE k \in DOMAIN ta
    <3>1. v[k] = ta[k] BY <1>2, <2>2
    <3>2. Later(ta[i], ta[k], cs) BY <1>0, <2>1, <2>2 DEF Ups
    <3> QED BY <2>1, <3>1, <3>2
  <2>3. CASE k \notin DOMAIN ta BY <1>2, <1>5, <2>1, <2>3
  <2> QED BY <2>2, <2>3
<1>7. \A i \in DOMAIN u : Later(m, u[i], cs)
  <2> SUFFICES ASSUME NEW i \in DOMAIN u PROVE Later(m, u[i], cs) OBVIOUS
  <2>1. i + 1 \in DOMAIN tq /\ 1 < i + 1 /\ u[i] = tq[i + 1] BY <1>1
  <2>2. Later(tq[1], tq[i + 1], cs) BY <1>0, <1>1, <2>1 DEF Ups
  <2> QED BY <1>1, <2>1, <2>2
<1>8. \A i \in DOMAIN v, k \in DOMAIN u : Later(v[i], u[k], cs)
  <2> SUFFICES ASSUME NEW i \in DOMAIN v, NEW k \in DOMAIN u PROVE Later(v[i], u[k], cs) OBVIOUS
  <2>1. k + 1 \in DOMAIN tq /\ u[k] = tq[k + 1] BY <1>1
  <2>2. CASE i \in DOMAIN ta BY <1>0, <1>2, <2>1, <2>2 DEF Ups
  <2>3. CASE i \notin DOMAIN ta BY <1>2, <1>7, <2>3
  <2> QED BY <2>2, <2>3
<1>9. \A i, k \in DOMAIN u : i < k => Later(u[i], u[k], cs)
  <2> SUFFICES ASSUME NEW i \in DOMAIN u, NEW k \in DOMAIN u, i < k PROVE Later(u[i], u[k], cs) OBVIOUS
  <2>1. i + 1 \in DOMAIN tq /\ k + 1 \in DOMAIN tq /\ i + 1 < k + 1 /\ u[i] = tq[i + 1] /\ u[k] = tq[k + 1]
    BY <1>1
  <2>2. Later(tq[i + 1], tq[k + 1], cs) BY <1>0, <2>1 DEF Ups
  <2> QED BY <2>1, <2>2
<1>10. \A i \in DOMAIN u : /\ Answer(cf, u[i], t, cs, j, p)
                           /\ u[i].k # "2/4" => u[i].mic = None \/ In(u[i].mic, q) \/ u[i].mic \in ws
  BY <1>0, <1>1 DEF Ups
<1>11. Ups(cf, t, cs, ws, j, p, v, u, q) BY <1>4, <1>6, <1>8, <1>9, <1>10 DEF Ups
<1>12. Air(cf, t, cs, ws, j, p, ts, v, u, q) BY <1>11 DEF Air
<1> QED BY <1>1, <1>2, <1>12 DEF u, v, m

\* r is q with k installed.
Adds(q, k, r) == In(k, r) /\ \A x : In(x, q) => In(x, r)

\* An installed key is among those installed, and the earlier ones stay.
LEMMA InInstall ==
  ASSUME NEW q, NEW k, IsSeq(q), NEW r, r = q \o <<k>>
  PROVE  Adds(q, k, r)
<1> DEFINE S == {q[i] : i \in DOMAIN q} \cup {k}
           e == q \o <<k>>
<1>1. q \in Seq(S) /\ DOMAIN q = 1..Len(q) /\ Len(q) \in Nat
  <2>1. q \in Seq({q[i] : i \in DOMAIN q}) BY DEF IsSeq
  <2>2. \A i \in 1..Len(q) : q[i] \in S BY <2>1
  <2> QED BY <2>1, <2>2
<1>2. k \in S OBVIOUS
<1> HIDE DEF S
<1>3. /\ e \in Seq(S) /\ Len(e) = Len(q) + 1 /\ e[Len(q) + 1] = k
      /\ \A i \in 1..Len(q) : e[i] = q[i]
  BY <1>1, <1>2
<1>4. DOMAIN e = 1..(Len(q) + 1) BY <1>1, <1>3
<1>5. r = e OBVIOUS
<1> HIDE DEF e
<1>6. In(k, e)
  <2>1. Len(q) + 1 \in DOMAIN e BY <1>1, <1>4
  <2> QED BY <1>3, <2>1 DEF In
<1>7. ASSUME NEW x, In(x, q) PROVE In(x, e)
  <2>1. PICK i \in DOMAIN q : q[i] = x BY <1>7 DEF In
  <2>2. i \in DOMAIN e /\ e[i] = x BY <1>1, <1>3, <1>4, <2>1
  <2> QED BY <2>2 DEF In
<1> QED BY <1>5, <1>6, <1>7 DEF Adds

\* The key k both sides have becomes the installed one.
LEMMA AirInstall ==
  ASSUME NEW cf, NEW t, NEW cs, NEW ws, NEW j, NEW p, NEW ts, NEW ta, NEW tq, NEW q, NEW k,
         cs = {k}, ws = {k}, k # None, Air(cf, t, cs, ws, j, p, ts, ta, tq, q), NEW no, no = {},
         NEW r, Adds(q, k, r)
  PROVE  p = k /\ Air(cf, k, no, no, j, p, ts, ta, tq, r)
<1>0. /\ Ups(cf, t, cs, ws, j, p, ta, tq, q) /\ IsSeq(ts) /\ Downs(t, cs, j, p, ts)
      /\ p = k /\ \A i \in DOMAIN ts : ts[i].k = "3/4" /\ ts[i].mic = k
  BY DEF Air, Waiting
<1>1. In(k, r) /\ \A x : In(x, q) => In(x, r) BY DEF Adds
<1>2. Downs(k, no, j, p, ts)
  <2>1. \A i \in DOMAIN ts : Down(ts[i], k, no, j, p)
    <3> SUFFICES ASSUME NEW i \in DOMAIN ts PROVE Down(ts[i], k, no, j, p) OBVIOUS
    <3>1. Down(ts[i], t, cs, j, p) /\ ts[i].k = "3/4" /\ ts[i].mic = k BY <1>0 DEF Downs
    <3>2. ts[i].nonce = j BY <3>1 DEF Down
    <3> QED BY <3>1, <3>2 DEF Down
  <2> QED BY <2>1 DEF Downs
<1>3. \A m : Answer(cf, m, t, cs, j, p) => Answer(cf, m, k, no, j, p) BY <1>0 DEF Answer
<1>4. Ups(cf, k, no, no, j, p, ta, tq, r)
  <2>1. \A i \in DOMAIN ta : /\ Answer(cf, ta[i], k, no, j, p)
                             /\ ta[i].k # "2/4" => ta[i].mic = None \/ In(ta[i].mic, r)
    BY <1>0, <1>1, <1>3 DEF Ups
  <2>2. \A i \in DOMAIN tq : /\ Answer(cf, tq[i], k, no, j, p)
                             /\ tq[i].k # "2/4" => tq[i].mic = None \/ In(tq[i].mic, r) \/ tq[i].mic \in no
    BY <1>0, <1>1, <1>3 DEF Ups
  <2>3. \A m, n : Later(m, n, no) BY DEF Later
  <2> QED BY <2>1, <2>2, <2>3 DEF Ups
<1>5. Waiting(no, p, ts) BY DEF Waiting
<1> QED BY <1>0, <1>2, <1>4, <1>5 DEF Air

\* The access point when the station installs the PTK of the access point.
LEMMA CoreInstall ==
  ASSUME NEW cf, NEW a, NEW t, NEW cs, NEW j, NEW k, Core(cf, a, t, cs, j), a.PTK = k, NEW no, no = {}
  PROVE  Core(cf, a, k, no, j)
BY DEF Core

\* The station derives a key the access point cannot have yet.
LEMMA AirDerive ==
  ASSUME NEW cf, NEW t, NEW no, NEW j, NEW p, NEW ts, NEW ta, NEW tq, NEW q, NEW k,
         no = {}, t # k, k # None, p = None \/ p = t, Air(cf, t, no, no, j, p, ts, ta, tq, q),
         NEW cs, cs = {k}
  PROVE  Air(cf, t, cs, no, j, p, ts, ta, tq, q)
<1>0. /\ Ups(cf, t, no, no, j, p, ta, tq, q) /\ IsSeq(ts) /\ Downs(t, no, j, p, ts) /\ Waiting(no, p, ts)
  BY DEF Air
<1>1. \A m : Answer(cf, m, t, no, j, p) => Answer(cf, m, t, cs, j, p) /\ (m.k = "2/4" => m.mic \notin cs)
  BY DEF Answer
<1>2. \A m : Down(m, t, no, j, p) => Down(m, t, cs, j, p) /\ m.mic \notin cs
  BY DEF Down
<1>3. Downs(t, cs, j, p, ts) BY <1>0, <1>2 DEF Downs
<1>4. \A m, n : Answer(cf, m, t, no, j, p) => Later(m, n, cs) BY <1>1 DEF Later
<1>5. Ups(cf, t, cs, no, j, p, ta, tq, q) BY <1>0, <1>1, <1>4 DEF Ups
<1> QED BY <1>0, <1>3, <1>5 DEF Air

\* The access point when the station derives a key it has not used before.
LEMMA CoreDerive ==
  ASSUME NEW cf, NEW a, NEW t, NEW no, NEW j, NEW k, Core(cf, a, t, no, j), no = {}, t # k, k # None,
         NEW cs, cs = {k}
  PROVE  Core(cf, a, t, cs, j) /\ (a.PTK = None \/ a.PTK = t)
BY DEF Core

\* The station gets the 3/4 under the key it has derived.
LEMMA AirHold ==
  ASSUME NEW cf, NEW t, NEW cs, NEW no, NEW j, NEW p, NEW u, NEW ta, NEW tq, NEW q, NEW k, NEW m,
         cs = {k}, no = {}, t # k, k # None, m.mic = k, Down(m, t, cs, j, p), Leads(m, u, cs, no),
         Air(cf, t, cs, no, j, p, u, ta, tq, q), NEW ws, ws = {k}
  PROVE  Air(cf, t, cs, ws, j, p, u, ta, tq, q)
<1>2. p = k BY DEF Down
<1>3. Waiting(ws, p, u) BY <1>2 DEF Waiting, Leads
<1>4. Ups(cf, t, cs, ws, j, p, ta, tq, q) BY DEF Air, Ups
<1>5. IsSeq(u) /\ Downs(t, cs, j, p, u) BY DEF Air
<1> QED BY <1>3, <1>4, <1>5 DEF Air
----------------------------------------------------------------------------
(* What the station's handlers do, field by field.                         *)

\* 1/4 has been answered with the frame g.
Did1of4(s, m, r, g) ==
  /\ IsSta(r) /\ r.st = "FIRST_HALF" /\ r.renew = FALSE /\ r.tset = TRUE /\ r.pset = FALSE
  /\ r.key_install = TRUE /\ r.anonce = m.nonce /\ r.tptk = PTK(conf.staPmk, m.nonce, r.snonce)
  /\ r.snonce = (IF s.renew THEN Fresh(s.snonce) ELSE s.snonce)
  /\ r.txKey = s.txKey /\ r.rxKey = s.rxKey /\ r.txcb = s.txcb /\ r.mic_errors_seen = s.mic_errors_seen
  /\ r.cmTimer = s.cmTimer \/ r.cmTimer = "none"
  /\ g.k = "2/4" /\ g.nonce = r.snonce /\ g.mic = r.tptk

\* What wpa_supplicant_process_1_of_4 does.
LEMMA Sets1of4 ==
  ASSUME NEW s, NEW m, IsSta(s)
  PROVE  LET d == wpa_supplicant_process_1_of_4(s, m) IN
         d.installs = <<>> /\ d.leave = FALSE /\ \E g : d.frames = <<g>> /\ Did1of4(s, m, d.s, g)
<1> DEFINE sn == IF s.renew THEN Fresh(s.snonce) ELSE s.snonce
           key == PTK(conf.staPmk, m.nonce, sn)
           s1 == wpa_sm_set_state(s, "FIRST_HALF")
           s2 == [s1 EXCEPT !.snonce = sn, !.renew = FALSE, !.tptk = key, !.tset = TRUE,
                            !.pset = FALSE, !.key_install = TRUE, !.anonce = m.nonce]
           g == wpa_supplicant_send_2_of_4(m, s2)
           d == wpa_supplicant_process_1_of_4(s, m)
<1>1. d.s = s2 /\ d.installs = <<>> /\ d.leave = FALSE /\ d.frames = <<g>>
  BY DEF wpa_supplicant_process_1_of_4, Did
<1>2. g.k = "2/4" /\ g.nonce = s2.snonce /\ g.mic = s2.tptk
  BY DEF wpa_supplicant_send_2_of_4, wpa_eapol_key_send
<1>3. /\ IsSta(s1) /\ s1.st = "FIRST_HALF" /\ s1.txKey = s.txKey /\ s1.rxKey = s.rxKey /\ s1.txcb = s.txcb
      /\ s1.mic_errors_seen = s.mic_errors_seen /\ (s1.cmTimer = s.cmTimer \/ s1.cmTimer = "none")
  BY DEF wpa_sm_set_state, IsSta, Fields
<1>4. sn = (IF s.renew THEN Fresh(s.snonce) ELSE s.snonce) /\ key = PTK(conf.staPmk, m.nonce, sn) OBVIOUS
<1> HIDE DEF sn, key, s1, g
<1>5. /\ IsSta(s2) /\ s2.st = s1.st /\ s2.snonce = sn /\ s2.renew = FALSE /\ s2.tptk = key /\ s2.tset = TRUE
      /\ s2.pset = FALSE /\ s2.key_install = TRUE /\ s2.anonce = m.nonce /\ s2.txKey = s1.txKey
      /\ s2.rxKey = s1.rxKey /\ s2.txcb = s1.txcb /\ s2.mic_errors_seen = s1.mic_errors_seen
      /\ s2.cmTimer = s1.cmTimer
  BY <1>3 DEF IsSta, Fields
<1> HIDE DEF s2, d
<1>6. Did1of4(s, m, s2, g) BY <1>2, <1>3, <1>4, <1>5 DEF Did1of4
<1> QED BY <1>1, <1>6 DEF d

\* The PTK of the station after a right MIC.
Checked(s, m, v) ==
  /\ IsSta(v) /\ v.tset = (s.tset /\ m.mic # s.tptk) /\ v.pset = (s.pset \/ (s.tset /\ m.mic = s.tptk))
  /\ v.ptk = IF s.tset /\ m.mic = s.tptk THEN s.tptk ELSE s.ptk
  /\ v.st = s.st /\ v.renew = s.renew /\ v.key_install = s.key_install /\ v.install = s.install
  /\ v.txKey = s.txKey /\ v.rxKey = s.rxKey /\ v.txcb = s.txcb /\ v.mic_errors_seen = s.mic_errors_seen
  /\ v.cmTimer = s.cmTimer /\ v.anonce = s.anonce /\ v.snonce = s.snonce /\ v.tptk = s.tptk

\* What wpa_supplicant_verify_eapol_key_mic does to the keys.
LEMMA SetsChecked ==
  ASSUME NEW s, NEW m, IsSta(s)
  PROVE  Checked(s, m, wpa_supplicant_verify_eapol_key_mic(s, m))
BY DEF wpa_supplicant_verify_eapol_key_mic, IsSta, Fields, Checked

\* 3/4 is refused: the station leaves.
Left3of4(s, r) ==
  /\ IsSta(r) /\ r.st = "LAST_HALF" /\ r.tset = s.tset /\ r.pset = s.pset /\ r.ptk = s.ptk /\ r.tptk = s.tptk
  /\ r.renew = s.renew /\ r.key_install = s.key_install /\ r.install = s.install
  /\ r.txKey = s.txKey /\ r.rxKey = s.rxKey /\ r.txcb = s.txcb /\ r.mic_errors_seen = s.mic_errors_seen
  /\ r.cmTimer = s.cmTimer \/ r.cmTimer = "none"

\* 3/4 has been answered with the frame g.
Did3of4(s, r, g) ==
  /\ IsSta(r) /\ r.st = "LAST_HALF" /\ r.tset = s.tset /\ r.pset = s.pset /\ r.ptk = s.ptk /\ r.tptk = s.tptk
  /\ r.renew = TRUE /\ r.key_install = s.key_install /\ r.install = TRUE
  /\ r.txKey = s.txKey /\ r.rxKey = (IF s.key_install THEN s.ptk ELSE s.rxKey)
  /\ "4/4" \in r.txcb /\ (r.mic_errors_seen => s.mic_errors_seen)
  /\ r.cmTimer = s.cmTimer \/ r.cmTimer = "none"
  /\ g.k = "4/4" /\ g.mic = r.ptk

\* What wpa_supplicant_process_3_of_4 does: the elements or the nonce differ
\* and the station leaves, or 4/4 is made.
LEMMA Sets3of4 ==
  ASSUME NEW s, NEW m, IsSta(s)
  PROVE  LET d == wpa_supplicant_process_3_of_4(s, m) IN
         /\ d.installs = <<>>
         /\ \/ d.leave = TRUE /\ d.frames = <<>> /\ Left3of4(s, d.s) /\ ~(conf.ieSame /\ s.anonce = m.nonce)
            \/ d.leave = FALSE /\ conf.ieSame /\ \E g : d.frames = <<g>> /\ Did3of4(s, d.s, g)
<1> DEFINE s1 == wpa_sm_set_state(s, "LAST_HALF")
           s2 == [s1 EXCEPT !.renew = TRUE, !.install = TRUE, !.gd = m.gtk]
           s3 == IF s2.key_install THEN wpa_supplicant_install_ptk(s2, 0) ELSE s2
           s4 == [s3 EXCEPT !.txcb = @ \cup {"4/4"}]
           g == wpa_supplicant_send_4_of_4(m, s4)
           d == wpa_supplicant_process_3_of_4(s, m)
<1>1. Left3of4(s, s1)
  BY DEF wpa_sm_set_state, IsSta, Fields, Left3of4
<1>2. \/ /\ d.s = s1 /\ d.installs = <<>> /\ d.leave = TRUE /\ d.frames = <<>>
         /\ ~(conf.ieSame /\ s.anonce = m.nonce)
      \/ d.s = s4 /\ d.installs = <<>> /\ d.leave = FALSE /\ d.frames = <<g>> /\ conf.ieSame
  BY DEF wpa_supplicant_process_3_of_4, Did, wpa_supplicant_validate_ie
<1>3. g.k = "4/4" /\ g.mic = s4.ptk BY DEF wpa_supplicant_send_4_of_4, wpa_eapol_key_send
<1> HIDE DEF s1, g
<1>4. /\ IsSta(s2) /\ s2.st = s1.st /\ s2.tset = s1.tset /\ s2.pset = s1.pset /\ s2.ptk = s1.ptk
      /\ s2.tptk = s1.tptk /\ s2.renew = TRUE /\ s2.key_install = s1.key_install /\ s2.install = TRUE
      /\ s2.txKey = s1.txKey /\ s2.rxKey = s1.rxKey /\ s2.mic_errors_seen = s1.mic_errors_seen
      /\ s2.cmTimer = s1.cmTimer
  BY <1>1 DEF IsSta, Fields, Left3of4
<1> HIDE DEF s2
<1>5. /\ IsSta(s3) /\ s3.st = s2.st /\ s3.tset = s2.tset /\ s3.pset = s2.pset /\ s3.ptk = s2.ptk
      /\ s3.tptk = s2.tptk /\ s3.renew = s2.renew /\ s3.key_install = s2.key_install /\ s3.install = s2.install
      /\ s3.txKey = s2.txKey /\ s3.rxKey = (IF s2.key_install THEN s2.ptk ELSE s2.rxKey)
      /\ (s3.mic_errors_seen => s2.mic_errors_seen) /\ s3.cmTimer = s2.cmTimer
  BY <1>4 DEF IsSta, Fields, wpa_supplicant_install_ptk
<1> HIDE DEF s3
<1>6. /\ IsSta(s4) /\ s4.st = s3.st /\ s4.tset = s3.tset /\ s4.pset = s3.pset /\ s4.ptk = s3.ptk
      /\ s4.tptk = s3.tptk /\ s4.renew = s3.renew /\ s4.key_install = s3.key_install /\ s4.install = s3.install
      /\ s4.txKey = s3.txKey /\ s4.rxKey = s3.rxKey /\ "4/4" \in s4.txcb
      /\ s4.mic_errors_seen = s3.mic_errors_seen /\ s4.cmTimer = s3.cmTimer
  BY <1>5 DEF IsSta, Fields
<1> HIDE DEF s4, d
<1>7. Did3of4(s, s4, g)
  BY <1>1, <1>3, <1>4, <1>5, <1>6 DEF Did3of4, Left3of4
<1> QED BY <1>1, <1>2, <1>7 DEF d

\* 1/2 has been answered with the frame g.
Did1of2(s, r, g) ==
  /\ IsSta(r) /\ r.st = "GROUP_HANDSHAKE" /\ r.tset = s.tset /\ r.pset = s.pset /\ r.ptk = s.ptk
  /\ r.tptk = s.tptk /\ r.renew = s.renew /\ r.key_install = s.key_install
  /\ r.txKey = s.txKey /\ r.rxKey = s.rxKey /\ r.txcb = s.txcb \cup {"2/2"}
  /\ r.mic_errors_seen = s.mic_errors_seen /\ (r.cmTimer = s.cmTimer \/ r.cmTimer = "none")
  /\ g.k = "2/2" /\ g.mic = r.ptk

\* What wpa_supplicant_process_1_of_2 does.
LEMMA Sets1of2 ==
  ASSUME NEW s, NEW m, IsSta(s)
  PROVE  LET d == wpa_supplicant_process_1_of_2(s, m) IN
         d.installs = <<>> /\ d.leave = FALSE /\ \E g : d.frames = <<g>> /\ Did1of2(s, d.s, g)
<1> DEFINE s0 == wpa_sm_set_state(s, "GROUP_HANDSHAKE")
           s1 == [s0 EXCEPT !.gd = m.gtk, !.install = FALSE, !.txcb = @ \cup {"2/2"}]
           g == wpa_supplicant_send_2_of_2(m, s1)
           d == wpa_supplicant_process_1_of_2(s, m)
<1>1. d.s = s1 /\ d.installs = <<>> /\ d.leave = FALSE /\ d.frames = <<g>>
  BY DEF wpa_supplicant_process_1_of_2, Did
<1>2. g.k = "2/2" /\ g.mic = s1.ptk BY DEF wpa_supplicant_send_2_of_2, wpa_eapol_key_send
<1>3. /\ IsSta(s0) /\ s0.st = "GROUP_HANDSHAKE" /\ s0.tset = s.tset /\ s0.pset = s.pset /\ s0.ptk = s.ptk
      /\ s0.tptk = s.tptk /\ s0.renew = s.renew /\ s0.key_install = s.key_install
      /\ s0.txKey = s.txKey /\ s0.rxKey = s.rxKey /\ s0.txcb = s.txcb
      /\ s0.mic_errors_seen = s.mic_errors_seen /\ (s0.cmTimer = s.cmTimer \/ s0.cmTimer = "none")
  BY DEF wpa_sm_set_state, IsSta, Fields
<1> HIDE DEF s0, g
<1>4. /\ IsSta(s1) /\ s1.st = s0.st /\ s1.tset = s0.tset /\ s1.pset = s0.pset /\ s1.ptk = s0.ptk
      /\ s1.tptk = s0.tptk /\ s1.renew = s0.renew /\ s1.key_install = s0.key_install
      /\ s1.txKey = s0.txKey /\ s1.rxKey = s0.rxKey /\ s1.txcb = s0.txcb \cup {"2/2"}
      /\ s1.mic_errors_seen = s0.mic_errors_seen /\ s1.cmTimer = s0.cmTimer
  BY <1>3 DEF IsSta, Fields
<1> HIDE DEF s1, d
<1>5. Did1of2(s, s1, g) BY <1>2, <1>3, <1>4 DEF Did1of2
<1> QED BY <1>1, <1>5 DEF d
----------------------------------------------------------------------------
(* The station's steps.                                                    *)

\* A derived key is a key.
LEMMA PtkIsKey ==
  ASSUME NEW k, NEW x, NEW y
  PROVE  PTK(k, x, y) # None
<1> DEFINE p == PTK(k, x, y)
<1>1. DOMAIN p = {"pmk", "anonce", "snonce"} BY DEF PTK
<1>2. DOMAIN None = {"none"} BY DEF None
<1>3. "none" \notin {"pmk", "anonce", "snonce"} OBVIOUS
<1> QED BY <1>1, <1>2, <1>3

\* 1/4: a key the access point cannot have, or the same as before.
LEMMA Get1of4 ==
  ASSUME NEW s, NEW q, NEW a, NEW ts, NEW tq, NEW ta, NEW j, NEW n, NEW m, NEW u, NEW r, NEW g,
         KeyInv(s, q, TRUE), KeyInv(r, q, TRUE), StaOk(conf, s, q, tq, TRUE, n),
         Pair(conf, s, a, ts, tq, ta, q, j), IsSeq(tq), ts # <<>>, m = Head(ts), u = Tail(ts),
         m.mic = None, Did1of4(s, m, r, g)
  PROVE  /\ IsSeq(tq \o <<g>>) /\ StaOk(conf, r, q, tq \o <<g>>, TRUE, n)
         /\ Pair(conf, r, a, u, tq \o <<g>>, ta, q, j)
<1>0. PICK cf : cf = conf OBVIOUS
<1>1. PICK t : t = s.txKey OBVIOUS
<1>2. PICK cs : cs = Cands(cf, s) OBVIOUS
<1>3. PICK ws : ws = Held(cf, s) OBVIOUS
<1>4. PICK p : p = a.PTK OBVIOUS
<1>5. PICK k : k = r.tptk OBVIOUS
<1>6. PICK cs2 : cs2 = {k} OBVIOUS
<1>a. Core(cf, a, t, cs, j) /\ Air(cf, t, cs, ws, j, p, ts, ta, tq, q)
  BY <1>0, <1>1, <1>2, <1>3, <1>4 DEF Pair
<1>b. Apart(t, cs, ws) /\ \A x \in cs : ~In(x, q)
  BY <1>0, <1>1, <1>2, <1>3, Derived
<1>c. Air(cf, t, cs, ws, j, p, u, ta, tq, q) /\ Down(m, t, cs, j, p) /\ Leads(m, u, cs, ws)
  BY <1>a, AirTail
<1>d. None \notin cs /\ ws \subseteq cs BY <1>b DEF Apart
<1>e. ws = {} /\ ~Waits(cf, s)
  BY <1>3, <1>c, <1>d DEF Held, Leads
<1>f. m.nonce = j BY <1>c, <1>d DEF Down
<1>g. /\ r.st = "FIRST_HALF" /\ r.renew = FALSE /\ r.tset = TRUE /\ r.pset = FALSE /\ r.key_install = TRUE
      /\ r.anonce = j /\ k = PTK(cf.staPmk, j, r.snonce) /\ r.tptk = k
      /\ r.txKey = t /\ r.rxKey = s.rxKey /\ r.txcb = s.txcb /\ r.mic_errors_seen = s.mic_errors_seen
      /\ r.cmTimer = s.cmTimer \/ r.cmTimer = "none"
      /\ r.snonce = (IF s.renew THEN Fresh(s.snonce) ELSE s.snonce)
      /\ g.k = "2/4" /\ g.nonce = r.snonce /\ g.mic = k
  BY <1>0, <1>1, <1>5, <1>f DEF Did1of4
<1>h. k # None BY <1>g, PtkIsKey
<1>i. ~In(k, q) BY <1>g DEF KeyInv, In, NotIn
<1>j. t = None \/ In(t, q) BY <1>1 DEF StaOk
<1>k. t # k BY <1>h, <1>i, <1>j
<1>l. Cands(cf, r) = cs2 /\ Held(cf, r) = {} /\ ~Waits(cf, r) /\ Cand(r) = k
  BY <1>6, <1>g DEF Cands, Held, Waits, Cand
<1>m. Core(cf, a, t, cs2, j) /\ Air(cf, t, cs2, ws, j, p, u, ta, tq, q)
  <2>1. CASE s.renew
    <3>1. cs = {} BY <1>2, <1>e, <2>1 DEF Cands, Waits
    <3>2. Core(cf, a, t, cs2, j) /\ (a.PTK = None \/ a.PTK = t)
      BY <1>6, <1>a, <1>h, <1>k, <3>1, CoreDerive
    <3>3. cs = ws BY <1>e, <3>1
    <3>4. Air(cf, t, cs, cs, j, p, u, ta, tq, q) BY <1>c, <3>3
    <3>5. p = None \/ p = t BY <1>4, <3>2
    <3>6. Air(cf, t, cs2, cs, j, p, u, ta, tq, q)
      BY <1>6, <1>h, <1>k, <3>1, <3>4, <3>5, AirDerive
    <3> QED BY <3>2, <3>3, <3>6
  <2>2. CASE ~s.renew
    <3>1. s.tset /\ s.key_install BY <2>2 DEF StaOk
    <3>2. s.tptk = PTK(cf.staPmk, j, s.snonce) BY <1>0, <2>2, <3>1 DEF Pair
    <3>3. s.tptk = k BY <1>g, <2>2, <3>2
    <3>4. cs = cs2 BY <1>2, <1>6, <2>2, <3>1, <3>3 DEF Cands, Cand
    <3> QED BY <1>a, <1>c, <3>4
  <2> QED BY <2>1, <2>2
<1>n. p \in cs2 => g.mic \in cs2 BY <1>6, <1>g
<1>o. Answer(cf, g, t, cs2, j, p) /\ (g.k = "2/4" => g.mic \in cs2)
  BY <1>6, <1>g, <1>n DEF Answer
<1>p. IsSeq(tq \o <<g>>) /\ Air(cf, t, cs2, ws, j, p, u, ta, tq \o <<g>>, q)
  <2>1. g.k # "2/4" => g.mic = None \/ In(g.mic, q) \/ g.mic \in ws BY <1>g
  <2> QED BY <1>m, <1>o, <2>1, AirSend
<1>q. Pair(conf, r, a, u, tq \o <<g>>, ta, q, j)
  <2>1. r.txKey = t /\ Cands(cf, r) = cs2 /\ Held(cf, r) = ws BY <1>e, <1>g, <1>l
  <2> QED BY <1>0, <1>4, <1>g, <1>m, <1>p, <2>1 DEF Pair
<1>r. StaOk(cf, r, q, tq \o <<g>>, TRUE, n)
  <2>1. /\ s.cmTimer # "stop" /\ (s.mic_errors_seen => n >= 1) /\ s.rxKey = s.txKey
        /\ ~cf.ieSame => "4/4" \notin s.txcb
    BY <1>0, <1>e DEF StaOk
  <2> QED BY <1>1, <1>g, <1>h, <1>j, <1>l, <2>1 DEF StaOk
<1> QED BY <1>0, <1>p, <1>q, <1>r

\* Which key a 3/4 with a right MIC is made with: the derived one, or the one
\* the station has got a 3/4 for before.
Heard(cf, s, m, v, cs) ==
  /\ v.tset = FALSE /\ v.pset = TRUE /\ v.ptk = m.mic
  /\ \/ /\ s.tset /\ s.key_install /\ cs = {m.mic} /\ Held(cf, s) = {}
        /\ m.k = "3/4" /\ s.anonce = m.nonce
     \/ /\ ~s.tset /\ s.pset /\ s.ptk = m.mic /\ (s.key_install => Waits(cf, s))

\* A 3/4 with a right MIC, sorted by the key of that MIC.
LEMMA Heard3of4 ==
  ASSUME NEW cf, NEW s, NEW q, NEW j, NEW n, NEW tq, NEW p, NEW m, NEW v, NEW cs, cs = Cands(cf, s),
         KeyInv(s, q, TRUE), StaOk(cf, s, q, tq, TRUE, n), Down(m, s.txKey, cs, j, p),
         s.tset /\ ~s.renew => s.anonce = j, MicOk(s, m), m.mic # None, Checked(s, m, v)
  PROVE  Heard(cf, s, m, v, cs)
<1>1. s.tset => ~s.pset /\ ~In(s.tptk, q) BY DEF KeyInv, In, NotIn
<1>2. s.key_install /\ ~s.tset => ~In(s.ptk, q) BY DEF KeyInv, In, NotIn
<1>3. s.txKey = None \/ In(s.txKey, q) BY DEF StaOk
<1>4. CASE s.tset
  <2>1. m.mic = s.tptk BY <1>1, <1>4 DEF MicOk
  <2>2. m.mic # s.txKey BY <1>1, <1>3, <1>4, <2>1
  <2>3. m.k = "3/4" /\ m.mic \in cs /\ m.nonce = j BY <2>2 DEF Down
  <2>4. s.key_install BY <1>4 DEF StaOk
  <2>5. ~s.renew /\ cs = {s.tptk} BY <1>4, <2>3 DEF Cands, Cand
  <2>6. Held(cf, s) = {} BY <1>4 DEF Held, Waits
  <2>7. v.tset = FALSE /\ v.pset = TRUE /\ v.ptk = s.tptk BY <1>4, <2>1 DEF Checked
  <2> QED BY <1>4, <2>1, <2>3, <2>4, <2>5, <2>6, <2>7 DEF Heard
<1>5. CASE ~s.tset
  <2>1. s.pset /\ m.mic = s.ptk BY <1>5 DEF MicOk
  <2>2. v.tset = FALSE /\ v.pset = TRUE /\ v.ptk = s.ptk BY <1>5, <2>1 DEF Checked
  <2>3. s.key_install => Waits(cf, s)
    <3> SUFFICES ASSUME s.key_install, ~cf.ieSame PROVE FALSE BY <1>5 DEF Waits
    <3>1. cs = {} BY <1>5 DEF Cands
    <3>2. m.mic = s.txKey BY <3>1 DEF Down
    <3> QED BY <1>2, <1>3, <1>5, <2>1, <3>2
  <2> QED BY <1>5, <2>1, <2>2, <2>3 DEF Heard
<1> QED BY <1>4, <1>5

\* 3/4: the station leaves.
LEMMA Refuse3of4 ==
  ASSUME NEW cf, NEW s, NEW q, NEW j, NEW n, NEW tq, NEW p, NEW m, NEW v, NEW r, NEW cs, cs = Cands(cf, s),
         KeyInv(s, q, TRUE), StaOk(cf, s, q, tq, TRUE, n), Down(m, s.txKey, cs, j, p),
         s.tset /\ ~s.renew => s.anonce = j, MicOk(s, m), m.mic # None, Checked(s, m, v),
         Left3of4(v, r), ~(cf.ieSame /\ v.anonce = m.nonce)
  PROVE  StaOk(cf, r, q, tq, FALSE, n)
<1>0. Heard(cf, s, m, v, cs) BY Heard3of4
<1>1. /\ v.tset = FALSE /\ v.pset = TRUE /\ v.ptk = m.mic
      /\ \/ s.tset /\ s.key_install /\ s.anonce = m.nonce
         \/ ~s.tset /\ s.pset /\ s.ptk = m.mic /\ (s.key_install => Waits(cf, s))
  BY <1>0 DEF Heard
<1>2. /\ r.st = "LAST_HALF" /\ r.tset = FALSE /\ r.pset = TRUE /\ r.ptk = m.mic
      /\ r.key_install = s.key_install /\ r.install = s.install /\ r.txKey = s.txKey /\ r.rxKey = s.rxKey
      /\ r.txcb = s.txcb /\ r.mic_errors_seen = s.mic_errors_seen
      /\ r.cmTimer = s.cmTimer \/ r.cmTimer = "none"
      /\ v.anonce = s.anonce
  BY <1>1 DEF Left3of4, Checked
<1>3. Waits(cf, r) <=> Waits(cf, s)
  BY <1>1, <1>2 DEF Waits
<1>4. /\ s.cmTimer # "stop" /\ (s.mic_errors_seen => n >= 1) /\ (s.txKey = None \/ In(s.txKey, q))
      /\ ~cf.ieSame => "4/4" \notin s.txcb
      /\ Waits(cf, s) => s.install /\ tq # <<>> /\ "4/4" \in s.txcb
      /\ ~Waits(cf, s) => s.rxKey = s.txKey
      /\ s.pset /\ ~s.key_install => In(s.ptk, q)
  BY DEF StaOk
<1>5. r.pset /\ ~r.key_install => In(r.ptk, q)
  BY <1>1, <1>2 DEF StaOk
<1>6. Cand(r) # None BY <1>2 DEF Cand
<1> QED BY <1>2, <1>3, <1>4, <1>5, <1>6 DEF StaOk

\* 3/4: the station holds the key and answers.
LEMMA Get3of4 ==
  ASSUME NEW cf, NEW s, NEW q, NEW a, NEW ts, NEW tq, NEW ta, NEW j, NEW n, NEW m, NEW u, NEW v, NEW r, NEW g,
         KeyInv(s, q, TRUE), StaOk(cf, s, q, tq, TRUE, n),
         Pair(cf, s, a, ts, tq, ta, q, j), IsSeq(tq), ts # <<>>, m = Head(ts), u = Tail(ts),
         MicOk(s, m), m.mic # None, Checked(s, m, v), cf.ieSame, Did3of4(v, r, g), tq \o <<g>> # <<>>
  PROVE  /\ IsSeq(tq \o <<g>>) /\ StaOk(cf, r, q, tq \o <<g>>, TRUE, n)
         /\ Pair(cf, r, a, u, tq \o <<g>>, ta, q, j)
<1>1. PICK t : t = s.txKey OBVIOUS
<1>2. PICK cs : cs = Cands(cf, s) OBVIOUS
<1>3. PICK ws : ws = Held(cf, s) OBVIOUS
<1>4. PICK p : p = a.PTK OBVIOUS
<1>5. PICK k : k = m.mic OBVIOUS
<1>6. PICK ws2 : ws2 = Held(cf, r) OBVIOUS
<1>a. Core(cf, a, t, cs, j) /\ Air(cf, t, cs, ws, j, p, ts, ta, tq, q)
  BY <1>1, <1>2, <1>3, <1>4 DEF Pair
<1>b. Apart(t, cs, ws)
  BY <1>1, <1>2, <1>3, Derived
<1>c. Air(cf, t, cs, ws, j, p, u, ta, tq, q) /\ Down(m, t, cs, j, p) /\ Leads(m, u, cs, ws)
  BY <1>a, AirTail
<1>d. s.tset /\ ~s.renew => s.anonce = j BY DEF Pair
<1>f. Heard(cf, s, m, v, cs)
  <2>1. Down(m, s.txKey, cs, j, p) BY <1>1, <1>c
  <2> QED BY <1>2, <1>d, <2>1, Heard3of4
<1>e. /\ v.tset = FALSE /\ v.pset = TRUE /\ v.ptk = k
      /\ \/ s.tset /\ s.key_install /\ cs = {k} /\ ws = {}
         \/ ~s.tset /\ s.pset /\ s.ptk = k /\ (s.key_install => Waits(cf, s))
  BY <1>3, <1>5, <1>f DEF Heard
<1>g. /\ r.st = "LAST_HALF" /\ r.tset = FALSE /\ r.pset = TRUE /\ r.ptk = k /\ r.renew = TRUE
      /\ r.key_install = s.key_install /\ r.install = TRUE /\ r.txKey = t
      /\ r.rxKey = (IF s.key_install THEN k ELSE s.rxKey)
      /\ "4/4" \in r.txcb /\ (r.mic_errors_seen => s.mic_errors_seen)
      /\ r.cmTimer = s.cmTimer \/ r.cmTimer = "none"
      /\ g.k = "4/4" /\ g.mic = k
  BY <1>1, <1>e DEF Did3of4, Checked
<1>h. Cands(cf, r) = cs
  <2>1. Cands(cf, r) = IF s.key_install THEN {k} ELSE {} BY <1>g DEF Cands, Cand
  <2>2. CASE s.tset BY <1>e, <2>1, <2>2
  <2>3. CASE ~s.tset
    <3>1. cs = IF s.key_install THEN {s.ptk} ELSE {} BY <1>2, <2>3 DEF Cands, Cand
    <3> QED BY <1>e, <2>1, <2>3, <3>1
  <2> QED BY <2>2, <2>3
<1>i. ws2 = IF s.key_install THEN {k} ELSE {} BY <1>6, <1>g DEF Held, Waits
<1>j. Air(cf, t, cs, ws2, j, p, u, ta, tq, q)
  <2>1. CASE s.tset
    <3>1. cs = {k} /\ ws = {} /\ ws2 = {k} BY <1>e, <1>i, <2>1
    <3>2. t # k /\ k # None /\ m.mic = k BY <1>5, <1>b, <3>1 DEF Apart
    <3> QED BY <1>c, <3>1, <3>2, AirHold
  <2>2. CASE ~s.tset
    <3>1. ws2 = ws BY <1>3, <1>e, <1>i, <2>2 DEF Held, Waits
    <3> QED BY <1>c, <3>1
  <2> QED BY <2>1, <2>2
<1>k. ~s.key_install => In(k, q) /\ s.rxKey = s.txKey BY <1>e DEF StaOk, Waits
<1>l. g.k # "2/4" => g.mic = None \/ In(g.mic, q) \/ g.mic \in ws2
  BY <1>g, <1>i, <1>k
<1>m. Answer(cf, g, t, cs, j, p) /\ (g.k = "2/4" => g.mic \in cs) BY <1>g DEF Answer
<1>n. IsSeq(tq \o <<g>>) /\ Air(cf, t, cs, ws2, j, p, u, ta, tq \o <<g>>, q)
  BY <1>j, <1>l, <1>m, AirSend
<1>o. Pair(cf, r, a, u, tq \o <<g>>, ta, q, j)
  BY <1>4, <1>6, <1>a, <1>g, <1>h, <1>n DEF Pair
<1>p. StaOk(cf, r, q, tq \o <<g>>, TRUE, n)
  <2>1. s.cmTimer # "stop" /\ (s.mic_errors_seen => n >= 1) /\ (t = None \/ In(t, q))
    BY <1>1 DEF StaOk
  <2>2. Waits(cf, r) <=> s.key_install BY <1>g DEF Waits
  <2>3. Cand(r) # None BY <1>5, <1>g DEF Cand
  <2> QED BY <1>1, <1>g, <1>k, <2>1, <2>2, <2>3 DEF StaOk
<1> QED BY <1>n, <1>o, <1>p

\* 1/2: nothing of the pairwise key changes, and it is installed.
LEMMA Get1of2 ==
  ASSUME NEW cf, NEW s, NEW q, NEW a, NEW ts, NEW tq, NEW ta, NEW j, NEW n, NEW m, NEW u, NEW v, NEW r, NEW g,
         KeyInv(s, q, TRUE), StaOk(cf, s, q, tq, TRUE, n),
         Pair(cf, s, a, ts, tq, ta, q, j), IsSeq(tq), ts # <<>>, m = Head(ts), u = Tail(ts),
         MicOk(s, m), m.mic # None, m.k = "1/2", Checked(s, m, v), Did1of2(v, r, g)
  PROVE  /\ IsSeq(tq \o <<g>>) /\ StaOk(cf, r, q, tq \o <<g>>, TRUE, n)
         /\ Pair(cf, r, a, u, tq \o <<g>>, ta, q, j)
<1>1. PICK t : t = s.txKey OBVIOUS
<1>2. PICK cs : cs = Cands(cf, s) OBVIOUS
<1>3. PICK ws : ws = Held(cf, s) OBVIOUS
<1>4. PICK p : p = a.PTK OBVIOUS
<1>a. Core(cf, a, t, cs, j) /\ Air(cf, t, cs, ws, j, p, ts, ta, tq, q)
  BY <1>1, <1>2, <1>3, <1>4 DEF Pair
<1>c. Air(cf, t, cs, ws, j, p, u, ta, tq, q) /\ Down(m, t, cs, j, p) /\ Leads(m, u, cs, ws)
  BY <1>a, AirTail
<1>d. s.tset /\ ~s.renew => s.anonce = j BY DEF Pair
<1>e. Heard(cf, s, m, v, cs)
  <2>1. Down(m, s.txKey, cs, j, p) BY <1>1, <1>c
  <2> QED BY <1>2, <1>d, <2>1, Heard3of4
<1>f. ~s.tset /\ s.pset /\ s.ptk = m.mic /\ v.tset = FALSE /\ v.pset = TRUE /\ v.ptk = m.mic
  BY <1>e DEF Heard
<1>g. m.mic = t BY <1>c DEF Down
<1>h. In(t, q) BY <1>1, <1>g DEF StaOk
<1>i. ~s.key_install BY <1>f, <1>g, <1>h DEF KeyInv, In, NotIn
<1>j. /\ r.st = "GROUP_HANDSHAKE" /\ r.tset = FALSE /\ r.pset = TRUE /\ r.ptk = t /\ r.renew = s.renew
      /\ r.key_install = s.key_install /\ r.txKey = t /\ r.rxKey = s.rxKey
      /\ r.txcb = s.txcb \cup {"2/2"} /\ r.mic_errors_seen = s.mic_errors_seen
      /\ r.cmTimer = s.cmTimer \/ r.cmTimer = "none"
      /\ g.k = "2/2" /\ g.mic = t
  BY <1>1, <1>f, <1>g DEF Did1of2, Checked
<1>k. cs = {} /\ ws = {} /\ Cands(cf, r) = cs /\ Held(cf, r) = ws /\ ~Waits(cf, r) /\ ~Waits(cf, s)
  BY <1>2, <1>3, <1>i, <1>j DEF Cands, Held, Waits
<1>l. g.k # "2/4" => g.mic = None \/ In(g.mic, q) \/ g.mic \in ws
  BY <1>h, <1>j
<1>m. Answer(cf, g, t, cs, j, p) /\ (g.k = "2/4" => g.mic \in cs) BY <1>j DEF Answer
<1>n. IsSeq(tq \o <<g>>) /\ Air(cf, t, cs, ws, j, p, u, ta, tq \o <<g>>, q)
  BY <1>c, <1>l, <1>m, AirSend
<1>o. Pair(cf, r, a, u, tq \o <<g>>, ta, q, j)
  BY <1>4, <1>a, <1>j, <1>k, <1>n DEF Pair
<1>p. StaOk(cf, r, q, tq \o <<g>>, TRUE, n)
  <2>1. /\ s.cmTimer # "stop" /\ (s.mic_errors_seen => n >= 1) /\ s.rxKey = t /\ s.renew
        /\ ~cf.ieSame => "4/4" \notin s.txcb
    BY <1>1, <1>f, <1>k DEF StaOk
  <2>2. "4/4" \in r.txcb => "4/4" \in s.txcb BY <1>j
  <2> QED BY <1>h, <1>i, <1>j, <1>k, <2>1, <2>2 DEF StaOk
<1> QED BY <1>n, <1>o, <1>p

\* r and s have the same keys and wait for the same.
Same(r, s) ==
  /\ r.st = s.st /\ r.anonce = s.anonce /\ r.snonce = s.snonce /\ r.renew = s.renew /\ r.tptk = s.tptk
  /\ r.tset = s.tset /\ r.ptk = s.ptk /\ r.pset = s.pset /\ r.key_install = s.key_install
  /\ r.install = s.install /\ r.txcb = s.txcb /\ r.rxKey = s.rxKey /\ r.txKey = s.txKey
  /\ r.mic_errors_seen = s.mic_errors_seen /\ r.cmTimer = s.cmTimer

\* A step that changes none of these keeps the station's side.
LEMMA SameKeeps ==
  ASSUME NEW cf, NEW s, NEW r, NEW q, NEW a, NEW ts, NEW tq, NEW ta, NEW j, NEW n, NEW l, NEW l2, Same(r, s),
         l2 => l, StaOk(cf, s, q, tq, l, n)
  PROVE  StaOk(cf, r, q, tq, l2, n) /\ (Pair(cf, s, a, ts, tq, ta, q, j) => Pair(cf, r, a, ts, tq, ta, q, j))
<1>1. Waits(cf, r) = Waits(cf, s) /\ Cand(r) = Cand(s) BY DEF Same, Waits, Cand
<1>2. Cands(cf, r) = Cands(cf, s) BY <1>1 DEF Same, Cands
<1>3. Held(cf, r) = Held(cf, s) BY <1>1 DEF Same, Held
<1>4. StaOk(cf, r, q, tq, l2, n) BY <1>1 DEF Same, StaOk
<1>5. Pair(cf, s, a, ts, tq, ta, q, j) => Pair(cf, r, a, ts, tq, ta, q, j)
  BY <1>2, <1>3 DEF Same, Pair
<1> QED BY <1>4, <1>5

\* A frame of the access point is lost, or ignored.
LEMMA PairTail ==
  ASSUME NEW cf, NEW s, NEW a, NEW ts, NEW tq, NEW ta, NEW q, NEW j, Pair(cf, s, a, ts, tq, ta, q, j), ts # <<>>
  PROVE  Pair(cf, s, a, Tail(ts), tq, ta, q, j)
<1>0. PICK u : u = Tail(ts) OBVIOUS
<1>m. PICK m : m = Head(ts) OBVIOUS
<1>1. PICK t : t = s.txKey OBVIOUS
<1>2. PICK cs : cs = Cands(cf, s) OBVIOUS
<1>3. PICK ws : ws = Held(cf, s) OBVIOUS
<1>4. PICK p : p = a.PTK OBVIOUS
<1>5. Air(cf, t, cs, ws, j, p, ts, ta, tq, q) BY <1>1, <1>2, <1>3, <1>4 DEF Pair
<1>6. Air(cf, t, cs, ws, j, p, u, ta, tq, q) BY <1>0, <1>m, <1>5, AirTail
<1>7. Pair(cf, s, a, u, tq, ta, q, j) BY <1>1, <1>2, <1>3, <1>4, <1>6 DEF Pair
<1> QED BY <1>0, <1>7

\* A frame of the station is lost.
LEMMA PairLost ==
  ASSUME NEW cf, NEW s, NEW a, NEW ts, NEW tq, NEW ta, NEW q, NEW j, Pair(cf, s, a, ts, tq, ta, q, j),
         ta # <<>>, IsSeq(ta)
  PROVE  Pair(cf, s, a, ts, tq, Tail(ta), q, j)
<1>0. PICK u : u = Tail(ta) OBVIOUS
<1>1. PICK t : t = s.txKey OBVIOUS
<1>2. PICK cs : cs = Cands(cf, s) OBVIOUS
<1>3. PICK ws : ws = Held(cf, s) OBVIOUS
<1>4. PICK p : p = a.PTK OBVIOUS
<1>5. Air(cf, t, cs, ws, j, p, ts, ta, tq, q) BY <1>1, <1>2, <1>3, <1>4 DEF Pair
<1>6. Air(cf, t, cs, ws, j, p, ts, u, tq, q) BY <1>0, <1>5, AirLost
<1>7. Pair(cf, s, a, ts, tq, u, q, j) BY <1>1, <1>2, <1>3, <1>4, <1>6 DEF Pair
<1> QED BY <1>0, <1>7

\* What a handler of the station leaves behind, frames u left to receive.
Leaves(d, q, a, u, tq, ta, j, n) ==
  /\ d.installs = <<>> /\ IsSeq(tq \o d.frames)
  /\ \/ d.leave = TRUE /\ StaOk(conf, d.s, q, tq \o d.frames, FALSE, n)
     \/ /\ d.leave = FALSE /\ StaOk(conf, d.s, q, tq \o d.frames, TRUE, n)
        /\ Pair(conf, d.s, a, u, tq \o d.frames, ta, q, j)

\* A handler of the station that keeps the association.
LEMMA LeavesStays ==
  ASSUME NEW d, NEW q, NEW a, NEW u, NEW tq, NEW ta, NEW j, NEW n, NEW w, NEW r, d.s = r, d.installs = <<>>,
         w = tq \o d.frames, IsSeq(w), d.leave = FALSE, StaOk(conf, r, q, w, TRUE, n),
         Pair(conf, r, a, u, w, ta, q, j)
  PROVE  Leaves(d, q, a, u, tq, ta, j, n)
BY Zenon DEF Leaves

\* A handler of the station that gives the association up.
LEMMA LeavesGoes ==
  ASSUME NEW d, NEW q, NEW a, NEW u, NEW tq, NEW ta, NEW j, NEW n, NEW w, NEW r, d.s = r, d.installs = <<>>,
         w = tq \o d.frames, IsSeq(w), d.leave = TRUE, StaOk(conf, r, q, w, FALSE, n)
  PROVE  Leaves(d, q, a, u, tq, ta, j, n)
BY Zenon DEF Leaves

\* Any frame of the access point.
LEMMA StaGets ==
  ASSUME NEW s, NEW q, NEW a, NEW ts, NEW tq, NEW ta, NEW j, NEW n, NEW d,
         KeyInv(s, q, TRUE), StaOk(conf, s, q, tq, TRUE, n),
         Pair(conf, s, a, ts, tq, ta, q, j), IsSeq(tq), ts # <<>>, d = wpa_sm_rx_eapol(s, Head(ts))
  PROVE  Leaves(d, q, a, Tail(ts), tq, ta, j, n)
<1>0. PICK cf : cf = conf OBVIOUS
<1>1. PICK m : m = Head(ts) OBVIOUS
<1>2. PICK u : u = Tail(ts) OBVIOUS
<1> SUFFICES Leaves(d, q, a, u, tq, ta, j, n) BY <1>2
<1> DEFINE v == wpa_supplicant_verify_eapol_key_mic(s, m)
           c == [s EXCEPT !.eapol1_count = @ + 1]
<1>3. IsSta(s) BY DEF KeyInv
<1>4. \/ d = Did(s, <<>>, <<>>, FALSE)
      \/ MicOk(s, m) /\ m.mic # None /\ m.k = "1/2" /\ d = wpa_supplicant_process_1_of_2(v, m)
      \/ MicOk(s, m) /\ m.mic # None /\ d = wpa_supplicant_process_3_of_4(v, m)
      \/ d = Did(c, <<>>, <<>>, TRUE)
      \/ m.mic = None /\ d = wpa_supplicant_process_1_of_4(c, m)
  BY <1>1 DEF wpa_sm_rx_eapol
<1>5. Checked(s, m, v) BY <1>3, SetsChecked
<1>6. IsSta(c) /\ Same(c, s) /\ Same(s, s)
  BY <1>3 DEF IsSta, Fields, Same
<1>7. Kept(d, q, TRUE) BY <1>1, Received
<1> HIDE DEF v, c
<1>8. IsSta(v) BY <1>5 DEF Checked
<1>9. tq \o <<>> = tq BY EmptyInstall
<1>10. q \o <<>> = q BY EmptyInstall DEF KeyInv
<1>11. Pair(cf, s, a, ts, tq, ta, q, j) /\ StaOk(cf, s, q, tq, TRUE, n) BY <1>0
<1>12. ASSUME NEW x, Same(x, s), d.s = x, d.installs = <<>>, d.frames = <<>>, d.leave = TRUE \/ d.leave = FALSE
       PROVE  Leaves(d, q, a, u, tq, ta, j, n)
  <2>2. Pair(cf, s, a, u, tq, ta, q, j) BY <1>2, <1>11, PairTail
  <2>3. PICK yes : yes = TRUE OBVIOUS
  <2>4. PICK f : f = FALSE OBVIOUS
  <2>5. StaOk(cf, s, q, tq, yes, n) BY <1>11, <2>3
  <2>6. StaOk(cf, x, q, tq, yes, n) /\ Pair(cf, x, a, u, tq, ta, q, j)
    BY <1>12, <2>2, <2>5, SameKeeps
  <2>7. StaOk(cf, x, q, tq, f, n) BY <1>12, <2>3, <2>4, <2>5, SameKeeps
  <2>8. IsSeq(tq \o d.frames) /\ tq \o d.frames = tq BY <1>9, <1>12
  <2> QED BY <1>0, <1>12, <2>3, <2>4, <2>6, <2>7, <2>8 DEF Leaves
<1>13. CASE m.mic = None /\ d = wpa_supplicant_process_1_of_4(c, m)
  <2>1. d.installs = <<>> /\ d.leave = FALSE /\ \E g : d.frames = <<g>> /\ Did1of4(c, m, d.s, g)
    BY <1>6, <1>13, Sets1of4
  <2>2. PICK g : d.frames = <<g>> /\ Did1of4(c, m, d.s, g) BY <2>1
  <2>3. PICK r : r = d.s OBVIOUS
  <2>4. Did1of4(s, m, r, g) BY <1>6, <2>2, <2>3 DEF Did1of4, Same
  <2>5. KeyInv(r, q, TRUE) BY <1>7, <1>10, <2>1, <2>3 DEF Kept
  <2>6. IsSeq(tq \o <<g>>) /\ StaOk(conf, r, q, tq \o <<g>>, TRUE, n) /\ Pair(conf, r, a, u, tq \o <<g>>, ta, q, j)
    BY <1>1, <1>2, <1>13, <2>4, <2>5, Get1of4
  <2>7. PICK w : w = tq \o <<g>> OBVIOUS
  <2>8. w = tq \o d.frames BY <2>2, <2>7, Zenon
  <2>9. IsSeq(w) /\ StaOk(conf, r, q, w, TRUE, n) /\ Pair(conf, r, a, u, w, ta, q, j)
    BY <2>6, <2>7, Zenon
  <2> QED BY <2>1, <2>3, <2>8, <2>9, LeavesStays
<1>14. CASE MicOk(s, m) /\ m.mic # None /\ m.k = "1/2" /\ d = wpa_supplicant_process_1_of_2(v, m)
  <2>1. d.installs = <<>> /\ d.leave = FALSE /\ \E g : d.frames = <<g>> /\ Did1of2(v, d.s, g)
    BY <1>8, <1>14, Sets1of2
  <2>2. PICK g : d.frames = <<g>> /\ Did1of2(v, d.s, g) BY <2>1
  <2>3. PICK r : r = d.s OBVIOUS
  <2>4. Did1of2(v, r, g) BY <2>2, <2>3
  <2>6. IsSeq(tq \o <<g>>) /\ StaOk(cf, r, q, tq \o <<g>>, TRUE, n) /\ Pair(cf, r, a, u, tq \o <<g>>, ta, q, j)
    BY <1>1, <1>2, <1>5, <1>11, <1>14, <2>4, Get1of2
  <2>7. PICK w : w = tq \o <<g>> OBVIOUS
  <2>8. w = tq \o d.frames BY <2>2, <2>7, Zenon
  <2>9. IsSeq(w) /\ StaOk(conf, r, q, w, TRUE, n) /\ Pair(conf, r, a, u, w, ta, q, j)
    BY <1>0, <2>6, <2>7, Zenon
  <2> QED BY <2>1, <2>3, <2>8, <2>9, LeavesStays
<1>15. CASE MicOk(s, m) /\ m.mic # None /\ d = wpa_supplicant_process_3_of_4(v, m)
  <2>1. /\ d.installs = <<>>
        /\ \/ d.leave = TRUE /\ d.frames = <<>> /\ Left3of4(v, d.s) /\ ~(conf.ieSame /\ v.anonce = m.nonce)
           \/ d.leave = FALSE /\ conf.ieSame /\ \E g : d.frames = <<g>> /\ Did3of4(v, d.s, g)
    BY <1>8, <1>15, Sets3of4
  <2>2. PICK r : r = d.s OBVIOUS
  <2>3. CASE d.leave = TRUE /\ d.frames = <<>> /\ Left3of4(v, d.s) /\ ~(conf.ieSame /\ v.anonce = m.nonce)
    <3>1. PICK cs : cs = Cands(cf, s) OBVIOUS
    <3>2. PICK t : t = s.txKey OBVIOUS
    <3>3. PICK ws : ws = Held(cf, s) OBVIOUS
    <3>4. PICK p : p = a.PTK OBVIOUS
    <3>5. Air(cf, t, cs, ws, j, p, ts, ta, tq, q) /\ (s.tset /\ ~s.renew => s.anonce = j)
      BY <1>11, <3>1, <3>2, <3>3, <3>4 DEF Pair
    <3>6. Down(m, t, cs, j, p) BY <1>1, <1>2, <3>5, AirTail
    <3>7. Down(m, s.txKey, cs, j, p) /\ Left3of4(v, r) /\ ~(cf.ieSame /\ v.anonce = m.nonce)
      BY <1>0, <2>2, <2>3, <3>2, <3>6
    <3>8. StaOk(cf, r, q, tq, FALSE, n)
      BY <1>5, <1>11, <1>15, <3>1, <3>5, <3>7, Refuse3of4
    <3> QED BY <1>0, <1>9, <2>1, <2>2, <2>3, <3>8 DEF Leaves
  <2>4. CASE d.leave = FALSE /\ conf.ieSame /\ \E g : d.frames = <<g>> /\ Did3of4(v, d.s, g)
    <3>1. PICK g : d.frames = <<g>> /\ Did3of4(v, d.s, g) BY <2>4
    <3>2. Did3of4(v, r, g) /\ cf.ieSame BY <1>0, <2>2, <2>4, <3>1
    <3>3. tq \o <<g>> # <<>>
      <4>1. tq \in Seq({tq[i] : i \in DOMAIN tq} \cup {g})
        <5>1. tq \in Seq({tq[i] : i \in DOMAIN tq}) BY DEF IsSeq
        <5>2. \A i \in 1..Len(tq) : tq[i] \in {tq[k] : k \in DOMAIN tq} \cup {g} BY <5>1
        <5> QED BY <5>1, <5>2
      <4>2. Len(tq \o <<g>>) = Len(tq) + 1 /\ Len(tq) \in Nat BY <4>1
      <4> QED BY <4>2
    <3>4. IsSeq(tq \o <<g>>) /\ StaOk(cf, r, q, tq \o <<g>>, TRUE, n) /\ Pair(cf, r, a, u, tq \o <<g>>, ta, q, j)
      BY <1>1, <1>2, <1>5, <1>11, <1>15, <3>2, <3>3, Get3of4
    <3>5. PICK w : w = tq \o <<g>> OBVIOUS
    <3>6. w = tq \o d.frames BY <3>1, <3>5, Zenon
    <3>7. IsSeq(w) /\ StaOk(conf, r, q, w, TRUE, n) /\ Pair(conf, r, a, u, w, ta, q, j)
      BY <1>0, <3>4, <3>5, Zenon
    <3> QED BY <2>1, <2>2, <2>4, <3>6, <3>7, LeavesStays
  <2> QED BY <2>1, <2>3, <2>4
<1>16. Leaves(d, q, a, u, tq, ta, j, n)
  <2>1. CASE d = Did(s, <<>>, <<>>, FALSE)
    <3>1. d.s = s /\ d.installs = <<>> /\ d.frames = <<>> /\ d.leave = FALSE BY <2>1 DEF Did
    <3> QED BY <1>6, <1>12, <3>1
  <2>2. CASE d = Did(c, <<>>, <<>>, TRUE)
    <3>1. d.s = c /\ d.installs = <<>> /\ d.frames = <<>> /\ d.leave = TRUE BY <2>2 DEF Did
    <3> QED BY <1>6, <1>12, <3>1
  <2> QED BY <1>4, <1>13, <1>14, <1>15, <2>1, <2>2
<1> QED BY <1>16

\* The callback of 4/4.
Did4of4(s, r, tx) ==
  /\ IsSta(r) /\ r.st \in {"GROUP_HANDSHAKE", "COMPLETED"} /\ r.key_install = FALSE
  /\ r.tset = s.tset /\ r.pset = s.pset /\ r.ptk = s.ptk /\ r.tptk = s.tptk /\ r.renew = s.renew
  /\ r.anonce = s.anonce /\ r.snonce = s.snonce /\ r.install = s.install /\ r.txcb = s.txcb
  /\ (r.mic_errors_seen => s.mic_errors_seen) /\ (r.cmTimer = s.cmTimer \/ r.cmTimer = "none")
  /\ tx => r.rxKey = s.ptk /\ r.txKey = s.ptk
  /\ ~tx => r.rxKey = s.rxKey /\ r.txKey = s.txKey

\* The fields that only a state change, or the group key, touches.
Moved(s, r) ==
  /\ IsSta(r) /\ r.key_install = s.key_install
  /\ r.tset = s.tset /\ r.pset = s.pset /\ r.ptk = s.ptk /\ r.tptk = s.tptk /\ r.renew = s.renew
  /\ r.anonce = s.anonce /\ r.snonce = s.snonce /\ r.install = s.install /\ r.txcb = s.txcb
  /\ (r.mic_errors_seen => s.mic_errors_seen) /\ (r.cmTimer = s.cmTimer \/ r.cmTimer = "none")
  /\ r.rxKey = s.rxKey /\ r.txKey = s.txKey

\* wpa_sm_set_state touches no other field.
LEMMA MovedState ==
  ASSUME NEW s, NEW st, IsSta(s)
  PROVE  Moved(s, wpa_sm_set_state(s, st)) /\ wpa_sm_set_state(s, st).st = st
BY DEF Moved, wpa_sm_set_state, IsSta, Fields

\* wpa_supplicant_install_gtk touches no other field.
LEMMA MovedGtk ==
  ASSUME NEW s, IsSta(s)
  PROVE  Moved(s, wpa_supplicant_install_gtk(s)) /\ wpa_supplicant_install_gtk(s).st = s.st
BY DEF Moved, wpa_supplicant_install_gtk, IsSta, Fields

\* Two such steps, one after the other.
LEMMA MovedTrans ==
  ASSUME NEW s, NEW r, NEW x, Moved(s, r), Moved(r, x)
  PROVE  Moved(s, x)
BY DEF Moved

\* What wpa_supplicant_send_4_of_4_txcallback does: the key is installed for
\* sending if it is still to be installed.
LEMMA Sets4of4 ==
  ASSUME NEW s, IsSta(s)
  PROVE  LET d == wpa_supplicant_send_4_of_4_txcallback(s) IN
         /\ d.leave = FALSE /\ Did4of4(s, d.s, s.key_install /\ s.install)
         /\ d.installs = (IF s.key_install /\ s.install THEN <<s.ptk>> ELSE <<>>)
<1> DEFINE tx == s.key_install /\ s.install
           s1 == IF tx THEN wpa_supplicant_install_ptk(s, 2) ELSE s
           s2 == wpa_sm_set_state(s1, "GROUP_HANDSHAKE")
           g  == IF s.key_install THEN wpa_supplicant_install_gtk(s2) ELSE s2
           h  == wpa_supplicant_key_neg_complete(g)
           s3 == IF s.gd = 0 THEN s2 ELSE h
           s4 == [s3 EXCEPT !.key_install = FALSE]
           d  == wpa_supplicant_send_4_of_4_txcallback(s)
<1>1. d.s = s4 /\ d.installs = (IF tx THEN <<s.ptk>> ELSE <<>>) /\ d.leave = FALSE
  BY DEF wpa_supplicant_send_4_of_4_txcallback, Did
<1>2. /\ IsSta(s1) /\ s1.st = s.st
      /\ s1.tset = s.tset /\ s1.pset = s.pset /\ s1.ptk = s.ptk /\ s1.tptk = s.tptk /\ s1.renew = s.renew
      /\ s1.anonce = s.anonce /\ s1.snonce = s.snonce /\ s1.install = s.install /\ s1.txcb = s.txcb
      /\ (s1.mic_errors_seen => s.mic_errors_seen) /\ s1.cmTimer = s.cmTimer
      /\ tx => s1.rxKey = s.ptk /\ s1.txKey = s.ptk
      /\ ~tx => s1.rxKey = s.rxKey /\ s1.txKey = s.txKey
  <2> DEFINE z == wpa_supplicant_install_ptk(s, 2)
  <2>0. z = [s EXCEPT !.rxKey = s.ptk, !.txKey = s.ptk, !.mic_errors_seen = FALSE]
    <3>1. 2 # 0 OBVIOUS
    <3> QED BY <3>1, Zenon DEF wpa_supplicant_install_ptk
  <2>1. /\ IsSta(z) /\ z.st = s.st
        /\ z.tset = s.tset /\ z.pset = s.pset /\ z.ptk = s.ptk /\ z.tptk = s.tptk /\ z.renew = s.renew
        /\ z.anonce = s.anonce /\ z.snonce = s.snonce /\ z.install = s.install /\ z.txcb = s.txcb
        /\ (z.mic_errors_seen => s.mic_errors_seen) /\ z.cmTimer = s.cmTimer
        /\ z.rxKey = s.ptk /\ z.txKey = s.ptk
    BY <2>0 DEF IsSta, Fields
  <2> HIDE DEF z
  <2>2. CASE tx
    <3>1. s1 = z BY <2>2 DEF z
    <3> HIDE DEF s1, tx
    <3> QED BY <2>1, <2>2, <3>1
  <2>3. CASE ~tx
    <3>1. s1 = s BY <2>3
    <3> HIDE DEF s1, tx
    <3> QED BY <2>3, <3>1
  <2> QED BY <2>2, <2>3
<1> HIDE DEF s1
<1>3. Moved(s1, s2) /\ s2.st = "GROUP_HANDSHAKE" BY <1>2, MovedState
<1> HIDE DEF s2
<1>4. Moved(s1, g)
  <2>1. Moved(s2, wpa_supplicant_install_gtk(s2)) BY <1>3, MovedGtk DEF Moved
  <2> QED BY <1>3, <2>1, MovedTrans
<1> HIDE DEF g
<1>5. Moved(s1, h) /\ h.st = "COMPLETED"
  <2>1. IsSta(g) BY <1>4 DEF Moved
  <2>2. Moved(g, h) /\ h.st = "COMPLETED" BY <2>1, MovedState DEF wpa_supplicant_key_neg_complete
  <2> QED BY <1>4, <2>2, MovedTrans
<1> HIDE DEF h
<1>6. Moved(s1, s3) /\ s3.st \in {"GROUP_HANDSHAKE", "COMPLETED"} BY <1>3, <1>5
<1> HIDE DEF s3
<1>7. /\ IsSta(s4) /\ s4.st = s3.st /\ s4.key_install = FALSE
      /\ s4.tset = s3.tset /\ s4.pset = s3.pset /\ s4.ptk = s3.ptk /\ s4.tptk = s3.tptk /\ s4.renew = s3.renew
      /\ s4.anonce = s3.anonce /\ s4.snonce = s3.snonce /\ s4.install = s3.install /\ s4.txcb = s3.txcb
      /\ s4.mic_errors_seen = s3.mic_errors_seen /\ s4.cmTimer = s3.cmTimer
      /\ s4.rxKey = s3.rxKey /\ s4.txKey = s3.txKey
  <2>1. IsSta(s3) BY <1>6 DEF Moved
  <2> QED BY <2>1 DEF IsSta, Fields
<1> HIDE DEF s4, d
<1>8. Did4of4(s, s4, tx) BY <1>2, <1>6, <1>7 DEF Did4of4, Moved
<1> QED BY <1>1, <1>8 DEF d

\* r has the keys of s: at most a callback is used up, and the state moves on
\* where no key waits for installation.
Quietly(s, r) ==
  /\ (r.key_install <=> s.key_install) /\ r.tset = s.tset /\ r.pset = s.pset /\ r.ptk = s.ptk /\ r.tptk = s.tptk
  /\ r.renew = s.renew /\ r.anonce = s.anonce /\ r.snonce = s.snonce /\ r.install = s.install
  /\ r.txcb \subseteq s.txcb /\ (r.mic_errors_seen => s.mic_errors_seen)
  /\ r.cmTimer = s.cmTimer \/ r.cmTimer = "none"
  /\ r.rxKey = s.rxKey /\ r.txKey = s.txKey
  /\ r.st = s.st \/ (~s.key_install /\ r.st \in {"GROUP_HANDSHAKE", "COMPLETED"})

\* Such a callback leaves the station's keys and what it waits for.
LEMMA QuietKeeps ==
  ASSUME NEW cf, NEW s, NEW r, NEW q, NEW tq, NEW tq2, NEW l, NEW l2, NEW n, Quietly(s, r), ~Waits(cf, s),
         l2 => l, StaOk(cf, s, q, tq, l, n)
  PROVE  /\ StaOk(cf, r, q, tq2, l2, n) /\ Cands(cf, r) = Cands(cf, s) /\ Held(cf, r) = {} /\ Held(cf, s) = {}
<1>1. ~Waits(cf, r) /\ Cand(r) = Cand(s) BY DEF Quietly, Waits, Cand
<1>2. Cands(cf, r) = Cands(cf, s) BY <1>1 DEF Quietly, Cands
<1>3. Held(cf, r) = {} /\ Held(cf, s) = {} BY <1>1 DEF Held
<1>4. StaOk(cf, r, q, tq2, l2, n) BY <1>1 DEF Quietly, StaOk
<1> QED BY <1>2, <1>3, <1>4

\* A frame goes on the air and its callback installs nothing.
LEMMA QuietSends ==
  ASSUME NEW cf, NEW s, NEW r, NEW q, NEW a, NEW ts, NEW tq, NEW ta, NEW j, NEW n, NEW l, NEW l2,
         Quietly(s, r), ~Waits(cf, s), l2 => l, StaOk(cf, s, q, tq, l, n), IsSeq(tq), IsSeq(ta), tq # <<>>
  PROVE  /\ StaOk(cf, r, q, Tail(tq), l2, n)
         /\ Pair(cf, s, a, ts, tq, ta, q, j) => Pair(cf, r, a, ts, Tail(tq), Append(ta, Head(tq)), q, j)
<1>1. PICK u : u = Tail(tq) OBVIOUS
<1>2. PICK v : v = Append(ta, Head(tq)) OBVIOUS
<1>3. StaOk(cf, r, q, u, l2, n) /\ Cands(cf, r) = Cands(cf, s) /\ Held(cf, r) = {} /\ Held(cf, s) = {}
  BY QuietKeeps
<1>4. ASSUME Pair(cf, s, a, ts, tq, ta, q, j) PROVE Pair(cf, r, a, ts, u, v, q, j)
  <2>1. PICK t : t = s.txKey OBVIOUS
  <2>2. PICK cs : cs = Cands(cf, s) OBVIOUS
  <2>3. PICK ws : ws = Held(cf, s) OBVIOUS
  <2>4. PICK p : p = a.PTK OBVIOUS
  <2>5. Air(cf, t, cs, ws, j, p, ts, ta, tq, q) /\ Core(cf, a, t, cs, j)
    BY <1>4, <2>1, <2>2, <2>3, <2>4 DEF Pair
  <2>6. ws = {} BY <1>3, <2>3
  <2>7. Air(cf, t, cs, ws, j, p, ts, v, u, q) BY <1>1, <1>2, <2>5, <2>6, AirGone
  <2>8. r.txKey = t /\ Cands(cf, r) = cs /\ Held(cf, r) = ws BY <1>3, <2>1, <2>2, <2>6 DEF Quietly
  <2>9. r.tset /\ ~r.renew => r.anonce = j /\ r.tptk = PTK(cf.staPmk, j, r.snonce)
    BY <1>4 DEF Pair, Quietly
  <2> QED BY <2>4, <2>5, <2>7, <2>8, <2>9 DEF Pair
<1> QED BY <1>1, <1>2, <1>3, <1>4

\* 4/4 is on the air, and the key it was made with is installed.
LEMMA InstallSends ==
  ASSUME NEW cf, NEW s, NEW x, NEW r, NEW q, NEW q2, NEW a, NEW ts, NEW tq, NEW ta, NEW j, NEW n, NEW l, NEW l2,
         NEW yes, yes = TRUE, Did4of4(x, r, yes), x.tset = s.tset, x.pset = s.pset, x.ptk = s.ptk, x.renew = s.renew,
         x.txcb \subseteq s.txcb, x.mic_errors_seen = s.mic_errors_seen, x.cmTimer = s.cmTimer,
         Waits(cf, s), l2 => l, StaOk(cf, s, q, tq, l, n), IsSeq(tq), IsSeq(ta), tq # <<>>,
         IsSeq(q), q2 = q \o <<s.ptk>>
  PROVE  /\ StaOk(cf, r, q2, Tail(tq), l2, n)
         /\ Pair(cf, s, a, ts, tq, ta, q, j) => Pair(cf, r, a, ts, Tail(tq), Append(ta, Head(tq)), q2, j)
<1>1. PICK u : u = Tail(tq) OBVIOUS
<1>2. PICK v : v = Append(ta, Head(tq)) OBVIOUS
<1>3. PICK k : k = s.ptk OBVIOUS
<1>a. q2 = q \o <<k>> BY <1>3, Zenon
<1>b. Adds(q, k, q2) BY <1>a, InInstall
<1>4. In(k, q2) BY <1>b DEF Adds
<1>5. /\ r.st \in {"GROUP_HANDSHAKE", "COMPLETED"} /\ r.key_install = FALSE /\ r.tset = s.tset
      /\ r.pset = s.pset /\ r.ptk = k /\ r.renew = s.renew /\ r.rxKey = k /\ r.txKey = k
      /\ r.txcb \subseteq s.txcb /\ (r.mic_errors_seen => s.mic_errors_seen)
      /\ r.cmTimer = s.cmTimer \/ r.cmTimer = "none"
  BY <1>3 DEF Did4of4
<1>6. cf.ieSame /\ s.key_install /\ ~s.tset BY DEF Waits
<1>7. /\ s.cmTimer # "stop" /\ (s.mic_errors_seen => n >= 1) /\ (l => s.renew) /\ k # None
  BY <1>3, <1>6 DEF StaOk, Cand
<1>8. ~Waits(cf, r) /\ Cands(cf, r) = {} /\ Held(cf, r) = {} BY <1>5 DEF Waits, Cands, Held
<1>9. StaOk(cf, r, q2, u, l2, n) BY <1>4, <1>5, <1>6, <1>7, <1>8 DEF StaOk
<1>10. ASSUME Pair(cf, s, a, ts, tq, ta, q, j) PROVE Pair(cf, r, a, ts, u, v, q2, j)
  <2>1. PICK t : t = s.txKey OBVIOUS
  <2>2. PICK cs : cs = Cands(cf, s) OBVIOUS
  <2>3. PICK ws : ws = Held(cf, s) OBVIOUS
  <2>4. PICK p : p = a.PTK OBVIOUS
  <2>5. PICK no : no = {} OBVIOUS
  <2>6. Air(cf, t, cs, ws, j, p, ts, ta, tq, q) /\ Core(cf, a, t, cs, j)
    BY <1>10, <2>1, <2>2, <2>3, <2>4 DEF Pair
  <2>7. cs = {k} /\ ws = {k} BY <1>3, <1>6, <2>2, <2>3 DEF Cands, Cand, Held, Waits
  <2>8. p = k /\ Air(cf, k, no, no, j, p, ts, ta, tq, q2)
    <3>1. k # None BY <1>7
    <3> QED BY <1>b, <2>5, <2>6, <2>7, <3>1, AirInstall
  <2>10. Air(cf, k, no, no, j, p, ts, v, u, q2) BY <1>1, <1>2, <2>5, <2>8, AirGone
  <2>11. Core(cf, a, k, no, j) BY <2>4, <2>5, <2>6, <2>8, CoreInstall
  <2>12. r.txKey = k /\ Cands(cf, r) = no /\ Held(cf, r) = no /\ ~r.tset BY <1>5, <1>6, <1>8, <2>5
  <2> QED BY <2>4, <2>10, <2>11, <2>12 DEF Pair
<1> QED BY <1>1, <1>2, <1>9, <1>10

\* The driver reports that a frame went out.
LEMMA StaSends ==
  ASSUME NEW s, NEW q, NEW a, NEW ts, NEW tq, NEW ta, NEW j, NEW n, NEW l, NEW l2, NEW d,
         KeyInv(s, q, l), l2 => l, StaOk(conf, s, q, tq, l, n), IsSeq(tq), IsSeq(ta), tq # <<>>,
         d = eapol_txcb(s)
  PROVE  /\ StaOk(conf, d.s, q \o d.installs, Tail(tq), l2, n)
         /\ Pair(conf, s, a, ts, tq, ta, q, j) =>
              Pair(conf, d.s, a, ts, Tail(tq), Append(ta, Head(tq)), q \o d.installs, j)
<1>0. PICK cf : cf = conf OBVIOUS
<1>1. PICK r : r = d.s OBVIOUS
<1>2. PICK q2 : q2 = q \o d.installs OBVIOUS
<1>3. PICK u : u = Tail(tq) OBVIOUS
<1>4. PICK w : w = Append(ta, Head(tq)) OBVIOUS
<1> SUFFICES /\ StaOk(cf, r, q2, u, l2, n)
             /\ Pair(cf, s, a, ts, tq, ta, q, j) => Pair(cf, r, a, ts, u, w, q2, j)
  BY <1>0, <1>1, <1>2, <1>3, <1>4, Zenon
<1>5. StaOk(cf, s, q, tq, l, n) BY <1>0
<1>6. IsSta(s) /\ IsSeq(q) BY DEF KeyInv
<1>7. q \o <<>> = q BY <1>6, EmptyInstall
<1> DEFINE x == [s EXCEPT !.txcb = @ \ {"4/4"}]
           b == [s EXCEPT !.txcb = @ \ {"2/2"}]
<1>8. /\ IsSta(x) /\ x.st = s.st /\ x.key_install = s.key_install /\ x.tset = s.tset /\ x.pset = s.pset
      /\ x.ptk = s.ptk /\ x.tptk = s.tptk /\ x.renew = s.renew /\ x.anonce = s.anonce /\ x.snonce = s.snonce
      /\ x.install = s.install /\ x.txcb \subseteq s.txcb /\ x.mic_errors_seen = s.mic_errors_seen
      /\ x.cmTimer = s.cmTimer /\ x.rxKey = s.rxKey /\ x.txKey = s.txKey
  BY <1>6 DEF IsSta, Fields
<1>9. /\ IsSta(b) /\ b.st = s.st /\ b.key_install = s.key_install /\ b.tset = s.tset /\ b.pset = s.pset
      /\ b.ptk = s.ptk /\ b.tptk = s.tptk /\ b.renew = s.renew /\ b.anonce = s.anonce /\ b.snonce = s.snonce
      /\ b.install = s.install /\ b.txcb \subseteq s.txcb /\ b.mic_errors_seen = s.mic_errors_seen
      /\ b.cmTimer = s.cmTimer /\ b.rxKey = s.rxKey /\ b.txKey = s.txKey
  BY <1>6 DEF IsSta, Fields
<1>10. \/ /\ s.st = "LAST_HALF" /\ "4/4" \in s.txcb
          /\ d = wpa_supplicant_send_4_of_4_txcallback(x)
       \/ /\ ~(s.st = "LAST_HALF" /\ "4/4" \in s.txcb) /\ s.st = "GROUP_HANDSHAKE"
          /\ d = wpa_supplicant_send_2_of_2_txcallback(b)
       \/ /\ ~(s.st = "LAST_HALF" /\ "4/4" \in s.txcb) /\ d.s = s /\ d.installs = <<>>
  BY DEF eapol_txcb, Did
<1> HIDE DEF x, b
<1>11. Waits(cf, s) => s.st = "LAST_HALF" /\ "4/4" \in s.txcb /\ s.key_install /\ s.install
  BY <1>5 DEF StaOk, Waits
<1>12. ASSUME Quietly(s, r), ~Waits(cf, s), d.installs = <<>>
       PROVE  /\ StaOk(cf, r, q2, u, l2, n)
              /\ Pair(cf, s, a, ts, tq, ta, q, j) => Pair(cf, r, a, ts, u, w, q2, j)
  <2>1. q2 = q BY <1>2, <1>7, <1>12
  <2> QED BY <1>3, <1>4, <1>5, <1>12, <2>1, QuietSends
<1>13. CASE /\ s.st = "LAST_HALF" /\ "4/4" \in s.txcb
            /\ d = wpa_supplicant_send_4_of_4_txcallback(x)
  <2>1. /\ Did4of4(x, r, x.key_install /\ x.install)
        /\ d.installs = (IF x.key_install /\ x.install THEN <<x.ptk>> ELSE <<>>)
    BY <1>1, <1>8, <1>13, Sets4of4
  <2>2. PICK y \in BOOLEAN : y <=> x.key_install /\ x.install OBVIOUS
  <2>3. y = (x.key_install /\ x.install) BY <2>2
  <2>4. Did4of4(x, r, y) BY <2>1, <2>2 DEF Did4of4
  <2>5. CASE Waits(cf, s)
    <3>1. y = TRUE BY <1>8, <1>11, <2>2, <2>5
    <3>2. d.installs = <<s.ptk>> BY <1>8, <1>11, <2>1, <2>5
    <3>3. q2 = q \o <<s.ptk>> BY <1>2, <3>2
    <3>4. /\ StaOk(cf, r, q2, Tail(tq), l2, n)
          /\ Pair(cf, s, a, ts, tq, ta, q, j) => Pair(cf, r, a, ts, Tail(tq), Append(ta, Head(tq)), q2, j)
      BY <1>5, <1>6, <1>8, <2>4, <2>5, <3>1, <3>3, InstallSends
    <3> QED BY <1>3, <1>4, <3>4
  <2>6. CASE ~Waits(cf, s)
    <3>1. ~s.key_install BY <1>0, <1>5, <1>13, <2>6 DEF StaOk, Waits
    <3>2. d.installs = <<>> /\ ~y BY <1>8, <2>1, <2>2, <3>1
    <3>3. Quietly(s, r) BY <1>8, <2>4, <3>1, <3>2 DEF Did4of4, Quietly
    <3> QED BY <1>12, <2>6, <3>2, <3>3
  <2> QED BY <2>5, <2>6
<1>14. CASE /\ ~(s.st = "LAST_HALF" /\ "4/4" \in s.txcb) /\ s.st = "GROUP_HANDSHAKE"
            /\ d = wpa_supplicant_send_2_of_2_txcallback(b)
  <2> DEFINE g == wpa_supplicant_install_gtk(b)
             h == wpa_sm_set_state(g, "COMPLETED")
  <2>1. ~s.key_install BY <1>5, <1>14 DEF StaOk
  <2>2. d.installs = <<>> /\ (d.s = b \/ d.s = h)
    BY <1>14 DEF wpa_supplicant_send_2_of_2_txcallback, wpa_supplicant_key_neg_complete, Did
  <2>3. Moved(b, g) BY <1>9, MovedGtk
  <2> HIDE DEF g
  <2>4. Moved(g, h) /\ h.st = "COMPLETED" BY <2>3, MovedState DEF Moved
  <2> HIDE DEF h
  <2>5. Moved(b, h) BY <2>3, <2>4, MovedTrans
  <2>6. Quietly(s, b) BY <1>9 DEF Quietly
  <2>7. Quietly(s, h) BY <1>9, <2>1, <2>4, <2>5 DEF Quietly, Moved
  <2>8. Quietly(s, r) BY <1>1, <2>2, <2>6, <2>7
  <2> QED BY <1>11, <1>12, <1>14, <2>2, <2>8
<1>15. CASE ~(s.st = "LAST_HALF" /\ "4/4" \in s.txcb) /\ d.s = s /\ d.installs = <<>>
  <2>1. Quietly(s, r) BY <1>1, <1>15 DEF Quietly
  <2> QED BY <1>11, <1>12, <1>15, <2>1
<1> QED BY <1>10, <1>13, <1>14, <1>15

\* Losing the association asks less of the station.
LEMMA StaOkLink ==
  ASSUME NEW cf, NEW s, NEW q, NEW tq, NEW l, NEW l2, NEW n, StaOk(cf, s, q, tq, l, n), l2 => l
  PROVE  StaOk(cf, s, q, tq, l2, n)
BY DEF StaOk

\* The first Michael failure is reported with the frame g.
DidMic(s, r, g) ==
  /\ r.st = "MIC_FAILURE" /\ r.cmTimer = "clr"
  /\ r.anonce = s.anonce /\ r.snonce = s.snonce /\ r.renew = s.renew /\ r.tptk = s.tptk
  /\ r.tset = s.tset /\ r.ptk = s.ptk /\ r.pset = s.pset /\ r.key_install = s.key_install
  /\ r.install = s.install /\ r.txcb = s.txcb /\ r.rxKey = s.rxKey /\ r.txKey = s.txKey
  /\ g.k = "request" /\ g.mic = (IF s.pset THEN s.ptk ELSE None)

\* What wpa_michael_mic_failure does the first time.
LEMMA SetsMic ==
  ASSUME NEW s, IsSta(s), ~s.mic_errors_seen
  PROVE  LET d == wpa_michael_mic_failure(s) IN
         d.installs = <<>> /\ d.leave = FALSE /\ \E g : d.frames = <<g>> /\ DidMic(s, d.s, g)
<1> DEFINE s1 == [s EXCEPT !.reqrc = @ + 1]
           s2 == [s1 EXCEPT !.st = "MIC_FAILURE", !.mic_errors_seen = TRUE, !.cmTimer = "clr"]
           g == wpa_sm_key_request(s)
           d == wpa_michael_mic_failure(s)
<1>1. d.s = s2 /\ d.installs = <<>> /\ d.leave = FALSE /\ d.frames = <<g>>
  BY DEF wpa_michael_mic_failure, Did
<1>2. g.k = "request" /\ g.mic = (IF s.pset THEN s.ptk ELSE None)
  BY DEF wpa_sm_key_request, wpa_eapol_key_send
<1>3. /\ IsSta(s1)
      /\ s1.anonce = s.anonce /\ s1.snonce = s.snonce /\ s1.renew = s.renew /\ s1.tptk = s.tptk
      /\ s1.tset = s.tset /\ s1.ptk = s.ptk /\ s1.pset = s.pset /\ s1.key_install = s.key_install
      /\ s1.install = s.install /\ s1.txcb = s.txcb /\ s1.rxKey = s.rxKey /\ s1.txKey = s.txKey
  BY DEF IsSta, Fields
<1> HIDE DEF s1, g
<1>4. /\ s2.st = "MIC_FAILURE" /\ s2.cmTimer = "clr"
      /\ s2.anonce = s1.anonce /\ s2.snonce = s1.snonce /\ s2.renew = s1.renew /\ s2.tptk = s1.tptk
      /\ s2.tset = s1.tset /\ s2.ptk = s1.ptk /\ s2.pset = s1.pset /\ s2.key_install = s1.key_install
      /\ s2.install = s1.install /\ s2.txcb = s1.txcb /\ s2.rxKey = s1.rxKey /\ s2.txKey = s1.txKey
  BY <1>3 DEF IsSta, Fields
<1> HIDE DEF s2, d
<1>5. DidMic(s, s2, g) BY <1>2, <1>3, <1>4 DEF DidMic
<1> QED BY <1>1, <1>5 DEF d

\* The error report of the first Michael failure: no key is waiting to be
\* installed, and the report is made with the installed one.
LEMMA MicKeeps ==
  ASSUME NEW cf, NEW s, NEW q, NEW a, NEW ts, NEW tq, NEW ta, NEW j, NEW n, NEW n2, NEW r, NEW g, n2 >= 1,
         s.st = "COMPLETED", StaOk(cf, s, q, tq, TRUE, n), Pair(cf, s, a, ts, tq, ta, q, j), IsSeq(tq),
         DidMic(s, r, g)
  PROVE  /\ IsSeq(tq \o <<g>>) /\ StaOk(cf, r, q, tq \o <<g>>, TRUE, n2)
         /\ Pair(cf, r, a, ts, tq \o <<g>>, ta, q, j)
<1>1. PICK t : t = s.txKey OBVIOUS
<1>2. PICK cs : cs = Cands(cf, s) OBVIOUS
<1>3. PICK ws : ws = Held(cf, s) OBVIOUS
<1>4. PICK p : p = a.PTK OBVIOUS
<1>a. Core(cf, a, t, cs, j) /\ Air(cf, t, cs, ws, j, p, ts, ta, tq, q)
  BY <1>1, <1>2, <1>3, <1>4 DEF Pair
<1>b. ~s.tset /\ ~s.key_install /\ s.renew /\ (s.pset => In(s.ptk, q)) BY DEF StaOk
<1>c. cs = {} /\ ws = {} /\ ~Waits(cf, s) /\ ~Waits(cf, r) /\ Cands(cf, r) = cs /\ Held(cf, r) = ws
  BY <1>2, <1>3, <1>b DEF DidMic, Cands, Held, Waits
<1>d. g.k # "2/4" => g.mic = None \/ In(g.mic, q) \/ g.mic \in ws BY <1>b DEF DidMic
<1>e. Answer(cf, g, t, cs, j, p) /\ (g.k = "2/4" => g.mic \in cs) BY DEF Answer, DidMic
<1>f. IsSeq(tq \o <<g>>) /\ Air(cf, t, cs, ws, j, p, ts, ta, tq \o <<g>>, q)
  BY <1>a, <1>d, <1>e, AirSend
<1>g. Pair(cf, r, a, ts, tq \o <<g>>, ta, q, j)
  <2>1. r.txKey = t /\ ~r.tset BY <1>1, <1>b DEF DidMic
  <2> QED BY <1>4, <1>a, <1>c, <1>f, <2>1 DEF Pair
<1>h. StaOk(cf, r, q, tq \o <<g>>, TRUE, n2)
  <2>1. /\ s.rxKey = s.txKey /\ (s.txKey = None \/ In(s.txKey, q)) /\ (~cf.ieSame => "4/4" \notin s.txcb)
    BY <1>c DEF StaOk
  <2> QED BY <1>b, <1>c, <2>1 DEF StaOk, DidMic
<1> QED BY <1>f, <1>g, <1>h

\* The timer of the first Michael failure.
LEMMA TimerSame ==
  ASSUME NEW cf, NEW s, NEW r, NEW q, NEW a, NEW ts, NEW tq, NEW ta, NEW j, NEW n, NEW l, IsSta(s),
         r = wpa_supplicant_clr_countermeasures(s), StaOk(cf, s, q, tq, l, n)
  PROVE  StaOk(cf, r, q, tq, l, n) /\ (Pair(cf, s, a, ts, tq, ta, q, j) => Pair(cf, r, a, ts, tq, ta, q, j))
<1> DEFINE z == [s EXCEPT !.mic_errors_seen = FALSE, !.cmTimer = "none"]
<1>1. /\ z.st = s.st /\ z.anonce = s.anonce /\ z.snonce = s.snonce /\ z.renew = s.renew /\ z.tptk = s.tptk
      /\ z.tset = s.tset /\ z.ptk = s.ptk /\ z.pset = s.pset /\ z.key_install = s.key_install
      /\ z.install = s.install /\ z.txcb = s.txcb /\ z.rxKey = s.rxKey /\ z.txKey = s.txKey
      /\ z.mic_errors_seen = FALSE /\ z.cmTimer = "none"
  BY DEF IsSta, Fields
<1>2. r = z BY DEF wpa_supplicant_clr_countermeasures
<1> HIDE DEF z
<1>3. Waits(cf, z) = Waits(cf, s) /\ Cand(z) = Cand(s) BY <1>1 DEF Waits, Cand
<1>4. Cands(cf, z) = Cands(cf, s) BY <1>1, <1>3 DEF Cands
<1>5. Held(cf, z) = Held(cf, s) BY <1>1, <1>3 DEF Held
<1>6. StaOk(cf, z, q, tq, l, n) BY <1>1, <1>3 DEF StaOk
<1>7. Pair(cf, s, a, ts, tq, ta, q, j) => Pair(cf, z, a, ts, tq, ta, q, j)
  BY <1>1, <1>4, <1>5 DEF Pair
<1> QED BY <1>2, <1>6, <1>7

\* A new association: the access point has no key, and 1/4 is on the air.
LEMMA JoinKeeps ==
  ASSUME NEW s, NEW r, NEW q, NEW tq, NEW e, NEW j, NEW n, NEW l, NEW b, NEW a, IsSta(s), r = wpa_set_bss(s),
         StaOk(conf, s, q, tq, l, n), tq = <<>>, e = <<>>, Ready(b, j),
         IsAp(a), a.out = <<>>, \A f \in ApFields \ {"out"} : a[f] = b[f]
  PROVE  StaOk(conf, r, q, tq, TRUE, n) /\ Pair(conf, r, a, b.out, tq, e, q, j)
<1>0. PICK cf : cf = conf OBVIOUS
<1> DEFINE z == [s EXCEPT !.rxrc = 0, !.renew = TRUE, !.eapol1_count = 0]
<1>1. /\ z.st = s.st /\ z.anonce = s.anonce /\ z.snonce = s.snonce /\ z.renew = TRUE /\ z.tptk = s.tptk
      /\ z.tset = s.tset /\ z.ptk = s.ptk /\ z.pset = s.pset /\ z.key_install = s.key_install
      /\ z.install = s.install /\ z.txcb = s.txcb /\ z.rxKey = s.rxKey /\ z.txKey = s.txKey
      /\ z.mic_errors_seen = s.mic_errors_seen /\ z.cmTimer = s.cmTimer
  BY DEF IsSta, Fields
<1>2. r = z BY DEF wpa_set_bss
<1> HIDE DEF z
<1>3. ~Waits(cf, s) BY <1>0 DEF StaOk
<1>4. ~Waits(cf, z) /\ Cand(z) = Cand(s) BY <1>1, <1>3 DEF Waits, Cand
<1>5. Cands(cf, z) = {} /\ Held(cf, z) = {} BY <1>1, <1>4 DEF Cands, Held, Waits
<1>6. StaOk(cf, z, q, tq, TRUE, n)
  <2>1. StaOk(cf, s, q, tq, l, n) BY <1>0
  <2> QED BY <1>1, <1>3, <1>4, <2>1 DEF StaOk
<1>7. PICK t : t = z.txKey OBVIOUS
<1>8. PICK no : no = {} OBVIOUS
<1>9. Core(cf, a, t, no, j) /\ a.PTK = None
  <2>1. Core(conf, a, t, {}, j) /\ a.PTK = None BY ReadyCore
  <2> QED BY <1>0, <1>8, <2>1
<1>10. IsSeq(b.out) /\ \A i \in DOMAIN b.out : Sent(b.out[i], None, j)
  BY DEF Ready, Idle, Outs
<1>11. PICK ts : ts = b.out OBVIOUS
<1>12. PICK p : p = a.PTK OBVIOUS
<1>13. Downs(t, no, j, p, ts)
  <2>1. \A i \in DOMAIN ts : Down(ts[i], t, no, j, p)
    BY <1>10, <1>11 DEF Down, Sent
  <2> QED BY <1>8, <2>1 DEF Downs
<1>14. Ups(cf, t, no, no, j, p, e, tq, q) BY DEF Ups
<1>15. Waiting(no, p, ts) BY <1>8 DEF Waiting
<1>16. Air(cf, t, no, no, j, p, ts, e, tq, q) BY <1>10, <1>11, <1>13, <1>14, <1>15 DEF Air
<1>17. Pair(cf, z, a, ts, tq, e, q, j)
  <2>1. z.txKey = t /\ Cands(cf, z) = no /\ Held(cf, z) = no BY <1>5, <1>7, <1>8
  <2> QED BY <1>1, <1>9, <1>12, <1>16, <2>1 DEF Pair
<1> QED BY <1>0, <1>2, <1>6, <1>11, <1>17
----------------------------------------------------------------------------
\* The invariant, of a station with an association (l) or without.
Agree(cf, s, a, ts, tq, ta, q, l, j, n) ==
  /\ IsSeq(tq) /\ StaOk(cf, s, q, tq, l, n)
  /\ l => IsSeq(ta) /\ Pair(cf, s, a, ts, tq, ta, q, j)

\* The bounds are counters.
Bounds == [joins : Nat, lost : Nat, mics : Nat]

\* It is kept until the second Michael failure.
AgreeInv ==
  /\ bound \in Bounds
  /\ bound.mics < 2 => Agree(conf, sta, ap, toSta, txq, toAp, txed, link, bound.joins, bound.mics)

\* The queue without frames.
LEMMA NoFrames == IsSeq(<<>>) BY DEF IsSeq

\* The handlers of the access point.
LEMMA ApAgree ==
  ASSUME KeyInv(sta, txed, link), link, AgreeInv, bound.mics < 2,
         NEW r, ApBecomes(r),
         \/ toAp # <<>> /\ r = wpa_receive(ap, Head(toAp)) /\ toAp' = IF link' THEN Tail(toAp) ELSE <<>>
         \/ r = hostap_eapol_resend_process(ap) /\ toAp' = IF link' THEN toAp ELSE <<>>
  PROVE  Agree(conf, sta, ap', toSta', txq, toAp', txed, link', bound.joins, bound.mics)
<1>0. PICK j : j = bound.joins OBVIOUS
<1>1. PICK t : t = sta.txKey OBVIOUS
<1>2. PICK cs : cs = Cands(conf, sta) OBVIOUS
<1>3. PICK ws : ws = Held(conf, sta) OBVIOUS
<1>5. PICK n : n = bound.mics OBVIOUS
<1>6. /\ IsSeq(txq) /\ StaOk(conf, sta, txed, txq, link, n) /\ IsSeq(toAp)
      /\ Pair(conf, sta, ap, toSta, txq, toAp, txed, j)
  BY <1>0, <1>5 DEF Agree, AgreeInv
<1>7. Apart(t, cs, ws) /\ \A k \in cs : ~In(k, txed)
  BY <1>1, <1>2, <1>3, <1>6, Derived
<1>8. Core(conf, ap, t, cs, j) /\ Air(conf, t, cs, ws, j, ap.PTK, toSta, toAp, txq, txed)
  BY <1>1, <1>2, <1>3, <1>6 DEF Pair
<1>9. /\ ap' = [r EXCEPT !.out = <<>>, !.kick = FALSE] /\ link' = (link /\ ~r.kick)
      /\ toSta' = IF r.kick THEN <<>> ELSE toSta \o r.out
  BY DEF ApBecomes
<1>10. link' <=> ~r.kick BY <1>9
<1>11. StaOk(conf, sta, txed, txq, link', n)
  <2>1. PICK l2 : l2 = link' OBVIOUS
  <2>2. l2 => link OBVIOUS
  <2>3. StaOk(conf, sta, txed, txq, l2, n) BY <1>6, <2>2, StaOkLink
  <2> QED BY <2>1, <2>3
<1>12. CASE r.kick BY <1>0, <1>5, <1>6, <1>10, <1>11, <1>12 DEF Agree
<1>13. CASE ~r.kick
  <2>1. PICK ta : ta = toAp' OBVIOUS
  <2>2. ApDid(r, t, cs, ws, j, toSta, ta, txq, txed) /\ IsSeq(ta)
    <3>1. CASE toAp # <<>> /\ r = wpa_receive(ap, Head(toAp)) /\ toAp' = IF link' THEN Tail(toAp) ELSE <<>>
      <4>1. ta = Tail(toAp) BY <1>10, <1>13, <2>1, <3>1
      <4>2. ApDid(r, t, cs, ws, j, toSta, Tail(toAp), txq, txed) BY <1>6, <1>7, <1>8, <3>1, ApGets
      <4>3. IsSeq(Tail(toAp)) BY <1>6, <3>1, TailFacts
      <4> QED BY <4>1, <4>2, <4>3
    <3>2. CASE r = hostap_eapol_resend_process(ap) /\ toAp' = IF link' THEN toAp ELSE <<>>
      <4>1. ta = toAp BY <1>10, <1>13, <2>1, <3>2
      <4>2. ApDid(r, t, cs, ws, j, toSta, toAp, txq, txed) BY <1>7, <1>8, <3>2, ApResends
      <4> QED BY <1>6, <4>1, <4>2
    <3> QED BY <3>1, <3>2
  <2>3. IsAp(r) BY <2>2 DEF ApDid
  <2>4. Emptied(ap', r) BY <1>9, <2>3, EmptiedIs
  <2>5. PICK a : a = ap' OBVIOUS
  <2>6. PICK ts : ts = toSta \o r.out OBVIOUS
  <2>7. Core(conf, a, t, cs, j) /\ Air(conf, t, cs, ws, j, a.PTK, ts, ta, txq, txed)
    <3>1. Emptied(a, r) BY <2>4, <2>5
    <3>2. Core(conf, a, t, cs, j) /\ Air(conf, t, cs, ws, j, a.PTK, toSta \o r.out, ta, txq, txed)
      BY <1>13, <2>2, <3>1, Zenon DEF ApDid
    <3> QED BY <2>6, <3>2
  <2>8. toSta' = ts BY <1>9, <1>13, <2>6
  <2>9. Pair(conf, sta, a, ts, txq, ta, txed, j)
    BY <1>1, <1>2, <1>3, <1>6, <2>7 DEF Pair
  <2> QED BY <1>0, <1>5, <1>6, <1>11, <2>1, <2>2, <2>5, <2>8, <2>9 DEF Agree
<1> QED BY <1>12, <1>13
\* A step that leaves the bounds alone.
LEMMA AgreeSame ==
  ASSUME AgreeInv, bound' = bound, conf' = conf,
         bound.mics < 2 => Agree(conf, sta', ap', toSta', txq', toAp', txed', link', bound.joins, bound.mics)
  PROVE  AgreeInv'
BY DEF AgreeInv

\* The station receives a frame (wpa_sm_rx_eapol).
LEMMA AgreeGets ==
  ASSUME InstallInv, AgreeInv, StaReceive
  PROVE  AgreeInv'
<1>1. link /\ toSta # <<>> /\ StaBecomes(wpa_sm_rx_eapol(sta, Head(toSta))) /\ toSta' = Tail(toSta)
      /\ UNCHANGED <<conf, ap, toAp, bound>>
  BY DEF StaReceive
<1> SUFFICES ASSUME bound.mics < 2
             PROVE  Agree(conf, sta', ap', toSta', txq', toAp', txed', link', bound.joins, bound.mics)
  BY <1>1, AgreeSame
<1>2. PICK d : d = wpa_sm_rx_eapol(sta, Head(toSta)) OBVIOUS
<1>3. /\ sta' = d.s /\ txq' = txq \o d.frames /\ txed' = txed \o d.installs /\ link' = (link /\ ~d.leave)
  BY <1>1, <1>2 DEF StaBecomes
<1>4. PICK j : j = bound.joins OBVIOUS
<1>5. PICK n : n = bound.mics OBVIOUS
<1>6. PICK l : l = TRUE OBVIOUS
<1>7. /\ IsSeq(txq) /\ StaOk(conf, sta, txed, txq, link, n) /\ IsSeq(toAp)
      /\ Pair(conf, sta, ap, toSta, txq, toAp, txed, j)
  BY <1>1, <1>4, <1>5 DEF Agree, AgreeInv
<1>8. KeyInv(sta, txed, TRUE)
  <2>1. KeyInv(sta, txed, l) BY <1>1, LinkOnly DEF InstallInv
  <2> QED BY <1>6, <2>1
<1>9. StaOk(conf, sta, txed, txq, TRUE, n)
  <2>1. StaOk(conf, sta, txed, txq, l, n) BY <1>1, <1>7, StaOkLink
  <2> QED BY <1>6, <2>1
<1>10. Leaves(d, txed, ap, Tail(toSta), txq, toAp, j, n)
  BY <1>1, <1>2, <1>7, <1>8, <1>9, StaGets
<1>11. PICK w : w = txq \o d.frames OBVIOUS
<1>12. PICK u : u = Tail(toSta) OBVIOUS
<1>13. PICK r : r = d.s OBVIOUS
<1>14. d.installs = <<>> /\ IsSeq(w) BY <1>10, <1>11, Zenon DEF Leaves
<1>15. txed' = txed
  <2>1. txed \o <<>> = txed BY EmptyInstall DEF InstallInv, KeyInv
  <2> QED BY <1>3, <1>14, <2>1
<1>16. \/ d.leave = TRUE /\ StaOk(conf, r, txed, w, FALSE, n)
       \/ d.leave = FALSE /\ StaOk(conf, r, txed, w, TRUE, n) /\ Pair(conf, r, ap, u, w, toAp, txed, j)
  BY <1>10, <1>11, <1>12, <1>13, Zenon DEF Leaves
<1>17. Agree(conf, r, ap, u, w, toAp, txed, link', j, n)
  <2>1. CASE d.leave = TRUE
    <3>1. link' = FALSE BY <1>3, <2>1
    <3> QED BY <1>14, <1>16, <2>1, <3>1 DEF Agree
  <2>2. CASE d.leave = FALSE
    <3>1. link' = TRUE BY <1>1, <1>3, <2>2
    <3> QED BY <1>7, <1>14, <1>16, <2>2, <3>1 DEF Agree
  <2> QED BY <1>16, <2>1, <2>2
<1> QED BY <1>1, <1>3, <1>4, <1>5, <1>11, <1>12, <1>13, <1>15, <1>17

\* The driver sends a frame of the station and calls eapol_txcb.
LEMMA AgreeSends ==
  ASSUME InstallInv, AgreeInv, StaTransmit
  PROVE  AgreeInv'
<1>1. PICK d : d = eapol_txcb(sta) OBVIOUS
<1>2. /\ txq # <<>> /\ toAp' = (IF link THEN Append(toAp, Head(txq)) ELSE toAp)
      /\ sta' = d.s /\ txq' = Tail(txq) /\ txed' = txed \o d.installs /\ link' = (link /\ ~d.leave)
      /\ UNCHANGED <<conf, ap, toSta, bound>>
  BY <1>1 DEF StaTransmit
<1> SUFFICES ASSUME bound.mics < 2
             PROVE  Agree(conf, sta', ap', toSta', txq', toAp', txed', link', bound.joins, bound.mics)
  BY <1>2, AgreeSame
<1>3. PICK j : j = bound.joins OBVIOUS
<1>4. PICK n : n = bound.mics OBVIOUS
<1>5. PICK l2 : l2 = link' OBVIOUS
<1>6. l2 => link BY <1>2, <1>5
<1>7. /\ IsSeq(txq) /\ StaOk(conf, sta, txed, txq, link, n)
      /\ link => IsSeq(toAp) /\ Pair(conf, sta, ap, toSta, txq, toAp, txed, j)
  BY <1>3, <1>4 DEF Agree, AgreeInv
<1>8. KeyInv(sta, txed, link) BY DEF InstallInv
<1>9. PICK ta : ta = IF link THEN toAp ELSE txq OBVIOUS
<1>10. IsSeq(ta) BY <1>7, <1>9
<1>11. PICK f : f = Append(ta, Head(txq)) OBVIOUS
<1>12. PICK u : u = Tail(txq) OBVIOUS
<1>13. PICK r : r = d.s OBVIOUS
<1>14. PICK q : q = txed \o d.installs OBVIOUS
<1>15. /\ StaOk(conf, r, q, u, l2, n)
       /\ Pair(conf, sta, ap, toSta, txq, ta, txed, j) => Pair(conf, r, ap, toSta, u, f, q, j)
  <2>1. /\ StaOk(conf, d.s, txed \o d.installs, Tail(txq), l2, n)
        /\ Pair(conf, sta, ap, toSta, txq, ta, txed, j) =>
             Pair(conf, d.s, ap, toSta, Tail(txq), Append(ta, Head(txq)), txed \o d.installs, j)
    BY <1>1, <1>2, <1>6, <1>7, <1>8, <1>10, StaSends
  <2> QED BY <1>11, <1>12, <1>13, <1>14, <2>1, Zenon
<1>16. IsSeq(u) BY <1>2, <1>7, <1>12, TailFacts
<1>17. IsSeq(f) BY <1>10, <1>11, AppendFrame
<1>18. Agree(conf, r, ap, toSta, u, toAp', q, l2, j, n)
  <2>1. CASE ~l2 BY <1>15, <1>16, <2>1 DEF Agree
  <2>2. CASE l2
    <3>1. ta = toAp /\ toAp' = f BY <1>2, <1>6, <1>9, <1>11, <2>2
    <3>2. Pair(conf, sta, ap, toSta, txq, ta, txed, j) BY <1>6, <1>7, <2>2, <3>1
    <3> QED BY <1>15, <1>16, <1>17, <3>1, <3>2 DEF Agree
  <2> QED BY <2>1, <2>2
<1> QED BY <1>2, <1>3, <1>4, <1>5, <1>12, <1>13, <1>14, <1>18

\* A bound counted up.
LEMMA BoundUp ==
  ASSUME bound \in Bounds, NEW b \in {"joins", "lost", "mics"}, bound' = Up(b)
  PROVE  /\ bound' \in Bounds /\ bound'[b] = bound[b] + 1
         /\ \A c \in {"joins", "lost", "mics"} \ {b} : bound'[c] = bound[c]
BY DEF Bounds, Up

\* The first Michael failure.  After the second, KeysAgree says nothing.
LEMMA AgreeMic ==
  ASSUME InstallInv, AgreeInv, StaMicFailure
  PROVE  AgreeInv'
<1>1. /\ link /\ sta.st = "COMPLETED" /\ StaBecomes(wpa_michael_mic_failure(sta)) /\ bound' = Up("mics")
      /\ UNCHANGED <<conf, ap, toSta, toAp>>
  BY DEF StaMicFailure
<1>2. /\ bound \in Bounds /\ bound' \in Bounds /\ bound'.mics = bound.mics + 1 /\ bound'.joins = bound.joins
  BY <1>1, BoundUp DEF AgreeInv
<1>3. PICK n2 : n2 = bound'.mics OBVIOUS
<1>4. PICK j : j = bound.joins OBVIOUS
<1> SUFFICES ASSUME n2 < 2
             PROVE  Agree(conf, sta', ap, toSta, txq', toAp, txed', link', j, n2)
  BY <1>1, <1>2, <1>3, <1>4 DEF AgreeInv
<1>5. PICK n : n = bound.mics OBVIOUS
<1>6. n = 0 /\ n2 = 1 /\ bound.mics < 2 BY <1>2, <1>3, <1>5 DEF Bounds
<1>7. /\ IsSeq(txq) /\ StaOk(conf, sta, txed, txq, link, n) /\ IsSeq(toAp)
      /\ Pair(conf, sta, ap, toSta, txq, toAp, txed, j)
  BY <1>1, <1>4, <1>5, <1>6 DEF Agree, AgreeInv
<1>8. IsSta(sta) BY DEF InstallInv, KeyInv
<1>9. ~sta.mic_errors_seen BY <1>6, <1>7 DEF StaOk
<1>10. PICK l : l = TRUE OBVIOUS
<1>11. StaOk(conf, sta, txed, txq, TRUE, n)
  <2>1. StaOk(conf, sta, txed, txq, l, n) BY <1>1, <1>7, StaOkLink
  <2> QED BY <1>10, <2>1
<1>12. PICK d : d = wpa_michael_mic_failure(sta) OBVIOUS
<1>13. d.installs = <<>> /\ d.leave = FALSE /\ \E g : d.frames = <<g>> /\ DidMic(sta, d.s, g)
  BY <1>8, <1>9, <1>12, SetsMic
<1>14. PICK g : d.frames = <<g>> /\ DidMic(sta, d.s, g) BY <1>13
<1>15. /\ sta' = d.s /\ txq' = txq \o d.frames /\ txed' = txed \o d.installs /\ link' = (link /\ ~d.leave)
  BY <1>1, <1>12 DEF StaBecomes
<1>16. PICK r : r = d.s OBVIOUS
<1>17. PICK w : w = txq \o <<g>> OBVIOUS
<1>18. IsSeq(w) /\ StaOk(conf, r, txed, w, TRUE, n2) /\ Pair(conf, r, ap, toSta, w, toAp, txed, j)
  <2>1. n2 >= 1 BY <1>6
  <2>2. DidMic(sta, r, g) BY <1>14, <1>16
  <2>3. /\ IsSeq(txq \o <<g>>) /\ StaOk(conf, r, txed, txq \o <<g>>, TRUE, n2)
        /\ Pair(conf, r, ap, toSta, txq \o <<g>>, toAp, txed, j)
    BY <1>1, <1>7, <1>11, <2>1, <2>2, MicKeeps
  <2> QED BY <1>17, <2>3, Zenon
<1>19. txed' = txed
  <2>1. txed \o <<>> = txed BY EmptyInstall DEF InstallInv, KeyInv
  <2> QED BY <1>13, <1>15, <2>1
<1>20. link' = TRUE /\ sta' = r /\ txq' = w BY <1>1, <1>13, <1>14, <1>15, <1>16, <1>17
<1> QED BY <1>7, <1>18, <1>19, <1>20 DEF Agree

\* The timer of the countermeasures, armed by the first Michael failure.
LEMMA AgreeTimer ==
  ASSUME InstallInv, AgreeInv, StaCmTimer
  PROVE  AgreeInv'
<1>1. /\ sta' = CASE sta.cmTimer = "clr" -> wpa_supplicant_clr_countermeasures(sta)
                  [] sta.cmTimer = "stop" -> wpa_supplicant_stop_countermeasures(sta)
                  [] OTHER -> sta
      /\ UNCHANGED <<conf, ap, link, toSta, txq, toAp, txed, bound>>
  BY DEF StaCmTimer
<1> SUFFICES ASSUME bound.mics < 2
             PROVE  Agree(conf, sta', ap, toSta, txq, toAp, txed, link, bound.joins, bound.mics)
  BY <1>1, AgreeSame
<1>2. PICK j : j = bound.joins OBVIOUS
<1>3. PICK n : n = bound.mics OBVIOUS
<1>4. /\ IsSeq(txq) /\ StaOk(conf, sta, txed, txq, link, n)
      /\ link => IsSeq(toAp) /\ Pair(conf, sta, ap, toSta, txq, toAp, txed, j)
  BY <1>2, <1>3 DEF Agree, AgreeInv
<1>5. sta.cmTimer # "stop" BY <1>4 DEF StaOk
<1>6. IsSta(sta) BY DEF InstallInv, KeyInv
<1>7. PICK r : r = sta' OBVIOUS
<1>8. r = sta \/ r = wpa_supplicant_clr_countermeasures(sta) BY <1>1, <1>5, <1>7
<1>9. /\ StaOk(conf, r, txed, txq, link, n)
      /\ link => Pair(conf, r, ap, toSta, txq, toAp, txed, j)
  <2>1. CASE r = sta BY <1>4, <2>1
  <2>2. CASE r = wpa_supplicant_clr_countermeasures(sta)
    <3>1. /\ StaOk(conf, r, txed, txq, link, n)
          /\ Pair(conf, sta, ap, toSta, txq, toAp, txed, j) => Pair(conf, r, ap, toSta, txq, toAp, txed, j)
      BY <1>4, <1>6, <2>2, TimerSame
    <3> QED BY <1>4, <3>1
  <2> QED BY <1>8, <2>1, <2>2
<1> QED BY <1>2, <1>3, <1>4, <1>7, <1>9 DEF Agree

\* A new association (wpa_set_bss; wpa_ap_join, wpa_auth_sta_associated).
LEMMA AgreeJoins ==
  ASSUME InstallInv, AgreeInv, Associate
  PROVE  AgreeInv'
<1>1. PICK j : j = bound.joins + 1 OBVIOUS
<1>2. PICK b : b = wpa_auth_sta_associated(NewSm(j)) OBVIOUS
<1>3. /\ ~link /\ txq = <<>> /\ sta' = wpa_set_bss(sta) /\ ap' = [b EXCEPT !.out = <<>>] /\ toSta' = b.out
      /\ link' = TRUE /\ toAp' = <<>> /\ bound' = Up("joins") /\ UNCHANGED <<conf, txq, txed>>
  BY <1>1, <1>2 DEF Associate
<1>4. /\ bound' \in Bounds /\ bound'.mics = bound.mics /\ bound'.joins = j
  BY <1>1, <1>3, BoundUp DEF AgreeInv
<1>5. PICK n : n = bound.mics OBVIOUS
<1> SUFFICES ASSUME n < 2
             PROVE  Agree(conf, sta', ap', toSta', txq, toAp', txed, link', j, n)
  BY <1>3, <1>4, <1>5 DEF AgreeInv
<1>6. IsSeq(txq) /\ StaOk(conf, sta, txed, txq, link, n)
  BY <1>5 DEF Agree, AgreeInv
<1>7. IsSta(sta) BY DEF InstallInv, KeyInv
<1>8. Ready(b, j)
  <2>1. Ready(wpa_auth_sta_associated(NewSm(j)), j) BY StartReady
  <2> QED BY <1>2, <2>1
<1>9. IsAp(b) BY <1>8 DEF Ready, Idle
<1>10. PICK a : a = ap' OBVIOUS
<1>11. IsAp(a) /\ a.out = <<>> /\ \A f \in ApFields \ {"out"} : a[f] = b[f]
  <2> DEFINE z == [b EXCEPT !.out = <<>>]
  <2>1. Shape(z) /\ z.out = <<>> /\ \A f \in ApFields \ {"out"} : z[f] = b[f]
    BY <1>9 DEF IsAp, Shape, ApFields
  <2>2. "TimeoutCtr" \in ApFields \ {"out"} BY DEF ApFields
  <2>3. z.TimeoutCtr = b.TimeoutCtr BY <2>1, <2>2
  <2>4. IsAp(z) BY <1>9, <2>1, <2>3 DEF IsAp
  <2>5. a = z BY <1>3, <1>10
  <2> QED BY <2>1, <2>4, <2>5, Zenon
<1>12. PICK r : r = sta' OBVIOUS
<1>13. r = wpa_set_bss(sta) BY <1>3, <1>12
<1>14. PICK e : e = toAp' OBVIOUS
<1>15. e = <<>> BY <1>3, <1>14
<1>16. PICK ts : ts = b.out OBVIOUS
<1> HIDE <1>3
<1>17. StaOk(conf, r, txed, txq, TRUE, n) /\ Pair(conf, r, a, ts, txq, e, txed, j)
  <2>1. txq = <<>> BY <1>3
  <2>2. StaOk(conf, r, txed, txq, TRUE, n) /\ Pair(conf, r, a, b.out, txq, e, txed, j)
    BY <1>6, <1>7, <1>8, <1>11, <1>13, <1>15, <2>1, JoinKeeps
  <2> QED BY <1>16, <2>2
<1>18. IsSeq(e) BY <1>15, NoFrames
<1>19. Agree(conf, r, a, ts, txq, e, txed, TRUE, j, n) BY <1>6, <1>17, <1>18 DEF Agree
<1>20. link' = TRUE /\ toSta' = ts BY <1>3, <1>16
<1> QED BY <1>10, <1>12, <1>14, <1>19, <1>20

\* A frame is lost.
LEMMA AgreeLoses ==
  ASSUME InstallInv, AgreeInv, LoseToSta \/ LoseToAp
  PROVE  AgreeInv'
<1>1. /\ bound' = Up("lost") /\ UNCHANGED <<conf, sta, txq, txed, ap, link>>
      /\ \/ toSta # <<>> /\ toSta' = Tail(toSta) /\ toAp' = toAp
         \/ toAp # <<>> /\ toAp' = Tail(toAp) /\ toSta' = toSta
  BY DEF LoseToSta, LoseToAp, StaUnchanged
<1>2. /\ bound' \in Bounds /\ bound'.mics = bound.mics /\ bound'.joins = bound.joins
  BY <1>1, BoundUp DEF AgreeInv
<1>3. PICK j : j = bound.joins OBVIOUS
<1>4. PICK n : n = bound.mics OBVIOUS
<1> SUFFICES ASSUME n < 2
             PROVE  Agree(conf, sta, ap, toSta', txq, toAp', txed, link, j, n)
  BY <1>1, <1>2, <1>3, <1>4 DEF AgreeInv
<1>5. /\ IsSeq(txq) /\ StaOk(conf, sta, txed, txq, link, n)
      /\ link => IsSeq(toAp) /\ Pair(conf, sta, ap, toSta, txq, toAp, txed, j)
  BY <1>3, <1>4 DEF Agree, AgreeInv
<1>6. PICK u : u = toSta' OBVIOUS
<1>7. PICK v : v = toAp' OBVIOUS
<1>8. ASSUME link PROVE IsSeq(v) /\ Pair(conf, sta, ap, u, txq, v, txed, j)
  <2>0. IsSeq(toAp) /\ Pair(conf, sta, ap, toSta, txq, toAp, txed, j) BY <1>5, <1>8
  <2>1. CASE toSta # <<>> /\ toSta' = Tail(toSta) /\ toAp' = toAp
    <3>1. Pair(conf, sta, ap, Tail(toSta), txq, toAp, txed, j) BY <2>0, <2>1, PairTail
    <3> QED BY <1>6, <1>7, <2>0, <2>1, <3>1
  <2>2. CASE toAp # <<>> /\ toAp' = Tail(toAp) /\ toSta' = toSta
    <3>1. Pair(conf, sta, ap, toSta, txq, Tail(toAp), txed, j) BY <2>0, <2>2, PairLost
    <3>2. IsSeq(Tail(toAp)) BY <2>0, <2>2, TailFacts
    <3> QED BY <1>6, <1>7, <2>2, <3>1, <3>2
  <2> QED BY <1>1, <2>1, <2>2
<1> QED BY <1>5, <1>6, <1>7, <1>8 DEF Agree

\* Every step of the two sides and of what is between them keeps the agreement.
LEMMA AgreeStep == InstallInv /\ AgreeInv /\ [Next]_vars => AgreeInv'
<1> SUFFICES ASSUME InstallInv, AgreeInv, [Next]_vars PROVE AgreeInv'
  OBVIOUS
<1>1. CASE Associate BY <1>1, AgreeJoins
<1>2. CASE ApRemove
  <2>1. ~link /\ UNCHANGED <<conf, sta, link, txq, txed, bound>> BY <1>2 DEF ApRemove
  <2>2. PICK j : j = bound.joins OBVIOUS
  <2>3. PICK n : n = bound.mics OBVIOUS
  <2>4. bound.mics < 2 => IsSeq(txq) /\ StaOk(conf, sta, txed, txq, link, n) BY <2>3 DEF Agree, AgreeInv
  <2>5. bound.mics < 2 => Agree(conf, sta', ap', toSta', txq', toAp', txed', link', j, n)
    BY <2>1, <2>4 DEF Agree
  <2> QED BY <2>1, <2>2, <2>3, <2>5, AgreeSame
<1>3. CASE StaReceive BY <1>3, AgreeGets
<1>4. CASE StaTransmit BY <1>4, AgreeSends
<1>5. CASE StaMicFailure BY <1>5, AgreeMic
<1>6. CASE StaCmTimer BY <1>6, AgreeTimer
<1>7. CASE ApReceive
  <2>1. PICK r : r = wpa_receive(ap, Head(toAp)) OBVIOUS
  <2>2. /\ link /\ toAp # <<>> /\ ApBecomes(r) /\ toAp' = (IF link' THEN Tail(toAp) ELSE <<>>)
        /\ UNCHANGED <<sta, txq, txed, conf, bound>>
    BY <1>7, <2>1 DEF ApReceive, StaUnchanged
  <2>3. KeyInv(sta, txed, link) BY DEF InstallInv
  <2>4. bound.mics < 2 => Agree(conf, sta, ap', toSta', txq, toAp', txed, link', bound.joins, bound.mics)
    BY <2>1, <2>2, <2>3, ApAgree
  <2> QED BY <2>2, <2>4, AgreeSame
<1>8. CASE ApTimeout
  <2>1. PICK r : r = hostap_eapol_resend_process(ap) OBVIOUS
  <2>2. /\ link /\ ApBecomes(r) /\ toAp' = (IF link' THEN toAp ELSE <<>>)
        /\ UNCHANGED <<sta, txq, txed, conf, bound>>
    BY <1>8, <2>1 DEF ApTimeout, StaUnchanged
  <2>3. KeyInv(sta, txed, link) BY DEF InstallInv
  <2>4. bound.mics < 2 => Agree(conf, sta, ap', toSta', txq, toAp', txed, link', bound.joins, bound.mics)
    BY <2>1, <2>2, <2>3, ApAgree
  <2> QED BY <2>2, <2>4, AgreeSame
<1>9. CASE LoseToSta \/ LoseToAp BY <1>9, AgreeLoses
<1>10. CASE UNCHANGED vars BY <1>10 DEF vars, AgreeInv
<1> QED BY <1>1, <1>2, <1>3, <1>4, <1>5, <1>6, <1>7, <1>8, <1>9, <1>10 DEF Next

\* Before the first association there is nothing to agree on.
LEMMA AgreeFirst == Init => AgreeInv
<1> SUFFICES ASSUME Init PROVE AgreeInv
  OBVIOUS
<1>1. /\ sta.st = "INACTIVE" /\ sta.renew = FALSE /\ sta.tset = FALSE /\ sta.key_install = FALSE
      /\ sta.pset = FALSE /\ sta.txcb = {} /\ sta.rxKey = None /\ sta.txKey = None
      /\ sta.mic_errors_seen = FALSE /\ sta.cmTimer = "none"
  BY DEF Init
<1>2. link = FALSE /\ txq = <<>> BY DEF Init
<1>3. bound \in Bounds BY DEF Init, Bounds
<1>4. PICK j : j = bound.joins OBVIOUS
<1>5. PICK n : n = bound.mics OBVIOUS
<1>6. IsSeq(txq) BY <1>2, NoFrames
<1>7. ~Waits(conf, sta) BY <1>1 DEF Waits
<1>8. StaOk(conf, sta, txed, txq, link, n) BY <1>1, <1>2, <1>7 DEF StaOk
<1>9. Agree(conf, sta, ap, toSta, txq, toAp, txed, link, j, n) BY <1>2, <1>6, <1>8 DEF Agree
<1> QED BY <1>3, <1>4, <1>5, <1>9 DEF AgreeInv

\* Both invariants together are inductive.
HandshakeInv == InstallInv /\ AgreeInv

\* A station that is COMPLETED waits for no key, so the access point's PTK can
\* only be the key the station has installed.
LEMMA AgreeKeys == AgreeInv => KeysAgree
<1> SUFFICES ASSUME AgreeInv, link, sta.st = "COMPLETED", ap.ptkSt = "PTKINITDONE", bound.mics < 2
             PROVE  sta.txKey = ap.key /\ sta.rxKey = ap.key
  BY DEF KeysAgree, Finished, SameKeys
<1>1. PICK j : j = bound.joins OBVIOUS
<1>2. PICK n : n = bound.mics OBVIOUS
<1>3. /\ StaOk(conf, sta, txed, txq, link, n) /\ Pair(conf, sta, ap, toSta, txq, toAp, txed, j)
  BY <1>1, <1>2 DEF Agree, AgreeInv
<1>4. ~sta.tset /\ ~sta.key_install BY <1>3 DEF StaOk
<1>5. Cands(conf, sta) = {} /\ ~Waits(conf, sta) BY <1>4 DEF Cands, Waits
<1>6. sta.rxKey = sta.txKey BY <1>3, <1>5 DEF StaOk
<1>7. Core(conf, ap, sta.txKey, Cands(conf, sta), j) BY <1>3 DEF Pair
<1>8. ap.key = ap.PTK /\ ap.PTK = sta.txKey BY <1>5, <1>7 DEF Core
<1> QED BY <1>6, <1>8

\* When the station is COMPLETED and the access point has come to PTKINITDONE
\* in the same association, both have installed the same pairwise key, for
\* sending and for receiving, whatever was lost, sent again or answered late
\* (wpa.c wpa_supplicant_process_1_of_4, wpa_supplicant_send_4_of_4_txcallback;
\* wpa_auth.c wpa_receive, PTKCALCNEGOTIATING, PTKINITDONE).
THEOREM KeysAgreed == Spec => []KeysAgree
<1>1. Init => HandshakeInv
  <2>1. Init => InstallInv BY InstallFirst
  <2> QED BY <2>1, AgreeFirst DEF HandshakeInv
<1>2. HandshakeInv /\ [Next]_vars => HandshakeInv'
  BY KeyStep, AgreeStep DEF HandshakeInv, InstallInv
<1>3. HandshakeInv => KeysAgree BY AgreeKeys DEF HandshakeInv
<1> QED BY <1>1, <1>2, <1>3, PTL DEF Spec
=============================================================================
