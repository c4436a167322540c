---------------------------- MODULE WpaHandshake ----------------------------
(***************************************************************************)
(* The 4-way handshake and the group handshake of the station side         *)
(* (rsn_supp/wpa.c) and of the access-point side (ap/wpa_auth.c), run      *)
(* against each other: two devices with this code, one of them the access  *)
(* point.  A PTK is the record of what it is derived from, so that two     *)
(* PTKs are equal exactly when the PMK and both nonces are.  A MIC is the  *)
(* PTK it was made with.  A GTK is its generation.  Both sides run in the  *)
(* Wi-Fi task of their device: a handler is one step.                      *)
(***************************************************************************)
EXTENDS Integers, Sequences, FiniteSets

CONSTANTS
    UpdateCount,     \* dot11RSNAConfigPairwiseUpdateCount, ...GroupUpdateCount
    Window,          \* RSNA_MAX_EAPOL_RETRIES, the replay counters remembered
    MaxEapolRetries, \* MAX_EAPOL_RETRIES of the station
    Protos,          \* which of WPA and RSN the pair may use
    MaxJoins,        \* bound: associations, for each protocol
    MaxLost,         \* bound: frames lost on the air
    MaxMics          \* bound: Michael failures

ASSUME WpaBounds ==
    /\ {UpdateCount, Window, MaxEapolRetries} \subseteq Nat \ {0}
    /\ {MaxLost, MaxMics} \subseteq Nat
    /\ Protos \subseteq {"WPA", "RSN"}
    /\ MaxJoins \in [Protos -> Nat]

VARIABLES
    conf,   \* what the two sides were configured with
    sta,    \* gWpaSm of the station and the keys in its driver
    ap,     \* the wpa_state_machine of this station, or NoSm
    gtk,    \* group->GTK[GN], as a generation
    link,   \* associated: frames pass
    toSta,  \* frames on the air to the station
    txq,    \* frames the station has handed to its driver
    toAp,   \* frames on the air to the access point
    txed,   \* history: PTKs installed for transmission, one entry per install
    bound   \* how much of each bound is used

vars == <<conf, sta, ap, gtk, link, toSta, txq, toAp, txed, bound>>

None == [none |-> TRUE]
NoSm == [none |-> TRUE]
NoFrame == [none |-> TRUE]
Fresh(n) == n + 1

(***************************************************************************)
(* The station.                                                            *)
(***************************************************************************)
\* wpa_derive_ptk: the PTK of a PMK and two nonces.
PTK(pmk, a, s) == [pmk |-> pmk, anonce |-> a, snonce |-> s]

\* A reply of the station: 2/4, 4/4 and 2/2 repeat the replay counter of the
\* message answered and carry a MIC under the given PTK.
wpa_eapol_key_send(k, rc, nonce, mic) ==
    [k |-> k, rc |-> rc, nonce |-> nonce, mic |-> mic]

wpa_supplicant_send_2_of_4(m, s) ==
    wpa_eapol_key_send("2/4", m.rc, s.snonce, s.tptk)

wpa_supplicant_send_4_of_4(m, s) == wpa_eapol_key_send("4/4", m.rc, 0, s.ptk)

wpa_supplicant_send_2_of_2(m, s) == wpa_eapol_key_send("2/2", m.rc, 0, s.ptk)

\* What a handler of the station does: its new state, the frames it hands to
\* the driver, the PTKs it installs for transmission, whether it leaves.
Did(s, frames, installs, leave) ==
    [s |-> s, frames |-> frames, installs |-> installs, leave |-> leave]

wpa_sm_set_state(s, st) ==
    [s EXCEPT !.st = st,
              !.cmTimer = IF s.st = "MIC_FAILURE" THEN "none" ELSE @]

\* Mutant: a new handshake does not ask for its keys to be installed.
wpa_supplicant_process_1_of_4_NoInstall(s, m) ==
    LET sn  == IF s.renew THEN Fresh(s.snonce) ELSE s.snonce
        s2  == [wpa_sm_set_state(s, "FIRST_HALF") EXCEPT
                   !.snonce = sn, !.renew = FALSE, !.tset = TRUE, !.pset = FALSE,
                   !.tptk = PTK(conf.staPmk, m.nonce, sn), !.anonce = m.nonce]
    IN  Did(s2, <<wpa_supplicant_send_2_of_4(m, s2)>>, <<>>, FALSE)

wpa_supplicant_process_1_of_4(s, m) ==
    LET sn  == IF s.renew THEN Fresh(s.snonce) ELSE s.snonce
        key == PTK(conf.staPmk, m.nonce, sn)
        s2  == [wpa_sm_set_state(s, "FIRST_HALF") EXCEPT
                   !.snonce = sn, !.renew = FALSE, !.tptk = key, !.tset = TRUE,
                   !.pset = FALSE, !.key_install = TRUE, !.anonce = m.nonce]
    IN  Did(s2, <<wpa_supplicant_send_2_of_4(m, s2)>>, <<>>, FALSE)

\* set_tx 0 gives the driver the key for reception, 2 for transmission too.
\* A new TKIP key clears the count of Michael errors (wpa_sm_set_key); with
\* another cipher there are none.
wpa_supplicant_install_ptk(s, set_tx) ==
    IF set_tx = 0 THEN [s EXCEPT !.rxKey = s.ptk, !.mic_errors_seen = FALSE]
                  ELSE [s EXCEPT !.rxKey = s.ptk, !.txKey = s.ptk, !.mic_errors_seen = FALSE]

\* Not installed again while the driver holds it: wpa_supplicant_gtk_in_use.
wpa_supplicant_install_gtk(s) == [s EXCEPT !.gtkKey = s.gd]

wpa_supplicant_key_neg_complete(s) == wpa_sm_set_state(s, "COMPLETED")

\* The information element of 3/4 is that of the beacon, and the nonce that
\* of 1/4: else the station leaves (report_ie_mismatch, failed).
wpa_supplicant_validate_ie(s, m) == conf.ieSame /\ s.anonce = m.nonce

wpa_supplicant_process_3_of_4(s, m) ==
    LET s1 == wpa_sm_set_state(s, "LAST_HALF")
        s2 == [s1 EXCEPT !.renew = TRUE, !.install = TRUE, !.gd = m.gtk]
        s3 == IF s2.key_install THEN wpa_supplicant_install_ptk(s2, 0) ELSE s2
        s4 == [s3 EXCEPT !.txcb = @ \cup {"4/4"}]
    IN  IF ~wpa_supplicant_validate_ie(s, m) THEN Did(s1, <<>>, <<>>, TRUE)
        ELSE Did(s4, <<wpa_supplicant_send_4_of_4(m, s4)>>, <<>>, FALSE)

\* Mutant: key_install is not reset when the keys have been installed.
wpa_supplicant_send_4_of_4_txcallback_NoReset(s) ==
    LET s1 == wpa_supplicant_install_ptk(s, 2)
        s2 == wpa_sm_set_state(s1, "GROUP_HANDSHAKE")
    IN  IF ~s.install \/ ~s.key_install THEN Did(s, <<>>, <<>>, FALSE)
        ELSE Did(IF s.gd = 0 THEN s2
                 ELSE wpa_supplicant_key_neg_complete(
                          wpa_supplicant_install_gtk(s2)),
                 <<>>, <<s.ptk>>, FALSE)

wpa_supplicant_send_4_of_4_txcallback(s) ==
    LET tx == s.key_install /\ s.install
        s1 == IF tx THEN wpa_supplicant_install_ptk(s, 2) ELSE s
        s2 == wpa_sm_set_state(s1, "GROUP_HANDSHAKE")
        s3 == IF s.gd = 0 THEN s2
              ELSE wpa_supplicant_key_neg_complete(
                     IF s.key_install THEN wpa_supplicant_install_gtk(s2)
                                      ELSE s2)
    IN  Did([s3 EXCEPT !.key_install = FALSE], <<>>,
            IF tx THEN <<s.ptk>> ELSE <<>>, FALSE)

wpa_supplicant_process_1_of_2(s, m) ==
    LET s1 == [wpa_sm_set_state(s, "GROUP_HANDSHAKE") EXCEPT
                  !.gd = m.gtk, !.install = FALSE, !.txcb = @ \cup {"2/2"}]
    IN  Did(s1, <<wpa_supplicant_send_2_of_2(m, s1)>>, <<>>, FALSE)

wpa_supplicant_send_2_of_2_txcallback(s) ==
    IF s.gd = 0 THEN Did(s, <<>>, <<>>, TRUE)
    ELSE Did(wpa_supplicant_key_neg_complete(wpa_supplicant_install_gtk(s)),
             <<>>, <<>>, FALSE)

\* The PTK of the running handshake is tried first, and becomes the PTK when
\* the MIC is right.
MicOk(s, m) == (s.tset /\ m.mic = s.tptk) \/ (s.pset /\ m.mic = s.ptk)

wpa_supplicant_verify_eapol_key_mic(s, m) ==
    [s EXCEPT !.tset = @ /\ m.mic # s.tptk,
              !.pset = @ \/ (s.tset /\ m.mic = s.tptk),
              !.ptk = IF s.tset /\ m.mic = s.tptk THEN s.tptk ELSE @,
              !.rxrc = m.rc, !.reqrc = m.rc]

\* It is the MIC that tells 3/4 from 1/4; a group message needs one.
wpa_sm_rx_eapol(s, m) ==
    LET v == wpa_supplicant_verify_eapol_key_mic(s, m)
        c == [s EXCEPT !.eapol1_count = @ + 1]
        withMic == m.mic # None
    IN  IF s.rxrc >= m.rc \/ (withMic /\ ~MicOk(s, m)) \/ (~withMic /\ m.k = "1/2")
          THEN Did(s, <<>>, <<>>, FALSE)
        ELSE IF m.k = "1/2" THEN wpa_supplicant_process_1_of_2(v, m)
        ELSE IF withMic THEN wpa_supplicant_process_3_of_4(v, m)
        ELSE IF c.eapol1_count > MaxEapolRetries THEN Did(c, <<>>, <<>>, TRUE)
        ELSE wpa_supplicant_process_1_of_4(c, m)

\* An error report, sent under the PTK in use if there is one.
wpa_sm_key_request(s) ==
    wpa_eapol_key_send("request", s.reqrc, 0, IF s.pset THEN s.ptk ELSE None)

\* The first failure starts a 60 s timer; the second within it starts the
\* countermeasures, and their own timer.
wpa_michael_mic_failure(s) ==
    LET s1 == [s EXCEPT !.reqrc = @ + 1]
        s2 == IF s.mic_errors_seen
                THEN [s1 EXCEPT !.st = "TKIP_COUNTERMEASURES",
                                !.countermeasures = TRUE, !.cmTimer = "stop"]
                ELSE [s1 EXCEPT !.st = "MIC_FAILURE",
                                !.mic_errors_seen = TRUE, !.cmTimer = "clr"]
    IN  Did(s2, <<wpa_sm_key_request(s)>>, <<>>, FALSE)

wpa_supplicant_clr_countermeasures(s) ==
    [s EXCEPT !.mic_errors_seen = FALSE, !.cmTimer = "none"]

wpa_supplicant_stop_countermeasures(s) ==
    [wpa_supplicant_clr_countermeasures(s) EXCEPT
        !.countermeasures = FALSE, !.st = "DISCONNECTED",
        !.mic_errors_seen = @ /\ ~s.countermeasures]

\* The driver reports that an EAPOL frame went out, without saying which one.
eapol_txcb(s) ==
    IF s.st = "LAST_HALF" /\ "4/4" \in s.txcb
      THEN wpa_supplicant_send_4_of_4_txcallback([s EXCEPT !.txcb = @ \ {"4/4"}])
    ELSE IF s.st = "GROUP_HANDSHAKE" /\ "2/2" \in s.txcb
      THEN wpa_supplicant_send_2_of_2_txcallback([s EXCEPT !.txcb = @ \ {"2/2"}])
    ELSE Did(s, <<>>, <<>>, s.st = "TKIP_COUNTERMEASURES")

\* A new association: the counters start again, the flags and keys stay.
wpa_set_bss(s) == [s EXCEPT !.rxrc = 0, !.renew = TRUE, !.eapol1_count = 0]

(***************************************************************************)
(* The access point: the three state machines of wpa_auth.c, run by        *)
(* wpa_sm_step until none of them moves.  "out" collects the frames sent   *)
(* and "kick" a call of wpa_sta_disconnect.                                *)
(***************************************************************************)
Ptk_Enter(s, st) == [s EXCEPT !.ptkSt = st, !.changed = TRUE]

wpa_remove_ptk(s) ==
    [s EXCEPT !.PTK_valid = FALSE, !.PTK = None, !.key = None,
              !.pairwise_set = FALSE]

Invalid(ctrs) == [i \in DOMAIN ctrs |-> [ctrs[i] EXCEPT !.valid = FALSE]]

\* The search ends at the first counter that is not valid.
wpa_replay_counter_valid(ctrs, rc) ==
    \E i \in DOMAIN ctrs : ctrs[i].c = rc /\ \A j \in 1..i : ctrs[j].valid

wpa_replay_counter_mark_invalid(ctrs, rc) ==
    [i \in DOMAIN ctrs |->
        IF ctrs[i].c = rc THEN [ctrs[i] EXCEPT !.valid = FALSE] ELSE ctrs[i]]

\* The counters shift by one, the newest is used; a frame that needs a MIC is
\* not sent without a PTK; the timer is armed in either case (wpa_send_eapol).
__wpa_send_eapol(s, k, withMic, nonce, g) ==
    LET rc   == s.key_replay[1].c + 1
        win  == [i \in 1..Window |-> IF i = 1 THEN [c |-> rc, valid |-> TRUE]
                                     ELSE s.key_replay[i - 1]]
        msg  == [k |-> k, rc |-> rc, nonce |-> nonce, gtk |-> g,
                 mic |-> IF withMic THEN s.PTK ELSE None]
    IN  [s EXCEPT !.key_replay = win,
                  !.out = IF withMic /\ ~s.PTK_valid THEN @
                          ELSE Append(@, msg)]

\* Mutant: the timer that sends the frame again is not armed.
wpa_send_eapol_NoTimer(s, k, withMic, nonce, g) ==
    __wpa_send_eapol(s, k, withMic, nonce, g)

wpa_send_eapol(s, k, withMic, nonce, g) ==
    [__wpa_send_eapol(s, k, withMic, nonce, g) EXCEPT !.resend_eapol = "armed"]

\* SM_STATE(WPA_PTK, ...)
PTK_INITIALIZE(s) ==
    [wpa_remove_ptk(Ptk_Enter(s, "INITIALIZE")) EXCEPT
        !.changed = ~s.Init, !.TimeoutCtr = 0,
        !.PInitAKeys = @ /\ conf.proto # "WPA"]

PTK_DISCONNECT(s) ==
    [Ptk_Enter(s, "DISCONNECT") EXCEPT !.Disconnect = FALSE, !.kick = TRUE]

PTK_DISCONNECTED(s) == Ptk_Enter(s, "DISCONNECTED")

PTK_AUTHENTICATION(s) ==
    [Ptk_Enter(s, "AUTHENTICATION") EXCEPT
        !.PTK = None, !.PTK_valid = FALSE, !.AuthenticationRequest = FALSE]

\* A nonce nobody has used; the number of the association stands for it.
PTK_AUTHENTICATION2(s) ==
    [Ptk_Enter(s, "AUTHENTICATION2") EXCEPT
        !.ANonce = s.assoc, !.TimeoutCtr = 0]

PTK_INITPSK(s) ==
    [Ptk_Enter(s, "INITPSK") EXCEPT !.req_replay = 0]

PTK_PTKSTART(s) ==
    LET s1 == [Ptk_Enter(s, "PTKSTART") EXCEPT
                  !.PTKRequest = FALSE, !.TimeoutEvt = FALSE, !.TimeoutCtr = @ + 1]
    IN  IF s1.TimeoutCtr > UpdateCount THEN s1
        ELSE wpa_send_eapol(s1, "1/4", FALSE, s1.ANonce, 0)

PTK_PTKCALCNEGOTIATING(s) ==
    LET s1  == [Ptk_Enter(s, "PTKCALCNEGOTIATING") EXCEPT
                   !.EAPOLKeyReceived = FALSE, !.update_snonce = FALSE]
        key == PTK(conf.apPmk, s.ANonce, s.SNonce)
    IN  IF s.last_rx.mic # key THEN s1
        ELSE [s1 EXCEPT !.MICVerified = TRUE, !.PTK = key, !.PTK_valid = TRUE]

PTK_PTKCALCNEGOTIATING2(s) ==
    [Ptk_Enter(s, "PTKCALCNEGOTIATING2") EXCEPT !.TimeoutCtr = 0]

\* RSN sends the GTK in 3/4, WPA in the group handshake.
PTK_PTKINITNEGOTIATING(s) ==
    LET s1 == [Ptk_Enter(s, "PTKINITNEGOTIATING") EXCEPT
                  !.TimeoutEvt = FALSE, !.TimeoutCtr = @ + 1]
    IN  IF s1.TimeoutCtr > UpdateCount THEN s1
        ELSE wpa_send_eapol(s1, "3/4", TRUE, s1.ANonce,
                            IF conf.proto = "RSN" THEN gtk ELSE 0)

PTK_PTKINITDONE(s) ==
    [Ptk_Enter(s, "PTKINITDONE") EXCEPT
        !.EAPOLKeyReceived = FALSE, !.key = s.PTK, !.pairwise_set = TRUE,
        !.PInitAKeys = @ \/ conf.proto = "WPA"]

PairwiseReceived(s) ==
    s.EAPOLKeyReceived /\ ~s.EAPOLKeyRequest /\ s.EAPOLKeyPairwise

\* SM_STEP(WPA_PTK)
PTK_Step(s) ==
    CASE s.Init -> PTK_INITIALIZE(s)
      [] s.Disconnect /\ ~s.Init -> PTK_DISCONNECT(s)
      [] s.AuthenticationRequest /\ ~s.Init /\ ~s.Disconnect ->
           PTK_AUTHENTICATION(s)
      [] s.PTKRequest /\ ~s.Init /\ ~s.Disconnect /\ ~s.AuthenticationRequest ->
           PTK_PTKSTART(s)
      [] OTHER ->
         CASE s.ptkSt = "DISCONNECT" -> PTK_DISCONNECTED(s)
           [] s.ptkSt = "DISCONNECTED" -> PTK_INITIALIZE(s)
           [] s.ptkSt = "AUTHENTICATION" -> PTK_AUTHENTICATION2(s)
           [] s.ptkSt = "AUTHENTICATION2" -> PTK_INITPSK(s)
           [] s.ptkSt = "INITPSK" -> PTK_PTKSTART(s)
           [] s.ptkSt = "PTKSTART" /\ PairwiseReceived(s) ->
                PTK_PTKCALCNEGOTIATING(s)
           [] s.ptkSt = "PTKSTART" /\ ~PairwiseReceived(s)
                /\ s.TimeoutCtr > UpdateCount -> PTK_DISCONNECT(s)
           [] s.ptkSt = "PTKSTART" /\ ~PairwiseReceived(s) /\ s.TimeoutEvt
                /\ s.TimeoutCtr <= UpdateCount -> PTK_PTKSTART(s)
           [] s.ptkSt = "PTKCALCNEGOTIATING" /\ s.MICVerified ->
                PTK_PTKCALCNEGOTIATING2(s)
           [] s.ptkSt = "PTKCALCNEGOTIATING" /\ ~s.MICVerified
                /\ PairwiseReceived(s) -> PTK_PTKCALCNEGOTIATING(s)
           [] s.ptkSt = "PTKCALCNEGOTIATING" /\ ~s.MICVerified
                /\ ~PairwiseReceived(s) /\ s.TimeoutEvt -> PTK_PTKSTART(s)
           [] s.ptkSt = "PTKCALCNEGOTIATING2" -> PTK_PTKINITNEGOTIATING(s)
           [] s.ptkSt = "PTKINITNEGOTIATING" /\ s.update_snonce ->
                PTK_PTKCALCNEGOTIATING(s)
           [] s.ptkSt = "PTKINITNEGOTIATING" /\ ~s.update_snonce
                /\ PairwiseReceived(s) /\ s.MICVerified -> PTK_PTKINITDONE(s)
           [] s.ptkSt = "PTKINITNEGOTIATING" /\ ~s.update_snonce
                /\ ~(PairwiseReceived(s) /\ s.MICVerified)
                /\ s.TimeoutCtr > UpdateCount -> PTK_DISCONNECT(s)
           [] s.ptkSt = "PTKINITNEGOTIATING" /\ ~s.update_snonce
                /\ ~(PairwiseReceived(s) /\ s.MICVerified) /\ s.TimeoutEvt
                /\ s.TimeoutCtr <= UpdateCount -> PTK_PTKINITNEGOTIATING(s)
           [] OTHER -> s

\* SM_STATE(WPA_PTK_GROUP, ...)
Group_Enter(s, st) == [s EXCEPT !.grpSt = st, !.changed = TRUE]

GROUP_IDLE(s) ==
    [Group_Enter(s, "IDLE") EXCEPT !.changed = ~s.Init, !.GTimeoutCtr = 0]

GROUP_REKEYNEGOTIATING(s) ==
    LET s1 == [Group_Enter(s, "REKEYNEGOTIATING") EXCEPT !.GTimeoutCtr = @ + 1]
        s2 == [s1 EXCEPT !.PInitAKeys = @ /\ conf.proto # "WPA",
                         !.TimeoutEvt = FALSE]
    IN  IF s1.GTimeoutCtr > UpdateCount THEN s1
        ELSE wpa_send_eapol(s2, "1/2", TRUE, 0, gtk)

GROUP_REKEYESTABLISHED(s) ==
    [Group_Enter(s, "REKEYESTABLISHED") EXCEPT
        !.EAPOLKeyReceived = FALSE, !.GTimeoutCtr = 0]

GROUP_KEYERROR(s) == [Group_Enter(s, "KEYERROR") EXCEPT !.Disconnect = TRUE]

GroupReceived(s) ==
    /\ s.EAPOLKeyReceived /\ ~s.EAPOLKeyRequest /\ ~s.EAPOLKeyPairwise
    /\ s.MICVerified

\* SM_STEP(WPA_PTK_GROUP).  No station is ever marked for an update of its
\* group key, so a machine leaves IDLE only for the group handshake of WPA.
GROUP_Step(s) ==
    CASE s.Init -> GROUP_IDLE(s)
      [] ~s.Init /\ s.grpSt = "IDLE" /\ conf.proto = "WPA" /\ s.PInitAKeys ->
           GROUP_REKEYNEGOTIATING(s)
      [] ~s.Init /\ s.grpSt = "REKEYNEGOTIATING" /\ GroupReceived(s) ->
           GROUP_REKEYESTABLISHED(s)
      [] ~s.Init /\ s.grpSt = "REKEYNEGOTIATING" /\ ~GroupReceived(s)
           /\ s.GTimeoutCtr > UpdateCount -> GROUP_KEYERROR(s)
      [] ~s.Init /\ s.grpSt = "REKEYNEGOTIATING" /\ ~GroupReceived(s)
           /\ s.GTimeoutCtr <= UpdateCount /\ s.TimeoutEvt ->
           GROUP_REKEYNEGOTIATING(s)
      [] ~s.Init /\ s.grpSt \in {"KEYERROR", "REKEYESTABLISHED"} -> GROUP_IDLE(s)
      [] OTHER -> s

\* One step applied to the result of another (x is evaluated once).
After(Op(_), x) == CHOOSE y \in {Op(z) : z \in {x}} : TRUE

\* The loop of wpa_sm_step.  A pass that changes nothing ends it; twelve are
\* more than any run of the machines takes.
Pass(r) ==
    IF ~r.changed THEN r
    ELSE After(GROUP_Step, After(PTK_Step, [r EXCEPT !.changed = FALSE]))
Passes(r) == After(Pass, After(Pass, After(Pass, r)))

wpa_sm_step(s) ==
    After(Passes, After(Passes, After(Passes,
        After(Passes, [s EXCEPT !.changed = TRUE]))))

NewSm(assoc) ==
    [ptkSt |-> "INITIALIZE", grpSt |-> "IDLE", changed |-> FALSE, Init |-> FALSE,
     Disconnect |-> FALSE, AuthenticationRequest |-> FALSE, PTKRequest |-> FALSE,
     assoc |-> assoc, ANonce |-> 0, SNonce |-> 0, PTK |-> None,
     PTK_valid |-> FALSE, key |-> None, pairwise_set |-> FALSE,
     TimeoutCtr |-> 0, GTimeoutCtr |-> 0, TimeoutEvt |-> FALSE,
     resend_eapol |-> "off", EAPOLKeyReceived |-> FALSE,
     EAPOLKeyPairwise |-> FALSE, EAPOLKeyRequest |-> FALSE,
     MICVerified |-> FALSE, update_snonce |-> FALSE, PInitAKeys |-> FALSE,
     req_replay |-> 0, last_rx |-> NoFrame,
     key_replay |-> [i \in 1..Window |-> [c |-> 0, valid |-> FALSE]],
     prev_key_replay |-> [i \in 1..Window |-> [c |-> 0, valid |-> FALSE]],
     out |-> <<>>, kick |-> FALSE]

\* Initialised once with Init set, then started: AUTHENTICATION up to 1/4.
wpa_auth_sta_associated(s) ==
    LET Start(r) == wpa_sm_step([r EXCEPT !.Init = FALSE,
                                         !.AuthenticationRequest = TRUE])
    IN  After(Start, wpa_sm_step([s EXCEPT !.Init = TRUE]))

wpa_request_new_ptk(s) == [s EXCEPT !.PTKRequest = TRUE, !.PTK_valid = FALSE]

\* The message is one the machine waits for: by its replay counter, or as a
\* 2/4 with a new SNonce that answers a 1/4 sent before 3/4.
LateSnonce(s, m) ==
    /\ m.k = "2/4" /\ ~wpa_replay_counter_valid(s.key_replay, m.rc)
    /\ wpa_replay_counter_valid(s.prev_key_replay, m.rc)
    /\ s.ptkSt = "PTKINITNEGOTIATING" /\ s.SNonce # m.nonce

Expected(s, m) ==
    /\ m.k # "request" =>
         wpa_replay_counter_valid(s.key_replay, m.rc) \/ LateSnonce(s, m)
    /\ m.k = "request" => m.rc > s.req_replay \/ s.req_replay = 0
    /\ m.k = "2/4" => \/ s.ptkSt \in {"PTKSTART", "PTKCALCNEGOTIATING"}
                      \/ s.ptkSt = "PTKINITNEGOTIATING" /\ LateSnonce(s, m)
    /\ m.k = "4/4" => s.ptkSt = "PTKINITNEGOTIATING" /\ s.PTK_valid
    /\ m.k = "2/2" => s.grpSt = "REKEYNEGOTIATING" /\ s.PTK_valid
    /\ m.mic # None

\* A 2/4 whose information element is not that of the association ends it.
\* A message that passes: the MIC is checked when there is a PTK and stops
\* the timer; the counters are used up, those of 2/4 are remembered.
wpa_receive(s, m) ==
    LET late   == LateSnonce(s, m)
        check  == s.PTK_valid /\ ~late
        s1 == [s EXCEPT !.update_snonce = @ \/ late, !.MICVerified = check,
                        !.resend_eapol = IF check THEN "off" ELSE @,
                        !.prev_key_replay = IF late
                           THEN wpa_replay_counter_mark_invalid(@, m.rc) ELSE @]
        used == wpa_replay_counter_mark_invalid(s1.key_replay, m.rc)
        s2 == IF m.k = "request"
                THEN [wpa_request_new_ptk(s1) EXCEPT !.req_replay = m.rc]
                ELSE [s1 EXCEPT !.prev_key_replay = IF m.k = "2/4" THEN used
                                   ELSE [i \in 1..Window |->
                                           [c |-> 0, valid |-> FALSE]],
                                !.key_replay = Invalid(used)]
    IN  IF ~Expected(s, m) THEN s
        ELSE IF m.k = "2/4" /\ ~conf.assocSame THEN [s EXCEPT !.kick = TRUE]
        ELSE IF (check /\ m.mic # s.PTK) \/ (m.k = "request" /\ ~check)
          THEN [s EXCEPT !.MICVerified = FALSE]
        ELSE After(wpa_sm_step, [s2 EXCEPT
                !.last_rx = m, !.EAPOLKeyReceived = TRUE, !.SNonce = m.nonce,
                !.EAPOLKeyPairwise = m.k # "2/2",
                !.EAPOLKeyRequest = m.k = "request"])

hostap_eapol_resend_process(s) ==
    After(wpa_sm_step, [s EXCEPT !.TimeoutEvt = TRUE, !.resend_eapol = "off"])

(***************************************************************************)
(* The steps.                                                              *)
(***************************************************************************)
Up(b) == [bound EXCEPT ![b] = @ + 1]

\* The access point's machine after a handler: its frames go on the air, and
\* a disconnect takes the link away with everything on it.
ApBecomes(s) ==
    /\ ap' = [s EXCEPT !.out = <<>>, !.kick = FALSE]
    /\ link' = (link /\ ~s.kick)
    /\ toSta' = IF s.kick THEN <<>> ELSE toSta \o s.out

StaBecomes(d) ==
    /\ sta' = d.s
    /\ txq' = txq \o d.frames
    /\ txed' = txed \o d.installs
    /\ link' = (link /\ ~d.leave)

StaUnchanged == UNCHANGED <<sta, txq, txed>>

\* The driver associates: wpa_sta_connect here, wpa_ap_join on the other side,
\* which frees the machine of an earlier association.
Associate ==
    /\ ~link /\ txq = <<>> /\ bound.joins < MaxJoins[conf.proto]
    /\ sta' = wpa_set_bss(sta)
    /\ \E s \in {wpa_auth_sta_associated(NewSm(bound.joins + 1))} :
         /\ ap' = [s EXCEPT !.out = <<>>]
         /\ toSta' = s.out
    /\ link' = TRUE /\ toAp' = <<>>
    /\ bound' = Up("joins")
    /\ UNCHANGED <<conf, gtk, txq, txed>>

\* wpa_ap_remove, by the driver once the station is gone: the timer is
\* disarmed and the machine freed.
ApRemove ==
    /\ ~link /\ ap # NoSm
    /\ ap' = NoSm /\ toSta' = <<>> /\ toAp' = <<>>
    /\ UNCHANGED <<conf, sta, gtk, link, txq, txed, bound>>

StaReceive ==
    /\ link /\ toSta # <<>>
    /\ \E d \in {wpa_sm_rx_eapol(sta, Head(toSta))} : StaBecomes(d)
    /\ toSta' = Tail(toSta)
    /\ UNCHANGED <<conf, ap, gtk, toAp, bound>>

\* The driver sends the first frame of its queue and calls eapol_txcb.  The
\* callback comes before any frame received after the transmission.
StaTransmit ==
    /\ txq # <<>>
    /\ toAp' = IF link THEN Append(toAp, Head(txq)) ELSE toAp
    /\ \E d \in {eapol_txcb(sta)} :
         /\ sta' = d.s /\ txq' = Tail(txq)
         /\ txed' = txed \o d.installs /\ link' = (link /\ ~d.leave)
    /\ UNCHANGED <<conf, ap, gtk, toSta, bound>>

\* The hardware reports a Michael failure of a received data frame.
StaMicFailure ==
    /\ link /\ sta.st = "COMPLETED" /\ conf.proto = "WPA"
    /\ bound.mics < MaxMics
    /\ StaBecomes(wpa_michael_mic_failure(sta))
    /\ bound' = Up("mics")
    /\ UNCHANGED <<conf, ap, gtk, toSta, toAp>>

StaCmTimer ==
    /\ sta' = CASE sta.cmTimer = "clr" -> wpa_supplicant_clr_countermeasures(sta)
                [] sta.cmTimer = "stop" -> wpa_supplicant_stop_countermeasures(sta)
                [] OTHER -> sta
    /\ sta.cmTimer # "none"
    /\ UNCHANGED <<conf, ap, gtk, link, toSta, txq, toAp, txed, bound>>

ApReceive ==
    /\ link /\ ap # NoSm /\ toAp # <<>>
    /\ \E s \in {wpa_receive(ap, Head(toAp))} : ApBecomes(s)
    /\ toAp' = IF link' THEN Tail(toAp) ELSE <<>>
    /\ StaUnchanged /\ UNCHANGED <<conf, gtk, bound>>

\* resend_eapol_handle posts the timer's work to the Wi-Fi task.
ApTimeout ==
    /\ link /\ ap # NoSm /\ ap.resend_eapol = "armed"
    /\ \E s \in {hostap_eapol_resend_process(ap)} : ApBecomes(s)
    /\ toAp' = IF link' THEN toAp ELSE <<>>
    /\ StaUnchanged /\ UNCHANGED <<conf, gtk, bound>>

LoseToSta ==
    /\ toSta # <<>> /\ bound.lost < MaxLost
    /\ toSta' = Tail(toSta) /\ bound' = Up("lost")
    /\ StaUnchanged /\ UNCHANGED <<conf, ap, gtk, link, toAp>>

LoseToAp ==
    /\ toAp # <<>> /\ bound.lost < MaxLost
    /\ toAp' = Tail(toAp) /\ bound' = Up("lost")
    /\ StaUnchanged /\ UNCHANGED <<conf, ap, gtk, link, toSta>>

Init ==
    /\ conf \in [proto : Protos, ieSame : BOOLEAN, assocSame : BOOLEAN,
                 staPmk : {"psk", "other"}, apPmk : {"psk"}]
    /\ conf.ieSame \/ conf.staPmk = "psk"
    /\ conf.assocSame \/ (conf.ieSame /\ conf.staPmk = "psk")
    /\ sta = [st |-> "INACTIVE", anonce |-> 0, snonce |-> 0,
              renew |-> FALSE, tptk |-> None, tset |-> FALSE, ptk |-> None,
              pset |-> FALSE, rxrc |-> 0, reqrc |-> 0, eapol1_count |-> 0,
              key_install |-> FALSE, install |-> FALSE, gd |-> 0, txcb |-> {},
              rxKey |-> None, txKey |-> None, gtkKey |-> 0,
              countermeasures |-> FALSE, mic_errors_seen |-> FALSE,
              cmTimer |-> "none"]
    /\ ap = NoSm /\ gtk = 1 /\ link = FALSE
    /\ toSta = <<>> /\ txq = <<>> /\ toAp = <<>> /\ txed = <<>>
    /\ bound = [joins |-> 0, lost |-> 0, mics |-> 0]

Next ==
    \/ Associate \/ ApRemove \/ StaReceive \/ StaTransmit 
    \/ StaMicFailure \/ StaCmTimer
    \/ ApReceive \/ ApTimeout \/ LoseToSta \/ LoseToAp

Fairness ==
    /\ WF_vars(StaReceive) /\ WF_vars(StaTransmit) 
    /\ WF_vars(ApReceive) /\ WF_vars(ApTimeout) /\ WF_vars(StaCmTimer)

Spec == Init /\ [][Next]_vars /\ Fairness

(***************************************************************************)
(* What the handshake promises.                                            *)
(***************************************************************************)
Finished == link /\ sta.st = "COMPLETED" /\ ap.ptkSt = "PTKINITDONE"

SameKeys == sta.txKey = ap.key /\ sta.rxKey = ap.key

\* When both sides regard the handshake as finished, whatever frames are still
\* under way, both have installed the same pairwise key, for sending and for
\* receiving (wpa_supplicant_send_4_of_4_txcallback, PTKINITDONE).
\* (Left out: after TKIP countermeasures, whose timer sets the state to
\* DISCONNECTED in the middle of a later handshake.)
KeysAgree == (Finished /\ bound.mics < 2) => SameKeys

\* A pairwise key is installed for sending once: a second install would start
\* its packet number again.
NoTxReinstall == \A i, j \in DOMAIN txed : txed[i] = txed[j] => i = j

\* An association ends: in a finished handshake, or in a disconnect.  (An error
\* report while the group handshake is open restarts the 4-way handshake and
\* leaves the group machine waiting without a timer: that case is left out.)
HandshakeEnds ==
    (link /\ bound.mics = 0) ~>
        \/ ~link \/ bound.mics > 0
        \/ /\ sta.st = "COMPLETED"
           /\ ap.ptkSt = "PTKINITDONE" /\ ap.grpSt = "IDLE"
=============================================================================
