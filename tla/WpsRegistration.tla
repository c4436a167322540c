-------------------------- MODULE WpsRegistration --------------------------
(***************************************************************************)
(* Wi-Fi Protected Setup: the registration protocol M1..M8 between the     *)
(* enrollee of wps_enrollee.c and the registrar of wps_registrar.c, with   *)
(* the registrar's push-button and PIN bookkeeping.  Each enrollee has its *)
(* own EAP exchange with the access point: one request or one response is  *)
(* in the air at a time, the EAP server (not in this repository) repeats a *)
(* lost request and gives up after a lost response.                        *)
(*                                                                         *)
(* Cryptography is symbolic: a derived key is the pair of nonces, an       *)
(* authenticator the key with the last message exchanged, and the hash of  *)
(* a half of the device password the half itself, which only the peer that *)
(* has the same half accepts.  The push button stands for password 0 0.    *)
(***************************************************************************)
EXTENDS Naturals, Sequences, FiniteSets

CONSTANTS Enrollees,  \* their MAC addresses, which also stand for their UUIDs
          PinOf,      \* PinOf[e]: the device PIN of e, as its two halves
          Displays,   \* the enrollees that have a display
          MaxTries,   \* bound: exchanges an enrollee starts
          MaxPush,    \* bound: pushes of the access point's button
          MaxPins     \* bound: PINs entered at the access point

None == "none"

ASSUME MaxPinsAssumption == MaxPins \in Nat
ASSUME EnrolleesAssumption == None \notin Enrollees

VARIABLES enr,   \* enr[e]: the enrollee's wps_data, and whether it runs
          ses,   \* ses[e]: the registrar's wps_data for e, or NoSession
          net,   \* net[e]: the EAP frame between e and the access point
          reg,   \* struct wps_registrar
          ap,    \* struct wps_context and the keys the network accepts
          hist   \* what happened: grants, uses of PINs, successes

vars == <<enr, ses, net, reg, ap, hist>>

WscMsgs == {"M1", "M2", "M2D", "M3", "M4", "M5", "M6", "M7", "M8"}
NoMsg == [t |-> None]

(* Keys.  A key made for an enrollee is the pair of its name and its         *)
(* exchange; these are the others: the one the application configured, the   *)
(* 64 zero bytes of the raw PSK and whatever an uninitialised buffer held.   *)
NoKey == <<None, 0>>
GivenKey == <<None, 1>>
Zeros == <<None, 2>>
Residue == <<None, 3>>

NoPin == [id |-> 0]
Idle == [d |-> None, m |-> NoMsg]
NoSession == [st |-> None]

(* enum wps_state as the enrollee orders it. *)
EnrolleeStates == <<"SEND_M1", "RECV_M2", "SEND_M3", "RECV_M4", "SEND_M5", "RECV_M6",
    "SEND_M7", "RECV_M8", "RECEIVED_M2D", "WPS_MSG_DONE", "RECV_ACK", "WPS_FINISHED",
    "SEND_WSC_NACK">>
Rank(s) == CHOOSE i \in DOMAIN EnrolleeStates : EnrolleeStates[i] = s

(* A message built from w: nonces, authenticator over the last message, the  *)
(* hashes and the settings it carries.                                       *)
Message(w, t, x) == [t |-> t, ne |-> w.ne, nr |-> w.nr, auth |-> <<w.key, w.last>>,
                     h |-> <<>>, x |-> x]

wps_process_authenticator(w, m) == m.auth = <<w.key, w.last>>

(* Both nonces and the Diffie-Hellman secret make the keys. *)
wps_derive_keys(w) == [w EXCEPT !.key = <<w.ne, w.nr>>]

(* The keyed hash of one half of the device password (psk1 or psk2). *)
wps_derive_psk(w, i) == <<w.pw[i], w.key>>
Hashes(w) == <<wps_derive_psk(w, 1), wps_derive_psk(w, 2)>>

(* Settings under the key wrap key: whoever has another key cannot read them.*)
wps_build_encr_settings(w, x) == [key |-> w.key, x |-> x]
wps_decrypt_encr_settings(w, c) == c.key = w.key

Nack(w) == [w |-> [w EXCEPT !.st = "SEND_WSC_NACK"], res |-> "WPS_CONTINUE"]
Continue(w, s) == [w |-> [w EXCEPT !.st = s], res |-> "WPS_CONTINUE"]
Failure(w) == [w |-> w, res |-> "WPS_FAILURE"]

(* last_msg is replaced by the message just sent. *)
Send(w, s, m) == [w |-> [w EXCEPT !.st = s, !.last = IF m.t \in WscMsgs THEN m.t ELSE @],
                  m |-> m]

-----------------------------------------------------------------------------
(* The enrollee *)

wps_build_e_hash(w) == Hashes(w)

wps_build_m1(w) == Send(w, "RECV_M2", Message(w, "M1", None))
wps_build_m3(w) == Send(w, "RECV_M4", [Message(w, "M3", None) EXCEPT !.h = wps_build_e_hash(w)])
wps_build_m5(w) == Send(w, "RECV_M6", Message(w, "M5", wps_build_encr_settings(w, "E-S1")))
wps_build_m7(w) == Send(w, "RECV_M8", Message(w, "M7", wps_build_encr_settings(w, "E-S2")))
wps_build_wsc_done(w) == Send(w, "WPS_FINISHED", Message(w, "Done", None))

wps_enrollee_get_msg(w) ==
    CASE w.st = "SEND_M1" -> wps_build_m1(w)
      [] w.st = "SEND_M3" -> wps_build_m3(w)
      [] w.st = "SEND_M5" -> wps_build_m5(w)
      [] w.st = "SEND_M7" -> wps_build_m7(w)
      [] w.st = "RECEIVED_M2D" -> Send(w, "RECV_M2", Message(w, "ACK", None))
      [] w.st = "SEND_WSC_NACK" -> Send(w, w.st, Message(w, "NACK", None))
      [] w.st = "WPS_MSG_DONE" -> wps_build_wsc_done(w)
      [] OTHER -> [w |-> w, m |-> NoMsg]

wps_process_m2(w, m) ==
    LET k == wps_derive_keys([w EXCEPT !.nr = m.nr])
    IN IF w.st # "RECV_M2" \/ ~wps_process_authenticator(k, m)
       THEN Nack(w) ELSE Continue(k, "SEND_M3")

wps_process_m2d(w) ==
    IF w.st # "RECV_M2" THEN Nack(w) ELSE Continue(w, "RECEIVED_M2D")

(* The secret nonce opens the hash: it must be the one of the same half. *)
wps_process_r_snonce1(w) == w.ph[1] = wps_derive_psk(w, 1)
wps_process_r_snonce2(w) == w.ph[2] = wps_derive_psk(w, 2)

(* M4 brings both hashes and the first secret nonce. *)
wps_process_m4(w, m) ==
    LET k == [w EXCEPT !.ph = m.h]
    IN IF /\ w.st = "RECV_M4" /\ wps_process_authenticator(w, m)
          /\ wps_decrypt_encr_settings(w, m.x) /\ wps_process_r_snonce1(k)
       THEN Continue(k, "SEND_M5") ELSE Nack(w)

wps_process_m6(w, m) ==
    IF /\ w.st = "RECV_M6" /\ wps_process_authenticator(w, m)
       /\ wps_decrypt_encr_settings(w, m.x) /\ wps_process_r_snonce2(w)
    THEN Continue(w, "SEND_M7") ELSE Nack(w)

(* The credential is saved (wps_ssid_save, wps_key_save). *)
wps_process_creds(w, c) == [w EXCEPT !.cred = c]

wps_process_m8(w, m) ==
    IF /\ w.st = "RECV_M8" /\ wps_process_authenticator(w, m)
       /\ wps_decrypt_encr_settings(w, m.x)
    THEN Continue(wps_process_creds(w, m.x.x), "WPS_MSG_DONE") ELSE Nack(w)

(* WPS_IGNORE_STATE: a repetition of the message just answered. *)
Repeated(w, recv) ==
    Rank(w.st) <= Rank("RECV_M8") /\ Rank(recv) \in {Rank(w.st) - 1, Rank(w.st) - 2}

wps_enrollee_process_wsc_msg(w, m) ==
    LET recv == CASE m.t = "M2" -> "RECV_M2" [] m.t = "M4" -> "RECV_M4"
                  [] m.t = "M6" -> "RECV_M6" [] m.t = "M8" -> "RECV_M8" [] OTHER -> "SEND_M1"
        ret == CASE m.t = "M2" -> wps_process_m2(w, m)
                 [] m.t = "M2D" -> wps_process_m2d(w)
                 [] m.t = "M4" -> wps_process_m4(w, m)
                 [] m.t = "M6" -> wps_process_m6(w, m)
                 [] m.t = "M8" -> wps_process_m8(w, m)
                 [] OTHER -> Failure(w)
    IN IF m.ne # w.ne THEN Failure(w)
       ELSE IF m.t # "M2D" /\ Repeated(w, recv) THEN [w |-> w, res |-> "WPS_IGNORE"]
       ELSE [ret EXCEPT !.w.last =
               IF ret.res = "WPS_CONTINUE" /\ m.t # "M2D" THEN m.t ELSE @]

wps_enrollee_process_msg(w, m) ==
    CASE m.t = "Start" -> Continue(w, "SEND_M1")
      [] m.t \in WscMsgs -> wps_enrollee_process_wsc_msg(w, m)
      [] OTHER -> Failure([w EXCEPT !.st = "SEND_WSC_NACK"])

-----------------------------------------------------------------------------
(* The registrar's beacon and push-button sessions.  r is a struct           *)
(* wps_registrar throughout.                                                 *)

(* The beacon and the probe responses announce the push-button mode. *)
wps_set_ie(r) == [r EXCEPT !.ie_pbc = r.pbc]

(* Only a selection is published, never its end. *)
wps_registrar_selected_registrar_changed(r) == IF r.sel THEN wps_set_ie(r) ELSE r

(* What an enrollee looks for in the beacon. *)
wps_is_selected_pbc_registrar(r) == r.ie_pbc

(* Push-button sessions.  One that is added or seen again goes to the head   *)
(* of the list with the time of day, so the stale ones are its tail, which   *)
(* is where the searches stop: a session is fresh or old, in any order.      *)
FreshSessions(r) == {p.uuid : p \in {q \in r.pbcs : ~q.old}}

wps_registrar_add_pbc_session(r, e) ==
    [r EXCEPT !.pbcs = {p \in @ : p.uuid # e /\ ~p.old} \cup {[uuid |-> e, old |-> FALSE]}]

wps_registrar_remove_pbc_session(r, e) == [r EXCEPT !.pbcs = {p \in @ : p.uuid # e}]

wps_registrar_pbc_overlap(r, e) ==
    Cardinality(FreshSessions(r) \ {e}) + (IF e = None THEN 0 ELSE 1) > 1

wps_registrar_stop_pbc(r) ==
    wps_registrar_selected_registrar_changed([r EXCEPT !.sel = FALSE, !.pbc = FALSE])

wps_registrar_pin_completed(r) ==
    wps_registrar_selected_registrar_changed([r EXCEPT !.sel = FALSE])

-----------------------------------------------------------------------------
(* The registrar's PINs: wild is wildcard_uuid, locked the flag PIN_LOCKED.  *)
(* A new PIN is put at the head of the list: the list is the set in the      *)
(* order of the ids, the newest first.                                       *)

wps_registrar_remove_pin(r, p) ==
    wps_registrar_selected_registrar_changed([r EXCEPT !.pins = @ \ {p}])

(* The first of these PINs in the list. *)
FirstPin(ps) == CHOOSE p \in ps : \A q \in ps : q.id <= p.id

DropFirstPin(r, ps) == IF ps = {} THEN r ELSE wps_registrar_remove_pin(r, FirstPin(ps))

PinsOf(r, e) == {p \in r.pins : p.uuid = e}

wps_registrar_invalidate_unused(r) ==
    DropFirstPin(r, {p \in r.pins : p.wild = 1 /\ ~p.locked})

wps_registrar_invalidate_wildcard_pin(r) == DropFirstPin(r, {p \in r.pins : p.wild # 0})

wps_registrar_invalidate_pin(r, e) == DropFirstPin(r, PinsOf(r, e))

(* The PIN p is now q. *)
SetPin(r, p, q) == [r EXCEPT !.pins = (@ \ {p}) \cup {q}]

wps_registrar_unlock_pin(r, e) ==
    LET p == FirstPin(PinsOf(r, e))
    IN IF PinsOf(r, e) = {} THEN r
       ELSE IF p.wild = 3 THEN wps_registrar_invalidate_pin(r, e)
       ELSE SetPin(r, p, [p EXCEPT !.locked = FALSE])

wps_registrar_expire_pins(r) ==
    LET left == {p \in r.pins : ~p.expired}
    IN IF left = r.pins THEN r
       ELSE wps_registrar_selected_registrar_changed([r EXCEPT !.pins = left])

(* There is no PIN, or the one found is locked: NoPin.  A wildcard PIN is    *)
(* bound to the enrollee that asks, even when it is locked.                  *)
get_pin(r0, e, states) ==
    LET r == wps_registrar_expire_pins(r0)
        own == {p \in r.pins : p.wild = 0 /\ p.uuid = e}
        any == {p \in r.pins : p.wild \in {1, 2}}
        found == FirstPin(IF own # {} THEN own ELSE any)
        bound == IF own # {} THEN found ELSE [found EXCEPT !.wild = @ + 1, !.uuid = e]
    IN IF own = {} /\ any = {} THEN [r |-> r, pin |-> NoPin]
       ELSE IF bound.locked \notin states THEN [r |-> SetPin(r, found, bound), pin |-> NoPin]
       ELSE [r |-> SetPin(r, found, [bound EXCEPT !.locked = TRUE]), pin |-> bound]

(* Mutant: a locked PIN is handed out again. *)
wps_registrar_get_pin_Unlocked(r, e) == get_pin(r, e, BOOLEAN)

wps_registrar_get_pin(r, e) == get_pin(r, e, {FALSE})

-----------------------------------------------------------------------------
(* The registrar's side of an exchange: r the registrar, w the session.      *)

RSend(r, w, s, m) == [r |-> r, w |-> Send(w, s, m).w, m |-> m]

wps_build_m2(r, w) ==
    LET k == wps_derive_keys([w EXCEPT !.nr = w.n])
    IN RSend(r, k, "RECV_M3", Message(k, "M2", None))

wps_build_m2d(r, w) == RSend(r, w, "RECV_M2D_ACK", Message(w, "M2D", None))

(* The device password: zeros for the push button, else a PIN. *)
wps_get_dev_password(r, w) ==
    IF w.pbc THEN [r |-> r, pin |-> [pin |-> <<0, 0>>, id |-> 0]]
    ELSE wps_registrar_get_pin(r, w.uuid)

SendM2(r, w) ==
    LET g == wps_get_dev_password(r, w)
    IN IF g.pin = NoPin THEN wps_build_m2d(g.r, w)
       ELSE wps_build_m2(g.r, [w EXCEPT !.pw = g.pin.pin, !.pin = g.pin.id])

(* An enrollee without a display is given the PSK instead of the passphrase. *)
use_psk_key(w) == w.uuid \notin Displays

(* The network is protected by WPA-PSK or WPA2-PSK, and auto-configuration   *)
(* is on: an unconfigured access point makes a new key for the network.  The *)
(* raw PSK is a buffer of zeros, and with no network key a key is made for   *)
(* the one station, but the buffer put into the credential is never written. *)
wps_build_cred(w) ==
    LET made == <<w.uuid, w.n>>
    IN CASE ~ap.configured -> [w EXCEPT !.new_psk = made, !.cred = made]
         [] ap.configured /\ use_psk_key(w) /\ ap.psk_set -> [w EXCEPT !.cred = Zeros]
         [] ap.configured /\ ~(use_psk_key(w) /\ ap.psk_set) /\ ap.network_key # NoKey ->
              [w EXCEPT !.cred = ap.network_key]
         [] OTHER -> [w EXCEPT !.new_psk = made, !.cred = Residue]

wps_build_m8(r, w) ==
    LET c == wps_build_cred(w) IN RSend(r, c, "RECV_DONE", Message(c, "M8", wps_build_encr_settings(c, c.cred)))

wps_build_r_hash(w) == Hashes(w)

wps_build_m4(r, w) ==
    RSend(r, w, "RECV_M5", [Message(w, "M4", wps_build_encr_settings(w, "R-S1"))
                               EXCEPT !.h = wps_build_r_hash(w)])
wps_build_m6(r, w) == RSend(r, w, "RECV_M7", Message(w, "M6", wps_build_encr_settings(w, "R-S2")))

wps_registrar_get_msg(r, w) ==
    CASE w.st = "SEND_M2" -> SendM2(r, w)
      [] w.st = "SEND_M2D" -> wps_build_m2d(r, w)
      [] w.st = "SEND_M4" -> wps_build_m4(r, w)
      [] w.st = "SEND_M6" -> wps_build_m6(r, w)
      [] w.st = "SEND_M8" -> wps_build_m8(r, w)
      [] w.st = "RECV_DONE" -> RSend(r, w, w.st, Message(w, "ACK", None))
      [] w.st = "SEND_WSC_NACK" -> RSend(r, w, w.st, Message(w, "NACK", None))
      [] OTHER -> [r |-> r, w |-> w, m |-> NoMsg]

RRet(r, w, s) == [r |-> r, w |-> [w EXCEPT !.st = s], res |-> "WPS_CONTINUE"]
RFailure(r, w) == [r |-> r, w |-> w, res |-> "WPS_FAILURE"]
RNack(r, w) == RRet(r, w, "SEND_WSC_NACK")

wps_process_m1(r, w0, m) ==
    LET w == [w0 EXCEPT !.ne = m.ne]
        overlap == r.force \/ wps_registrar_pbc_overlap(r, w.uuid)
    IN IF w.st # "RECV_M1" THEN RFailure(r, w0)
       ELSE CASE w.dpi # "pbc" -> RRet(r, w, "SEND_M2")
              [] w.dpi = "pbc" /\ ~r.pbc -> RRet(r, w, "SEND_M2D")
              [] w.dpi = "pbc" /\ r.pbc /\ overlap -> RRet([r EXCEPT !.force = TRUE], w, "SEND_M2D")
              [] w.dpi = "pbc" /\ r.pbc /\ ~overlap ->
                   RRet(wps_registrar_add_pbc_session(r, w.uuid), [w EXCEPT !.pbc = TRUE], "SEND_M2")

Overlapped(r, w) == w.pbc /\ r.force

wps_process_m3(r, w, m) ==
    IF w.st # "RECV_M3" \/ Overlapped(r, w) \/ ~wps_process_authenticator(w, m)
    THEN RNack(r, w) ELSE RRet(r, [w EXCEPT !.ph = m.h], "SEND_M4")

wps_process_e_snonce1(w) == w.ph[1] = wps_derive_psk(w, 1)

wps_process_m5(r, w, m) ==
    IF /\ w.st = "RECV_M5" /\ ~Overlapped(r, w) /\ wps_process_authenticator(w, m)
       /\ wps_decrypt_encr_settings(w, m.x) /\ wps_process_e_snonce1(w)
    THEN RRet(r, w, "SEND_M6") ELSE RNack(r, w)

(* The second half: a wrong one, and a right one, both end the PIN. *)
wps_process_e_snonce2(r, w) ==
    IF w.ph[2] # wps_derive_psk(w, 2) THEN RNack(wps_registrar_invalidate_pin(r, w.uuid), w)
    ELSE RRet(wps_registrar_invalidate_pin(wps_registrar_unlock_pin(r, w.uuid), w.uuid),
              w, "SEND_M8")

(* Mutant: the overlap that came after M5 is not looked at. *)
wps_process_m7_NoOverlapCheck(r, w, m) ==
    IF /\ w.st = "RECV_M7" /\ wps_process_authenticator(w, m)
       /\ wps_decrypt_encr_settings(w, m.x)
    THEN wps_process_e_snonce2(r, w) ELSE RNack(r, w)

wps_process_m7(r, w, m) ==
    IF /\ w.st = "RECV_M7" /\ ~Overlapped(r, w) /\ wps_process_authenticator(w, m)
       /\ wps_decrypt_encr_settings(w, m.x)
    THEN wps_process_e_snonce2(r, w) ELSE RNack(r, w)

wps_registrar_process_wsc_msg(r, w, m) ==
    LET ret == CASE m.t = "M1" -> wps_process_m1(r, w, m)
                 [] m.t = "M3" -> wps_process_m3(r, w, m)
                 [] m.t = "M5" -> wps_process_m5(r, w, m)
                 [] m.t = "M7" -> wps_process_m7(r, w, m)
                 [] OTHER -> RFailure(r, w)
    IN IF m.t # "M1" /\ m.nr # w.nr THEN RFailure(r, w)
       ELSE [ret EXCEPT !.w.last = IF ret.res = "WPS_CONTINUE" THEN m.t ELSE @]

(* An acknowledgement is only expected of an M2D, which ends the exchange.   *)
(* What a success does to the keys is wps_process_wsc_done.                  *)
wps_registrar_process_msg(r, w, m) ==
    CASE m.t \in WscMsgs -> wps_registrar_process_wsc_msg(r, w, m)
      [] m.t = "Done" /\ w.st = "RECV_DONE" /\ m.nr = w.nr /\ m.ne = w.ne ->
           [r |-> IF w.pbc
                  THEN [wps_registrar_stop_pbc(wps_registrar_remove_pbc_session(r, w.uuid))
                           EXCEPT !.ignore = w.uuid]
                  ELSE wps_registrar_pin_completed(r),
            w |-> w, res |-> "WPS_DONE"]
      [] OTHER -> RFailure(r, w)

(* The first registration configures the access point: the application is    *)
(* told the new key (cred_cb).                                               *)
FirstRegistration(w) == [ap EXCEPT !.configured = TRUE, !.told = w.new_psk]

(* Mutant: only the key of the first registration is reported. *)
wps_process_wsc_done_NoNewPsk(w) ==
    IF ~ap.configured /\ w.new_psk # NoKey THEN FirstRegistration(w) ELSE ap

(* A key made for a later one is registered as that station's own            *)
(* (new_psk_cb), also one made before the access point was configured.       *)
wps_process_wsc_done(w) ==
    CASE ~ap.configured /\ w.new_psk # NoKey -> FirstRegistration(w)
      [] ap.configured /\ w.new_psk # NoKey -> [ap EXCEPT !.psk[w.uuid] = w.new_psk]
      [] OTHER -> ap

-----------------------------------------------------------------------------
(* The operator of the access point *)

wps_registrar_button_pushed ==
    /\ hist.pushes < MaxPush
    /\ ~wps_registrar_pbc_overlap(reg, None)
    /\ reg' = wps_registrar_selected_registrar_changed(
                 [reg EXCEPT !.force = FALSE, !.sel = TRUE, !.pbc = TRUE])
    /\ hist' = [hist EXCEPT !.pushes = @ + 1, !.granted = {}]
    /\ UNCHANGED <<enr, ses, net, ap>>

(* uuid None: a wildcard PIN, which replaces an unused one. *)
wps_registrar_add_pin(uuid, pin) ==
    /\ hist.pins < MaxPins
    /\ LET p == [id |-> hist.pins + 1, pin |-> pin, uuid |-> uuid, locked |-> FALSE,
                 wild |-> IF uuid = None THEN 1 ELSE 0, expired |-> FALSE]
           r == IF uuid = None THEN wps_registrar_invalidate_unused(reg) ELSE reg
       IN reg' = wps_registrar_selected_registrar_changed(
                    [r EXCEPT !.pins = @ \cup {p}, !.sel = TRUE, !.pbc = FALSE])
    /\ hist' = [hist EXCEPT !.pins = @ + 1]
    /\ UNCHANGED <<enr, ses, net, ap>>

wps_registrar_wps_cancel ==
    /\ reg.pbc \/ reg.sel
    /\ reg' = IF reg.pbc THEN wps_registrar_stop_pbc(reg)
              ELSE wps_registrar_invalidate_wildcard_pin(wps_registrar_pin_completed(reg))
    /\ UNCHANGED <<enr, ses, net, ap, hist>>

(* The application, told of the network's new key, puts it into the          *)
(* wps_context at a time of its own; it may compute the PSK as well.         *)
CredentialInstalled ==
    /\ ap.told # NoKey
    /\ \E set \in BOOLEAN :
         ap' = [ap EXCEPT !.network_key = ap.told, !.told = NoKey, !.psk_set = set]
    /\ UNCHANGED <<enr, ses, net, reg, hist>>

(* A probe request in push-button mode.  For five seconds after its own      *)
(* registration an enrollee's probe is not counted as a session.             *)
wps_registrar_probe_req_rx(e) ==
    /\ \E skip \in {s \in BOOLEAN : s => reg.ignore = e} :
         LET r == IF skip THEN reg
                  ELSE wps_registrar_add_pbc_session(
                          [reg EXCEPT !.ignore = IF @ = e THEN None ELSE @], e)
         IN reg' = [r EXCEPT !.force = @ \/ wps_registrar_pbc_overlap(r, e)]
    /\ UNCHANGED <<enr, ses, net, ap, hist>>

-----------------------------------------------------------------------------
(* EAP between the two *)

(* wps_data of an enrollee (wps_init) in its n-th exchange. *)
Enrollee(n) == [st |-> "SEND_M1", ne |-> n, nr |-> 0, key |-> NoKey, last |-> None,
                ph |-> <<>>, cred |-> NoKey, run |-> FALSE, pw |-> <<0, 0>>]

(* Only what the enrollee stored outlives an exchange. *)
Over(w) == [Enrollee(w.ne) EXCEPT !.cred = w.cred]

(* The enrollee found the access point announcing its method and associated: *)
(* both sides start afresh.                                                  *)
StartExchange(e, mode) ==
    /\ ~enr[e].run /\ enr[e].ne < MaxTries
    /\ mode = "pbc" => wps_is_selected_pbc_registrar(reg)
    /\ enr' = [enr EXCEPT ![e] = [Enrollee(@.ne + 1) EXCEPT !.run = TRUE,
                                   !.pw = IF mode = "pbc" THEN <<0, 0>> ELSE PinOf[e]]]
    /\ ses' = [ses EXCEPT ![e] = [st |-> "RECV_M1", uuid |-> e, dpi |-> mode, ne |-> 0, nr |-> 0,
                  n |-> enr'[e].ne, key |-> NoKey, last |-> None, pbc |-> FALSE, pw |-> <<0, 0>>,
                  ph |-> <<>>, pin |-> 0, new_psk |-> NoKey, cred |-> NoKey]]
    /\ net' = [net EXCEPT ![e] = [d |-> "req", m |-> [t |-> "Start"]]]
    /\ UNCHANGED <<reg, ap, hist>>

(* wps_finish on EAP-Failure, and the failure reports of esp_wps.c: either   *)
(* way the enrollee's exchange is over.                                      *)
EnrolleeRx(e) ==
    /\ enr[e].run /\ net[e].d = "req"
    /\ \E p \in {IF net[e].m.t = "EAP-Failure" THEN Failure(enr[e])
                 ELSE wps_enrollee_process_msg(enr[e], net[e].m)} :
       \E g \in {wps_enrollee_get_msg(p.w)} :
         CASE p.res = "WPS_CONTINUE" /\ g.m # NoMsg ->
                 /\ enr' = [enr EXCEPT ![e] = g.w]
                 /\ net' = [net EXCEPT ![e] = [d |-> "rsp", m |-> g.m]]
            [] p.res = "WPS_IGNORE" -> UNCHANGED enr /\ net' = [net EXCEPT ![e] = Idle]
            [] OTHER -> enr' = [enr EXCEPT ![e] = Over(p.w)] /\ net' = [net EXCEPT ![e] = Idle]
    /\ UNCHANGED <<ses, reg, ap, hist>>

(* p is what process_msg returned and g what get_msg did. *)
Sent(p, g) == p.res = "WPS_CONTINUE" /\ g.m # NoMsg

(* The history after a response of e: M8 in push-button mode, a PIN put to   *)
(* the test in M2, a success.                                                *)
Recorded(e, p, g) ==
    [hist EXCEPT
       !.granted = IF Sent(p, g) /\ g.m.t = "M8" /\ p.w.pbc THEN @ \cup {e} ELSE @,
       !.uses = [i \in 1..MaxPins |->
                   hist.uses[i] + IF Sent(p, g) /\ g.m.t = "M2" /\ g.w.pin = i THEN 1 ELSE 0],
       !.done = IF p.res = "WPS_DONE" THEN @ \cup {<<e, p.w.ne>>} ELSE @]

(* An EAP server passes the response on and sends what get_msg returns; any  *)
(* other result ends in EAP-Failure and frees the session.                   *)
RegistrarRx(e) ==
    /\ ses[e] # NoSession /\ net[e].d = "rsp"
    /\ \E p \in {wps_registrar_process_msg(reg, ses[e], net[e].m)} :
       \E g \in {wps_registrar_get_msg(p.r, p.w)} :
          /\ IF Sent(p, g)
             THEN /\ reg' = g.r
                  /\ ses' = [ses EXCEPT ![e] = g.w]
                  /\ net' = [net EXCEPT ![e] = [d |-> "req", m |-> g.m]]
             ELSE /\ reg' = p.r
                  /\ ses' = [ses EXCEPT ![e] = NoSession]
                  /\ net' = [net EXCEPT ![e] = [d |-> "req", m |-> [t |-> "EAP-Failure"]]]
          /\ ap' = IF p.res = "WPS_DONE" THEN wps_process_wsc_done(p.w) ELSE ap
          /\ hist' = Recorded(e, p, g)
    /\ UNCHANGED enr

(* A response is lost: the enrollee does not answer the repeated request,    *)
(* whose identifier it has already seen.                                     *)
LoseResponse(e) ==
    /\ net[e].d = "rsp"
    /\ net' = [net EXCEPT ![e] = Idle]
    /\ UNCHANGED <<enr, ses, reg, ap, hist>>

ServerGivesUp(e) ==
    /\ ses[e] # NoSession /\ (net[e].d = None \/ ~enr[e].run)
    /\ ses' = [ses EXCEPT ![e] = NoSession]
    /\ net' = [net EXCEPT ![e] = IF enr[e].run THEN [d |-> "req", m |-> [t |-> "EAP-Failure"]]
                                  ELSE Idle]
    /\ UNCHANGED <<enr, reg, ap, hist>>

(* The timers are far longer than a frame is in the air. *)
EnrolleeTimeout(e) ==
    /\ enr[e].run /\ net[e].d = None
    /\ enr' = [enr EXCEPT ![e] = Over(@)]
    /\ UNCHANGED <<ses, net, reg, ap, hist>>

(* The walk time passes: sessions seen before are stale.  An enrollee gives  *)
(* up before (its own timer runs for the walk time), so none is running.     *)
WalkTime ==
    /\ \A e \in Enrollees : ~enr[e].run /\ ses[e] = NoSession
    /\ reg' = [reg EXCEPT !.pbcs = {[uuid |-> p.uuid, old |-> TRUE] : p \in @}, !.ignore = None]
    /\ hist' = [hist EXCEPT !.granted = {}]
    /\ UNCHANGED <<enr, ses, net, ap>>

PinExpires(p) ==
    /\ ~p.expired
    /\ reg' = SetPin(reg, p, [p EXCEPT !.expired = TRUE])
    /\ UNCHANGED <<enr, ses, net, ap, hist>>

-----------------------------------------------------------------------------
(* What the application may have put into the wps_context: nothing, a        *)
(* network key, with its PSK or not, or none so that the registrar makes a   *)
(* key for each station.                                                     *)
Context(configured, key, set) ==
    [configured |-> configured, network_key |-> key, psk_set |-> set, told |-> NoKey,
     psk |-> [e \in Enrollees |-> NoKey]]

Contexts == {Context(FALSE, NoKey, FALSE), Context(TRUE, NoKey, FALSE)}
              \cup {Context(TRUE, GivenKey, set) : set \in BOOLEAN}

Init ==
    /\ enr = [e \in Enrollees |-> Enrollee(0)]
    /\ ses = [e \in Enrollees |-> NoSession]
    /\ net = [e \in Enrollees |-> Idle]
    /\ reg = [pbc |-> FALSE, sel |-> FALSE, force |-> FALSE, pbcs |-> {}, ignore |-> None,
              pins |-> {}, ie_pbc |-> FALSE]
    /\ ap \in Contexts
    /\ hist = [pushes |-> 0, pins |-> 0, granted |-> {}, uses |-> [i \in 1..MaxPins |-> 0],
               done |-> {}]

Next ==
    \/ wps_registrar_button_pushed
    \/ wps_registrar_wps_cancel
    \/ CredentialInstalled
    \/ WalkTime
    \/ \E u \in Enrollees \cup {None}, f \in Enrollees : wps_registrar_add_pin(u, PinOf[f])
    \/ \E p \in reg.pins : PinExpires(p)
    \/ \E e \in Enrollees :
         \/ wps_registrar_probe_req_rx(e)
         \/ \E mode \in {"pbc", "pin"} : StartExchange(e, mode)
         \/ EnrolleeRx(e)
         \/ RegistrarRx(e)
         \/ LoseResponse(e)
         \/ ServerGivesUp(e)
         \/ EnrolleeTimeout(e)

Spec == Init /\ [][Next]_vars

-----------------------------------------------------------------------------
(* A push of the button admits one enrollee: M8 goes to an enrollee in       *)
(* push-button mode only when no other was seen in that mode, or served,     *)
(* within the walk time, at whatever point of the exchange it appeared.      *)
PbcExclusive ==
    [][\A e \in hist'.granted \ hist.granted :
         FreshSessions(reg) \cup hist.granted \subseteq {e}]_vars

(* A PIN entered at the access point is put to the test in one exchange only,*)
(* whichever enrollees ask for it and however their exchanges fail, so that  *)
(* its halves cannot be tried one after the other.                           *)
PinTriedOnce == \A i \in DOMAIN hist.uses : hist.uses[i] <= 1

(* When the registrar reports a success, the enrollee has stored a key the   *)
(* network accepts from it or the application is told of, also when several  *)
(* enrollees were given new keys before the first of them was done and       *)
(* while the application installs that first key.  Two branches of           *)
(* wps_build_cred fall short of it, and only these: the zeros an enrollee    *)
(* without a display gets where the PSK is set, and the unwritten buffer of  *)
(* one for which the access point then has a key the enrollee never saw.     *)
DoneMeansConfigured ==
    \A e \in Enrollees :
       <<e, enr[e].ne>> \in hist.done =>
          \/ enr[e].cred # NoKey /\ enr[e].cred \in {ap.told, ap.network_key, ap.psk[e]}
          \/ enr[e].cred = Zeros /\ ap.psk_set /\ e \notin Displays
          \/ enr[e].cred = Residue /\ ap.psk[e] # NoKey
=============================================================================
