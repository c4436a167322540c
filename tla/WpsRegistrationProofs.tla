----------------------- MODULE WpsRegistrationProofs ------------------------
(***************************************************************************)
(* Three properties of WPS registration, for any enrollees and PINs, any   *)
(* number of exchanges, pushes and PINs entered, and whatever frames are   *)
(* lost.                                                                   *)
(*                                                                         *)
(* SuccessIsUsable follows the credential from M8 to the key the network   *)
(* accepts: an M8 in the air carries the credential of the session that    *)
(* sent it, a Done answers that M8, and between the two other              *)
(* registrations may configure the access point but not take back a key.   *)
(*                                                                         *)
(* PinUsedOnce follows the PINs: one that is not locked was never tried.   *)
(* The one M7 unlocks is off the list before anybody looks, because the    *)
(* search that unlocks and the search that removes find the same PIN.      *)
(*                                                                         *)
(* ButtonServesOne follows the push-button sessions: an exchange between   *)
(* M1 and M8 is one of them, so whoever else appears makes an overlap,     *)
(* which M3, M5 and M7 look at; and while the button is active an enrollee *)
(* that was served is still one.                                           *)
(***************************************************************************)
EXTENDS WpsRegistration, FiniteSetTheorems, WellFoundedInduction, TLAPS

\* The fields of struct wps_data, as the enrollee and as the registrar use it.
EnrFields == {"st", "ne", "nr", "key", "last", "ph", "cred", "run", "pw"}
SesFields == {"st", "uuid", "dpi", "ne", "nr", "n", "key", "last", "pbc", "pw", "ph", "pin",
              "new_psk", "cred"}
IsEnr(w) == w = [f \in EnrFields |-> w[f]]
IsSes(w) == w = [f \in SesFields |-> w[f]]

\* The states of a session that has made no credential yet.
BeforeM8 == {"RECV_M1", "RECV_M3", "RECV_M5", "RECV_M7"}

\* The credential of a session that sent M8: a key made for it, the key of the
\* network, the zeros of the raw PSK, or the buffer that is never written while
\* the key made for the station stays with the registrar.
CredOK(e, s, k) ==
    \/ s.cred # NoKey /\ s.new_psk = s.cred
    \/ s.new_psk = NoKey /\ k.configured /\ s.cred # NoKey /\ s.cred = k.network_key
    \/ s.new_psk = NoKey /\ k.configured /\ s.cred = Zeros /\ k.psk_set /\ e \notin Displays
    \/ s.new_psk # NoKey /\ k.configured /\ s.cred = Residue

SessionOK(e, a, s, k, done) ==
    /\ IsSes(s) /\ s.uuid = e /\ s.n = a.ne /\ a.ne # 0
    /\ s.st \in BeforeM8 => s.new_psk = NoKey
    /\ s.st = "RECV_DONE" => CredOK(e, s, k)
    /\ <<e, a.ne>> \notin done

\* What is in the air between a session and its enrollee.
FrameOK(a, s, n) ==
    /\ n.d = "req" /\ n.m.t = "M8" => n.m.x.x = s.cred
    /\ n.d = "rsp" /\ n.m.t = "Done" => a.cred = s.cred /\ n.m.ne = a.ne

\* What an enrollee stored and the access point has for it when it is done.
StoredOK(e, c, k) ==
    \/ c # NoKey /\ c \in {k.told, k.network_key, k.psk[e]}
    \/ c = Zeros /\ k.psk_set /\ e \notin Displays
    \/ c = Residue /\ k.psk[e] # NoKey

\* A success that was reported: what is stored is sound, and nothing is under
\* way that could change it.
DoneOK(e, a, n, k) ==
    /\ k.configured /\ StoredOK(e, a.cred, k)
    /\ a.run => n.d # "rsp" /\ (n.d = "req" => n.m.t = "EAP-Failure")

EnrolleeInv(e, a, s, n, k, done) ==
    /\ IsEnr(a) /\ a.ne \in Nat
    /\ \A i : <<e, i>> \in done => i \in Nat /\ i <= a.ne
    /\ s # NoSession => SessionOK(e, a, s, k, done) /\ FrameOK(a, s, n)
    /\ <<e, a.ne>> \in done => DoneOK(e, a, n, k)

\* struct wps_context: a key the application was told of and has not installed
\* is the first one, and with no key installed there is no PSK either.
ContextOK(k) ==
    /\ {"configured", "network_key", "psk_set", "told", "psk"} \subseteq DOMAIN k
    /\ DOMAIN k.psk = Enrollees
    /\ k.told # NoKey => k.network_key = NoKey
    /\ k.network_key = NoKey => ~k.psk_set
    /\ ~k.configured => k.network_key = NoKey /\ k.told = NoKey

PerEnrollee(x) == x = [e \in Enrollees |-> x[e]]

RegInv ==
    /\ PerEnrollee(enr) /\ PerEnrollee(ses) /\ PerEnrollee(net)
    /\ "done" \in DOMAIN hist
    /\ ContextOK(ap)
    /\ \A e \in Enrollees : EnrolleeInv(e, enr[e], ses[e], net[e], ap, hist.done)


-----------------------------------------------------------------------------
(* The enrollee: only M8 changes its credential, and only after M8 is it     *)
(* done.                                                                     *)

EnrolleeStep(w, m, p) ==
    /\ IsEnr(p.w) /\ p.w.ne = w.ne /\ p.w.run = w.run
    /\ p.res = "WPS_CONTINUE" /\ p.w.st = "WPS_MSG_DONE"
         => m.t = "M8" /\ p.w.cred = m.x.x
    /\ p.w.cred = w.cred \/ (p.res = "WPS_CONTINUE" /\ p.w.st = "WPS_MSG_DONE")

\* A change of the state alone.
LEMMA EnrState ==
  ASSUME NEW w, IsEnr(w), NEW st
  PROVE  /\ IsEnr([w EXCEPT !.st = st])
         /\ [w EXCEPT !.st = st].st = st
         /\ \A f \in EnrFields \ {"st"} : [w EXCEPT !.st = st][f] = w[f]
  BY DEF IsEnr, EnrFields

\* A failure and a WSC_NACK leave the credential alone.
LEMMA EnrSame ==
  ASSUME NEW w, IsEnr(w), NEW m
  PROVE  /\ EnrolleeStep(w, m, Failure(w)) /\ EnrolleeStep(w, m, Nack(w))
         /\ EnrolleeStep(w, m, [w |-> w, res |-> "WPS_IGNORE"])
         /\ EnrolleeStep(w, m, Failure([w EXCEPT !.st = "SEND_WSC_NACK"]))
         /\ \A s \in {"SEND_M1", "SEND_M3", "SEND_M5", "SEND_M7", "RECEIVED_M2D"} :
               EnrolleeStep(w, m, Continue(w, s))
<1>1. ASSUME NEW s PROVE IsEnr([w EXCEPT !.st = s]) /\ [w EXCEPT !.st = s].st = s
             /\ [w EXCEPT !.st = s].ne = w.ne /\ [w EXCEPT !.st = s].run = w.run
             /\ [w EXCEPT !.st = s].cred = w.cred
  BY EnrState DEF EnrFields
<1> QED BY <1>1 DEF EnrolleeStep, Failure, Nack, Continue

\* The keys are derived before M2 is believed, the hashes kept before M4 is.
LEMMA EnrM2M4 ==
  ASSUME NEW w, IsEnr(w), NEW m
  PROVE  EnrolleeStep(w, m, wps_process_m2(w, m)) /\ EnrolleeStep(w, m, wps_process_m4(w, m))
<1> DEFINE k2 == wps_derive_keys([w EXCEPT !.nr = m.nr])
           k4 == [w EXCEPT !.ph = m.h]
<1>1. IsEnr(k2) /\ k2.ne = w.ne /\ k2.run = w.run /\ k2.cred = w.cred
  BY DEF IsEnr, EnrFields, wps_derive_keys
<1>2. IsEnr(k4) /\ k4.ne = w.ne /\ k4.run = w.run /\ k4.cred = w.cred
  BY DEF IsEnr, EnrFields
<1>3. wps_process_m2(w, m) \in {Nack(w), Continue(k2, "SEND_M3")}
  BY DEF wps_process_m2
<1>4. wps_process_m4(w, m) \in {Nack(w), Continue(k4, "SEND_M5")}
  BY DEF wps_process_m4
<1> HIDE DEF k2, k4
<1>5. EnrolleeStep(k2, m, Continue(k2, "SEND_M3")) /\ EnrolleeStep(k4, m, Continue(k4, "SEND_M5"))
  BY <1>1, <1>2, EnrSame
<1>6. EnrolleeStep(w, m, Continue(k2, "SEND_M3")) /\ EnrolleeStep(w, m, Continue(k4, "SEND_M5"))
  BY <1>1, <1>2, <1>5 DEF EnrolleeStep
<1> QED BY <1>3, <1>4, <1>6, EnrSame

\* M8 is the one message that brings a credential.
LEMMA EnrM8 ==
  ASSUME NEW w, IsEnr(w), NEW m, m.t = "M8"
  PROVE  EnrolleeStep(w, m, wps_process_m8(w, m))
<1> DEFINE k == wps_process_creds(w, m.x.x)
<1>1. IsEnr(k) /\ k.ne = w.ne /\ k.run = w.run /\ k.cred = m.x.x
  BY DEF IsEnr, EnrFields, wps_process_creds
<1>2. wps_process_m8(w, m) \in {Nack(w), Continue(k, "WPS_MSG_DONE")}
  BY DEF wps_process_m8
<1> HIDE DEF k
<1>3. PICK s : s = [k EXCEPT !.st = "WPS_MSG_DONE"]
  OBVIOUS
<1>4. IsEnr(s) /\ s.st = "WPS_MSG_DONE" /\ s.ne = w.ne /\ s.run = w.run /\ s.cred = m.x.x
  BY <1>1, <1>3, EnrState DEF EnrFields
<1>5. EnrolleeStep(w, m, Continue(k, "WPS_MSG_DONE"))
  BY <1>3, <1>4 DEF EnrolleeStep, Continue
<1> QED BY <1>2, <1>5, EnrSame

\* wps_build_last_msg: the message just answered is kept in last_msg.
LEMMA EnrLast ==
  ASSUME NEW w, NEW m, NEW ret, EnrolleeStep(w, m, ret), NEW v,
         ret = [w |-> ret.w, res |-> ret.res]
  PROVE  EnrolleeStep(w, m, [ret EXCEPT !.w.last = v])
<1>1. PICK q : q = [ret.w EXCEPT !.last = v]
  OBVIOUS
<1>2. [ret EXCEPT !.w.last = v] = [w |-> q, res |-> ret.res]
  BY <1>1
<1>3. IsEnr(q) /\ q.ne = ret.w.ne /\ q.run = ret.w.run /\ q.cred = ret.w.cred /\ q.st = ret.w.st
  BY <1>1 DEF EnrolleeStep, IsEnr, EnrFields
<1> QED BY <1>2, <1>3 DEF EnrolleeStep


\* Every handler returns the context and a result.
LEMMA EnrRet ==
  ASSUME NEW w, NEW m,
         NEW ret \in {wps_process_m2(w, m), wps_process_m2d(w), wps_process_m4(w, m),
                      wps_process_m6(w, m), wps_process_m8(w, m), Failure(w)}
  PROVE  ret = [w |-> ret.w, res |-> ret.res]
<1>1. \E a, b : ret = [w |-> a, res |-> b]
  BY DEF wps_process_m2, wps_process_m2d, wps_process_m4, wps_process_m6, wps_process_m8,
         Failure, Nack, Continue
<1> QED BY <1>1

\* wps_enrollee_process_msg.
LEMMA EnrProcess ==
  ASSUME NEW w, IsEnr(w), NEW m
  PROVE  EnrolleeStep(w, m, wps_enrollee_process_msg(w, m))
<1> DEFINE ret == CASE m.t = "M2" -> wps_process_m2(w, m)
                    [] m.t = "M2D" -> wps_process_m2d(w)
                    [] m.t = "M4" -> wps_process_m4(w, m)
                    [] m.t = "M6" -> wps_process_m6(w, m)
                    [] m.t = "M8" -> wps_process_m8(w, m)
                    [] OTHER -> Failure(w)
           last == IF ret.res = "WPS_CONTINUE" /\ m.t # "M2D" THEN m.t ELSE ret.w.last
<1>1. EnrolleeStep(w, m, wps_process_m2d(w)) /\ EnrolleeStep(w, m, wps_process_m6(w, m))
  BY EnrSame DEF wps_process_m2d, wps_process_m6
<1>2. EnrolleeStep(w, m, ret)
  BY <1>1, EnrM2M4, EnrM8, EnrSame
<1>3. ret \in {wps_process_m2(w, m), wps_process_m2d(w), wps_process_m4(w, m),
               wps_process_m6(w, m), wps_process_m8(w, m), Failure(w)}
  OBVIOUS
<1>4. wps_enrollee_process_wsc_msg(w, m)
        \in {Failure(w), [w |-> w, res |-> "WPS_IGNORE"], [ret EXCEPT !.w.last = last]}
  BY DEF wps_enrollee_process_wsc_msg
<1>5. wps_enrollee_process_msg(w, m)
        \in {Continue(w, "SEND_M1"), wps_enrollee_process_wsc_msg(w, m),
             Failure([w EXCEPT !.st = "SEND_WSC_NACK"])}
  BY DEF wps_enrollee_process_msg
<1> HIDE DEF ret, last
<1>6. EnrolleeStep(w, m, [ret EXCEPT !.w.last = last])
  BY <1>2, <1>3, EnrLast, EnrRet
<1> QED BY <1>4, <1>5, <1>6, EnrSame

\* What is sent: Done, with the enrollee's nonce, only by one that is done, and
\* never a message of the registrar's.
EnrolleeSent(w, g) ==
    /\ IsEnr(g.w) /\ g.w.ne = w.ne /\ g.w.run = w.run /\ g.w.cred = w.cred
    /\ g.m.t = "Done" => w.st = "WPS_MSG_DONE" /\ g.m.ne = w.ne

\* A message that is sent changes the state and last_msg only.
LEMMA EnrSend ==
  ASSUME NEW w, IsEnr(w), NEW st, NEW m, m.t = "Done" => w.st = "WPS_MSG_DONE" /\ m.ne = w.ne
  PROVE  EnrolleeSent(w, Send(w, st, m))
<1>1. PICK l : l = IF m.t \in WscMsgs THEN m.t ELSE w.last
  OBVIOUS
<1>2. PICK q : q = [w EXCEPT !.st = st, !.last = l]
  OBVIOUS
<1>3. Send(w, st, m) = [w |-> q, m |-> m]
  BY <1>1, <1>2 DEF Send
<1>4. IsEnr(q) /\ q.ne = w.ne /\ q.run = w.run /\ q.cred = w.cred
  BY <1>2 DEF IsEnr, EnrFields
<1> QED BY <1>3, <1>4 DEF EnrolleeSent

\* wps_enrollee_get_msg.
LEMMA EnrGetMsg ==
  ASSUME NEW w, IsEnr(w)
  PROVE  EnrolleeSent(w, wps_enrollee_get_msg(w))
<1>1. ASSUME NEW t, NEW x PROVE Message(w, t, x).t = t /\ Message(w, t, x).ne = w.ne
  BY DEF Message
<1>2. PICK m3 : m3 = [Message(w, "M3", None) EXCEPT !.h = wps_build_e_hash(w)]
  OBVIOUS
<1>3. EnrolleeSent(w, wps_build_m1(w)) /\ EnrolleeSent(w, wps_build_m5(w))
      /\ EnrolleeSent(w, wps_build_m7(w))
  BY <1>1, EnrSend DEF wps_build_m1, wps_build_m5, wps_build_m7
<1>4. EnrolleeSent(w, wps_build_m3(w))
  <2>1. m3.t = "M3"
    BY <1>2 DEF Message
  <2>2. wps_build_m3(w) = Send(w, "RECV_M4", m3)
    BY <1>2 DEF wps_build_m3
  <2> QED BY <2>1, <2>2, EnrSend
<1>5. EnrolleeSent(w, Send(w, "RECV_M2", Message(w, "ACK", None)))
      /\ EnrolleeSent(w, Send(w, w.st, Message(w, "NACK", None)))
  BY <1>1, EnrSend
<1>6. w.st = "WPS_MSG_DONE" => EnrolleeSent(w, wps_build_wsc_done(w))
  BY <1>1, EnrSend DEF wps_build_wsc_done
<1>7. EnrolleeSent(w, [w |-> w, m |-> NoMsg])
  BY DEF EnrolleeSent, NoMsg, None
<1>8. \/ wps_enrollee_get_msg(w)
           \in {wps_build_m1(w), wps_build_m3(w), wps_build_m5(w), wps_build_m7(w),
                Send(w, "RECV_M2", Message(w, "ACK", None)),
                Send(w, w.st, Message(w, "NACK", None)), [w |-> w, m |-> NoMsg]}
      \/ w.st = "WPS_MSG_DONE" /\ wps_enrollee_get_msg(w) = wps_build_wsc_done(w)
  BY DEF wps_enrollee_get_msg
<1> QED BY <1>3, <1>4, <1>5, <1>6, <1>7, <1>8


-----------------------------------------------------------------------------
(* The registrar: a session makes its credential with M8, and reports a      *)
(* success for the Done that answers it.                                     *)

RegistrarSends == {"SEND_M2", "SEND_M2D", "SEND_M4", "SEND_M6", "SEND_M8", "SEND_WSC_NACK"}

RegistrarStep(s, m, p) ==
    /\ p.res = "WPS_CONTINUE" =>
         /\ IsSes(p.w) /\ p.w.uuid = s.uuid /\ p.w.n = s.n /\ p.w.new_psk = s.new_psk
         /\ p.w.st \in RegistrarSends
         /\ p.w.st # "SEND_WSC_NACK" => s.st \in BeforeM8
    /\ p.res = "WPS_DONE" =>
         /\ p.w = s /\ s.st = "RECV_DONE" /\ m.t = "Done" /\ m.ne = s.ne

\* A failure says nothing of the session; a result to go on with sets its state.
LEMMA RegRet ==
  ASSUME NEW s, NEW m, NEW r, NEW w, IsSes(w), w.uuid = s.uuid, w.n = s.n,
         w.new_psk = s.new_psk, NEW st \in RegistrarSends,
         st # "SEND_WSC_NACK" => s.st \in BeforeM8
  PROVE  RegistrarStep(s, m, RRet(r, w, st))
<1>1. PICK q : q = [w EXCEPT !.st = st]
  OBVIOUS
<1>2. IsSes(q) /\ q.uuid = w.uuid /\ q.n = w.n /\ q.new_psk = w.new_psk /\ q.st = st
  BY <1>1 DEF IsSes, SesFields
<1>3. RRet(r, w, st) = [r |-> r, w |-> q, res |-> "WPS_CONTINUE"]
  BY <1>1 DEF RRet
<1> QED BY <1>2, <1>3 DEF RegistrarStep

\* A failure ends the session.
LEMMA RegFailure ==
  ASSUME NEW s, NEW m, NEW r, NEW w
  PROVE  RegistrarStep(s, m, RFailure(r, w))
BY DEF RegistrarStep, RFailure

\* wps_process_m1: the session takes the enrollee's nonce, whatever it answers.
LEMMA RegM1 ==
  ASSUME NEW r, NEW s, IsSes(s), NEW m
  PROVE  RegistrarStep(s, m, wps_process_m1(r, s, m))
<1>1. PICK w : w = [s EXCEPT !.ne = m.ne]
  OBVIOUS
<1>2. PICK b : b = [w EXCEPT !.pbc = TRUE]
  OBVIOUS
<1>3. /\ IsSes(w) /\ w.uuid = s.uuid /\ w.n = s.n /\ w.new_psk = s.new_psk /\ w.st = s.st
      /\ IsSes(b) /\ b.uuid = s.uuid /\ b.n = s.n /\ b.new_psk = s.new_psk
  BY <1>1, <1>2 DEF IsSes, SesFields
<1>4. PICK f : f = [r EXCEPT !.force = TRUE]
  OBVIOUS
<1>5. \/ wps_process_m1(r, s, m) = RFailure(r, s)
      \/ /\ w.st = "RECV_M1"
         /\ wps_process_m1(r, s, m)
              \in {RRet(r, w, "SEND_M2D"), RRet(f, w, "SEND_M2D"), RRet(r, w, "SEND_M2"),
                   RRet(wps_registrar_add_pbc_session(r, w.uuid), b, "SEND_M2")}
  <2>1. CASE s.st # "RECV_M1"
    BY <1>1, <1>3, <2>1 DEF wps_process_m1
  <2>2. CASE s.st = "RECV_M1"
    <3> DEFINE o == r.force \/ wps_registrar_pbc_overlap(r, w.uuid)
    <3>1. wps_process_m1(r, s, m) =
            CASE w.dpi # "pbc" -> RRet(r, w, "SEND_M2")
              [] w.dpi = "pbc" /\ ~r.pbc -> RRet(r, w, "SEND_M2D")
              [] w.dpi = "pbc" /\ r.pbc /\ o -> RRet(f, w, "SEND_M2D")
              [] w.dpi = "pbc" /\ r.pbc /\ ~o ->
                   RRet(wps_registrar_add_pbc_session(r, w.uuid), b, "SEND_M2")
      BY <1>1, <1>2, <1>3, <1>4, <2>2, Zenon DEF wps_process_m1
    <3>2. w.st = "RECV_M1"
      BY <1>3, <2>2
    <3>3. CASE w.dpi # "pbc"
      BY <3>1, <3>2, <3>3, Zenon
    <3>4. CASE w.dpi = "pbc" /\ ~r.pbc
      BY <3>1, <3>2, <3>4, Zenon
    <3>5. CASE w.dpi = "pbc" /\ r.pbc /\ o
      BY <3>1, <3>2, <3>5, Zenon
    <3>6. CASE w.dpi = "pbc" /\ r.pbc /\ ~o
      BY <3>1, <3>2, <3>6, Zenon
    <3> QED BY <3>3, <3>4, <3>5, <3>6, Zenon
  <2> QED BY <2>1, <2>2
<1> QED BY <1>3, <1>5, RegRet, RegFailure DEF RegistrarSends, BeforeM8

\* wps_process_m3, m5 and m7 go on or answer with WSC_NACK.
LEMMA RegM357 ==
  ASSUME NEW r, NEW s, IsSes(s), NEW m
  PROVE  /\ RegistrarStep(s, m, wps_process_m3(r, s, m))
         /\ RegistrarStep(s, m, wps_process_m5(r, s, m))
         /\ RegistrarStep(s, m, wps_process_m7(r, s, m))
<1>1. PICK h : h = [s EXCEPT !.ph = m.h]
  OBVIOUS
<1>2. IsSes(h) /\ h.uuid = s.uuid /\ h.n = s.n /\ h.new_psk = s.new_psk
  BY <1>1 DEF IsSes, SesFields
<1>3. \A x : RegistrarStep(s, m, RNack(x, s))
  BY RegRet DEF RNack, RegistrarSends
<1>4. s.st \in BeforeM8 => /\ RegistrarStep(s, m, RRet(r, h, "SEND_M4"))
                            /\ RegistrarStep(s, m, RRet(r, s, "SEND_M6"))
                            /\ \A x : RegistrarStep(s, m, RRet(x, s, "SEND_M8"))
  BY <1>2, RegRet DEF RegistrarSends
<1>5. RegistrarStep(s, m, wps_process_m3(r, s, m))
  BY <1>1, <1>3, <1>4 DEF wps_process_m3, BeforeM8
<1>6. RegistrarStep(s, m, wps_process_m5(r, s, m))
  BY <1>3, <1>4 DEF wps_process_m5, BeforeM8
<1>7. s.st \in BeforeM8 => RegistrarStep(s, m, wps_process_e_snonce2(r, s))
  BY <1>3, <1>4 DEF wps_process_e_snonce2
<1>8. RegistrarStep(s, m, wps_process_m7(r, s, m))
  BY <1>3, <1>7 DEF wps_process_m7, BeforeM8
<1> QED BY <1>5, <1>6, <1>8

\* Every handler returns the registrar, the session and a result.
LEMMA RegShape ==
  ASSUME NEW r, NEW s, NEW m,
         NEW ret \in {wps_process_m1(r, s, m), wps_process_m3(r, s, m), wps_process_m5(r, s, m),
                      wps_process_m7(r, s, m), RFailure(r, s)}
  PROVE  ret = [r |-> ret.r, w |-> ret.w, res |-> ret.res]
<1>1. \E a, b, c : ret = [r |-> a, w |-> b, res |-> c]
  BY DEF wps_process_m1, wps_process_m3, wps_process_m5, wps_process_m7, wps_process_e_snonce2,
         RFailure, RNack, RRet
<1> QED BY <1>1

\* The message just answered is kept in last_msg.
LEMMA RegLast ==
  ASSUME NEW s, NEW m, NEW ret, RegistrarStep(s, m, ret), NEW v,
         ret = [r |-> ret.r, w |-> ret.w, res |-> ret.res], ret.res # "WPS_DONE"
  PROVE  RegistrarStep(s, m, [ret EXCEPT !.w.last = v])
<1>1. PICK q : q = [ret.w EXCEPT !.last = v]
  OBVIOUS
<1>2. [ret EXCEPT !.w.last = v] = [r |-> ret.r, w |-> q, res |-> ret.res]
  BY <1>1
<1>3. IsSes(ret.w) => /\ IsSes(q) /\ q.uuid = ret.w.uuid /\ q.n = ret.w.n
                      /\ q.new_psk = ret.w.new_psk /\ q.st = ret.w.st
  BY <1>1 DEF IsSes, SesFields
<1> QED BY <1>2, <1>3 DEF RegistrarStep

\* wps_registrar_process_msg.
LEMMA RegProcess ==
  ASSUME NEW r, NEW s, IsSes(s), NEW m
  PROVE  RegistrarStep(s, m, wps_registrar_process_msg(r, s, m))
<1> DEFINE ret == CASE m.t = "M1" -> wps_process_m1(r, s, m)
                    [] m.t = "M3" -> wps_process_m3(r, s, m)
                    [] m.t = "M5" -> wps_process_m5(r, s, m)
                    [] m.t = "M7" -> wps_process_m7(r, s, m)
                    [] OTHER -> RFailure(r, s)
           last == IF ret.res = "WPS_CONTINUE" THEN m.t ELSE ret.w.last
<1>1. RegistrarStep(s, m, ret)
  BY RegM1, RegM357, RegFailure
<1>2. ret \in {wps_process_m1(r, s, m), wps_process_m3(r, s, m), wps_process_m5(r, s, m),
               wps_process_m7(r, s, m), RFailure(r, s)}
  OBVIOUS
<1>3. wps_registrar_process_wsc_msg(r, s, m) \in {RFailure(r, s), [ret EXCEPT !.w.last = last]}
  BY DEF wps_registrar_process_wsc_msg
<1> HIDE DEF ret, last
<1>4. ret.res # "WPS_DONE"
  BY <1>2 DEF wps_process_m1, wps_process_m3, wps_process_m5, wps_process_m7,
              wps_process_e_snonce2, RFailure, RNack, RRet
<1>5. RegistrarStep(s, m, [ret EXCEPT !.w.last = last])
  BY <1>1, <1>2, <1>4, RegLast, RegShape
<1>6. RegistrarStep(s, m, wps_registrar_process_wsc_msg(r, s, m))
  BY <1>3, <1>5, RegFailure
<1>7. CASE m.t = "Done" /\ s.st = "RECV_DONE" /\ m.nr = s.nr /\ m.ne = s.ne
  <2>1. PICK x : wps_registrar_process_msg(r, s, m) = [r |-> x, w |-> s, res |-> "WPS_DONE"]
    BY <1>7 DEF wps_registrar_process_msg, WscMsgs
  <2> QED BY <1>7, <2>1 DEF RegistrarStep
<1>8. CASE ~(m.t = "Done" /\ s.st = "RECV_DONE" /\ m.nr = s.nr /\ m.ne = s.ne)
  <2>1. wps_registrar_process_msg(r, s, m)
          \in {wps_registrar_process_wsc_msg(r, s, m), RFailure(r, s)}
    BY <1>8 DEF wps_registrar_process_msg
  <2> QED BY <2>1, <1>6, RegFailure
<1> QED BY <1>7, <1>8


\* What a session sends: M8 with the credential made for it there and then,
\* everything else with the keys it had.
RegistrarSent(w, g, k) ==
    /\ IsSes(g.w) /\ g.w.uuid = w.uuid /\ g.w.n = w.n
    /\ g.w.st \in BeforeM8 => g.w.new_psk = w.new_psk /\ w.st # "SEND_WSC_NACK"
    /\ g.w.st = "RECV_DONE" => w.st = "SEND_M8"
    /\ w.st = "SEND_M8" => g.m.x.x = g.w.cred /\ CredOK(w.uuid, g.w, k)
    /\ g.m.t = "M8" => w.st = "SEND_M8"

\* A message other than M8.
LEMMA RegSend ==
  ASSUME NEW w, NEW k, IsSes(k), k.uuid = w.uuid, k.n = w.n, k.new_psk = w.new_psk,
         w.st # "SEND_M8", NEW r, NEW st, NEW m, m.t # "M8", st # "RECV_DONE",
         st \in BeforeM8 => w.st # "SEND_WSC_NACK", NEW c
  PROVE  RegistrarSent(w, RSend(r, k, st, m), c)
<1>1. PICK l : l = IF m.t \in WscMsgs THEN m.t ELSE k.last
  OBVIOUS
<1>2. PICK q : q = [k EXCEPT !.st = st, !.last = l]
  OBVIOUS
<1>3. RSend(r, k, st, m) = [r |-> r, w |-> q, m |-> m]
  BY <1>1, <1>2 DEF RSend, Send
<1>4. IsSes(q) /\ q.uuid = k.uuid /\ q.n = k.n /\ q.new_psk = k.new_psk /\ q.st = st
  BY <1>2 DEF IsSes, SesFields
<1> QED BY <1>3, <1>4 DEF RegistrarSent

\* wps_build_cred changes the session's key and credential only.
CredMade(w, c) == \E nk, cr : c = [w EXCEPT !.new_psk = nk, !.cred = cr]

\* In each of its four branches.
LEMMA CredShape ==
  ASSUME NEW w, IsSes(w)
  PROVE  CredMade(w, wps_build_cred(w))
<1>1. PICK made, nk : made = <<w.uuid, w.n>> /\ nk = ap.network_key
  OBVIOUS
<1>2. PICK c : c = wps_build_cred(w)
  OBVIOUS
<1>3. \/ c = [w EXCEPT !.new_psk = made, !.cred = made]
      \/ c = [w EXCEPT !.cred = Zeros]
      \/ c = [w EXCEPT !.cred = nk]
      \/ c = [w EXCEPT !.new_psk = made, !.cred = Residue]
  BY <1>1, <1>2 DEF wps_build_cred
<1>4. PICK old : old = w.new_psk
  OBVIOUS
<1>5. \A x : [w EXCEPT !.cred = x] = [w EXCEPT !.new_psk = old, !.cred = x]
  BY <1>4 DEF IsSes, SesFields
<1>6. \E k, x : c = [w EXCEPT !.new_psk = k, !.cred = x]
  BY <1>3, <1>5
<1> QED BY <1>2, <1>6 DEF CredMade

\* wps_build_m8: a new key for an unconfigured access point; else the raw PSK,
\* the network's key, or a key of the station's own that is not sent.
LEMMA RegM8 ==
  ASSUME NEW r, NEW w, IsSes(w), w.st = "SEND_M8", w.new_psk = NoKey, w.n # 0,
         ContextOK(ap)
  PROVE  RegistrarSent(w, wps_build_m8(r, w), ap)
<1>1. PICK c : c = wps_build_cred(w)
  OBVIOUS
<1>2. IsSes(c) /\ c.uuid = w.uuid /\ c.n = w.n /\ CredOK(w.uuid, c, ap)
  <2>1. PICK key, nk : key = <<w.uuid, w.n>> /\ nk = ap.network_key
    OBVIOUS
  <2>2. key # NoKey
    BY <2>1 DEF NoKey
  <2>3. CASE ~ap.configured
    <3>1. c = [w EXCEPT !.new_psk = key, !.cred = key]
      BY <1>1, <2>1, <2>3 DEF wps_build_cred
    <3>2. IsSes(c) /\ c.uuid = w.uuid /\ c.n = w.n /\ c.new_psk = key /\ c.cred = key
      BY <3>1 DEF IsSes, SesFields
    <3> QED BY <3>2, <2>2 DEF CredOK
  <2>4. CASE ap.configured /\ use_psk_key(w) /\ ap.psk_set
    <3>1. c = [w EXCEPT !.cred = Zeros]
      BY <1>1, <2>4 DEF wps_build_cred
    <3>2. IsSes(c) /\ c.uuid = w.uuid /\ c.n = w.n /\ c.new_psk = NoKey /\ c.cred = Zeros
      BY <3>1 DEF IsSes, SesFields
    <3> QED BY <2>4, <3>2 DEF CredOK, use_psk_key
  <2>5. CASE ap.configured /\ ~(use_psk_key(w) /\ ap.psk_set) /\ ap.network_key # NoKey
    <3>1. c = [w EXCEPT !.cred = nk]
      BY <1>1, <2>1, <2>5 DEF wps_build_cred
    <3>2. IsSes(c) /\ c.uuid = w.uuid /\ c.n = w.n /\ c.new_psk = NoKey /\ c.cred = nk
      BY <3>1 DEF IsSes, SesFields
    <3> QED BY <2>1, <2>5, <3>2 DEF CredOK
  <2>6. CASE ap.configured /\ ~(use_psk_key(w) /\ ap.psk_set) /\ ap.network_key = NoKey
    <3>1. c = [w EXCEPT !.new_psk = key, !.cred = Residue]
      BY <1>1, <2>1, <2>6 DEF wps_build_cred
    <3>2. IsSes(c) /\ c.uuid = w.uuid /\ c.n = w.n /\ c.new_psk = key /\ c.cred = Residue
      BY <3>1 DEF IsSes, SesFields
    <3> QED BY <2>2, <2>6, <3>2 DEF CredOK
  <2> QED BY <2>3, <2>4, <2>5, <2>6
<1>3. PICK m : m = Message(c, "M8", wps_build_encr_settings(c, c.cred))
  OBVIOUS
<1>4. m.t = "M8" /\ m.x.x = c.cred
  BY <1>3 DEF Message, wps_build_encr_settings
<1>5. PICK q : q = [c EXCEPT !.st = "RECV_DONE", !.last = "M8"]
  OBVIOUS
<1>6. wps_build_m8(r, w) = [r |-> r, w |-> q, m |-> m]
  BY <1>1, <1>3, <1>4, <1>5 DEF wps_build_m8, RSend, Send, WscMsgs
<1>7. IsSes(q) /\ q.uuid = c.uuid /\ q.n = c.n /\ q.new_psk = c.new_psk /\ q.cred = c.cred
      /\ q.st = "RECV_DONE"
  BY <1>2, <1>5 DEF IsSes, SesFields
<1>8. CredOK(w.uuid, q, ap)
  BY <1>2, <1>7 DEF CredOK
<1> QED BY <1>2, <1>4, <1>6, <1>7, <1>8 DEF RegistrarSent, BeforeM8

\* wps_build_m2: the session's password, then its nonce and its keys.
LEMMA RegM2 ==
  ASSUME NEW r, NEW w, IsSes(w), w.st = "SEND_M2", NEW c
  PROVE  RegistrarSent(w, SendM2(r, w), c)
<1>1. PICK g : g = wps_get_dev_password(r, w)
  OBVIOUS
<1>2. PICK p : p = [w EXCEPT !.pw = g.pin.pin, !.pin = g.pin.id]
  OBVIOUS
<1>3. PICK k : k = wps_derive_keys([p EXCEPT !.nr = p.n])
  OBVIOUS
<1>4. IsSes(k) /\ k.uuid = w.uuid /\ k.n = w.n /\ k.new_psk = w.new_psk
  <2>1. IsSes(p) /\ p.uuid = w.uuid /\ p.n = w.n /\ p.new_psk = w.new_psk
    BY <1>2 DEF IsSes, SesFields
  <2>2. PICK z : z = [p EXCEPT !.nr = p.n]
    OBVIOUS
  <2>3. IsSes(z) /\ z.uuid = p.uuid /\ z.n = p.n /\ z.new_psk = p.new_psk
    BY <2>1, <2>2 DEF IsSes, SesFields
  <2>4. PICK y : y = <<z.ne, z.nr>>
    OBVIOUS
  <2>5. k = [z EXCEPT !.key = y]
    BY <1>3, <2>2, <2>4 DEF wps_derive_keys
  <2>6. IsSes(k) /\ k.uuid = z.uuid /\ k.n = z.n /\ k.new_psk = z.new_psk
    BY <2>3, <2>5 DEF IsSes, SesFields
  <2> QED BY <2>1, <2>3, <2>6
<1>5. SendM2(r, w) \in {wps_build_m2d(g.r, w), wps_build_m2(g.r, p)}
  BY <1>1, <1>2 DEF SendM2
<1>6. RegistrarSent(w, wps_build_m2d(g.r, w), c)
  BY RegSend DEF wps_build_m2d, Message, BeforeM8
<1>7. RegistrarSent(w, wps_build_m2(g.r, p), c)
  <2>1. PICK m : m = Message(k, "M2", None)
    OBVIOUS
  <2>2. m.t = "M2"
    BY <2>1 DEF Message
  <2>3. wps_build_m2(g.r, p) = RSend(g.r, k, "RECV_M3", m)
    BY <1>3, <2>1 DEF wps_build_m2
  <2> QED BY <1>4, <2>2, <2>3, RegSend
<1> QED BY <1>5, <1>6, <1>7

\* wps_registrar_get_msg, in the states wps_registrar_process_msg leaves.
LEMMA RegGetMsg ==
  ASSUME NEW r, NEW w, IsSes(w), w.st \in RegistrarSends,
         w.st # "SEND_WSC_NACK" => w.new_psk = NoKey, w.n # 0, ContextOK(ap)
  PROVE  RegistrarSent(w, wps_registrar_get_msg(r, w), ap)
<1>0. \A t, x : Message(w, t, x).t = t
  BY DEF Message
<1>1. CASE w.st = "SEND_M2"
  BY <1>1, RegM2 DEF wps_registrar_get_msg
<1>2. CASE w.st = "SEND_M8"
  BY <1>2, RegM8 DEF wps_registrar_get_msg
<1>3. CASE w.st = "SEND_M2D"
  <2>1. PICK m : m = Message(w, "M2D", None) /\ m.t = "M2D"
    BY <1>0
  <2>2. wps_registrar_get_msg(r, w) = RSend(r, w, "RECV_M2D_ACK", m)
    BY <1>3, <2>1 DEF wps_registrar_get_msg, wps_build_m2d
  <2> QED BY <1>3, <2>1, <2>2, RegSend
<1>4. CASE w.st = "SEND_M6"
  <2>1. PICK m : m = Message(w, "M6", wps_build_encr_settings(w, "R-S2")) /\ m.t = "M6"
    BY <1>0
  <2>2. wps_registrar_get_msg(r, w) = RSend(r, w, "RECV_M7", m)
    BY <1>4, <2>1 DEF wps_registrar_get_msg, wps_build_m6
  <2> QED BY <1>4, <2>1, <2>2, RegSend
<1>5. CASE w.st = "SEND_M4"
  <2>1. PICK m : m = [Message(w, "M4", wps_build_encr_settings(w, "R-S1"))
                        EXCEPT !.h = wps_build_r_hash(w)]
    OBVIOUS
  <2>2. m.t = "M4"
    BY <2>1 DEF Message
  <2>3. wps_registrar_get_msg(r, w) = RSend(r, w, "RECV_M5", m)
    BY <1>5, <2>1 DEF wps_registrar_get_msg, wps_build_m4
  <2> QED BY <1>5, <2>2, <2>3, RegSend
<1>6. CASE w.st = "SEND_WSC_NACK"
  <2>1. PICK m : m = Message(w, "NACK", None) /\ m.t = "NACK"
    BY <1>0
  <2>2. wps_registrar_get_msg(r, w) = RSend(r, w, w.st, m)
    BY <1>6, <2>1 DEF wps_registrar_get_msg
  <2> QED BY <1>6, <2>1, <2>2, RegSend DEF BeforeM8
<1> QED BY <1>1, <1>2, <1>3, <1>4, <1>5, <1>6 DEF RegistrarSends


-----------------------------------------------------------------------------
(* One enrollee's part of the invariant *)

\* What others may do to the keys: configure the access point and install the
\* key the application was told of.
KeysKept(e, k1, k2) ==
    k1.configured => /\ k2.configured /\ k2.psk[e] = k1.psk[e]
                     /\ k1.network_key # NoKey => k2.network_key = k1.network_key
                     /\ k1.told # NoKey => k1.told \in {k2.told, k2.network_key}
                     /\ k1.psk_set => k2.psk_set

\* A key that was accepted, or handed out, stays so.
LEMMA KeysKeptInv ==
  ASSUME NEW e \in Enrollees, NEW a, NEW s, NEW n, NEW k1, NEW k2, NEW d1, NEW d2,
         EnrolleeInv(e, a, s, n, k1, d1), KeysKept(e, k1, k2),
         \A i : <<e, i>> \in d2 <=> <<e, i>> \in d1
  PROVE  EnrolleeInv(e, a, s, n, k2, d2)
<1>1. DoneOK(e, a, n, k1) => DoneOK(e, a, n, k2)
  BY DEF DoneOK, StoredOK, KeysKept
<1>2. CredOK(e, s, k1) => CredOK(e, s, k2)
  BY DEF CredOK, KeysKept
<1>3. SessionOK(e, a, s, k1, d1) => SessionOK(e, a, s, k2, d2)
  BY <1>2 DEF SessionOK
<1> QED BY <1>1, <1>3 DEF EnrolleeInv

\* wps_init: a fresh struct wps_data.
LEMMA FreshEnrollee ==
  ASSUME NEW i
  PROVE  IsEnr(Enrollee(i)) /\ Enrollee(i).ne = i
<1>1. PICK z, y : z = <<>> /\ y = <<0, 0>>
  OBVIOUS
<1>2. PICK b : b = [st |-> "SEND_M1", ne |-> i, nr |-> 0, key |-> NoKey, last |-> None,
                    ph |-> z, cred |-> NoKey, run |-> FALSE, pw |-> y]
  OBVIOUS
<1>3. Enrollee(i) = b
  BY <1>1, <1>2, Zenon DEF Enrollee
<1>4. IsEnr(b) /\ b.ne = i
  BY <1>2 DEF IsEnr, EnrFields
<1> QED BY <1>3, <1>4

\* wps_finish: the credential outlives the exchange.
LEMMA OverKeeps ==
  ASSUME NEW w
  PROVE  IsEnr(Over(w)) /\ Over(w).ne = w.ne /\ Over(w).cred = w.cred
<1>1. PICK b : b = Enrollee(w.ne)
  OBVIOUS
<1>2. IsEnr(b) /\ b.ne = w.ne
  BY <1>1, FreshEnrollee
<1>3. PICK q : q = [b EXCEPT !.cred = w.cred]
  OBVIOUS
<1>4. Over(w) = q
  BY <1>1, <1>3 DEF Over
<1>5. IsEnr(q) /\ q.ne = w.ne /\ q.cred = w.cred
  BY <1>2, <1>3 DEF IsEnr, EnrFields
<1> QED BY <1>4, <1>5

\* The exchange of an enrollee ends: it keeps its credential.
LEMMA OverInv ==
  ASSUME NEW e, NEW a, NEW s, NEW n, NEW k, NEW done, EnrolleeInv(e, a, s, n, k, done),
         NEW w, w.ne = a.ne, <<e, a.ne>> \in done => w.cred = a.cred,
         NEW n2, n2.d = None
  PROVE  EnrolleeInv(e, Over(w), s, n2, k, done)
<1>1. PICK b : b = Over(w)
  OBVIOUS
<1>2. IsEnr(b) /\ b.ne = a.ne /\ b.cred = w.cred
  BY <1>1, OverKeeps
<1>3. n2.d # "req" /\ n2.d # "rsp"
  BY DEF None
<1>4. <<e, b.ne>> \in done => DoneOK(e, b, n2, k)
  BY <1>2, <1>3 DEF EnrolleeInv, DoneOK
<1>5. s # NoSession => SessionOK(e, b, s, k, done) /\ FrameOK(b, s, n2)
  BY <1>2, <1>3 DEF EnrolleeInv, SessionOK, FrameOK
<1>6. EnrolleeInv(e, b, s, n2, k, done)
  BY <1>2, <1>4, <1>5 DEF EnrolleeInv
<1> QED BY <1>1, <1>6

\* A frame is lost, or ignored.
LEMMA IdleInv ==
  ASSUME NEW e, NEW a, NEW s, NEW n, NEW k, NEW done, EnrolleeInv(e, a, s, n, k, done)
  PROVE  EnrolleeInv(e, a, s, Idle, k, done)
<1>1. Idle.d # "req" /\ Idle.d # "rsp"
  BY DEF Idle, None
<1>2. PICK n2 : n2 = Idle
  OBVIOUS
<1>3. EnrolleeInv(e, a, s, n2, k, done)
  BY <1>1, <1>2 DEF EnrolleeInv, FrameOK, DoneOK
<1> QED BY <1>2, <1>3

\* The enrollee answers: a Done carries on the credential of the M8 it answers.
LEMMA AnswerInv ==
  ASSUME NEW e, NEW a, NEW s, NEW n, NEW k, NEW done, EnrolleeInv(e, a, s, n, k, done),
         a.run, n.d = "req", n.m.t # "EAP-Failure",
         NEW p, EnrolleeStep(a, n.m, p), p.res = "WPS_CONTINUE",
         NEW g, EnrolleeSent(p.w, g),
         NEW n2, n2.d = "rsp", n2.m = g.m
  PROVE  EnrolleeInv(e, g.w, s, n2, k, done)
<1>1. IsEnr(g.w) /\ g.w.ne = a.ne
  BY DEF EnrolleeStep, EnrolleeSent
<1>2. <<e, a.ne>> \notin done
  BY DEF EnrolleeInv, DoneOK
<1>3. s # NoSession => SessionOK(e, g.w, s, k, done)
  BY <1>1 DEF EnrolleeInv, SessionOK
<1>4. s # NoSession => FrameOK(g.w, s, n2)
  <2>1. g.m.t = "Done" => n.m.t = "M8" /\ g.w.cred = n.m.x.x /\ g.m.ne = a.ne
    BY DEF EnrolleeStep, EnrolleeSent
  <2> QED BY <1>1, <2>1 DEF EnrolleeInv, FrameOK
<1> QED BY <1>1, <1>2, <1>3, <1>4 DEF EnrolleeInv

\* A session goes on: what it sends is in the air.
LEMMA SessionInv ==
  ASSUME NEW e, NEW a, NEW s, NEW n, NEW k, NEW done, EnrolleeInv(e, a, s, n, k, done),
         s # NoSession, NEW p, RegistrarStep(s, n.m, p), p.res = "WPS_CONTINUE",
         NEW g, RegistrarSent(p.w, g, k),
         NEW n2, n2.d = "req", n2.m = g.m
  PROVE  EnrolleeInv(e, a, g.w, n2, k, done)
<1>1. SessionOK(e, a, s, k, done)
  BY DEF EnrolleeInv
<1>2. SessionOK(e, a, g.w, k, done)
  <2>1. IsSes(g.w) /\ g.w.uuid = e /\ g.w.n = a.ne /\ a.ne # 0 /\ <<e, a.ne>> \notin done
    BY <1>1 DEF SessionOK, RegistrarStep, RegistrarSent
  <2>2. g.w.st \in BeforeM8 => g.w.new_psk = NoKey
    BY <1>1 DEF SessionOK, RegistrarStep, RegistrarSent
  <2>3. g.w.st = "RECV_DONE" => CredOK(e, g.w, k)
    BY <1>1 DEF RegistrarSent, RegistrarStep, SessionOK
  <2> QED BY <2>1, <2>2, <2>3 DEF SessionOK
<1>3. FrameOK(a, g.w, n2)
  BY DEF FrameOK, RegistrarSent
<1> QED BY <1>1, <1>2, <1>3 DEF EnrolleeInv, SessionOK

\* A session ends without a success.
LEMMA EndInv ==
  ASSUME NEW e, NEW a, NEW s, NEW n, NEW k, NEW done, EnrolleeInv(e, a, s, n, k, done),
         s # NoSession, NEW n2
  PROVE  EnrolleeInv(e, a, NoSession, n2, k, done)
BY DEF EnrolleeInv, SessionOK

\* A session ends with a success.
LEMMA SuccessInv ==
  ASSUME NEW e, NEW a, NEW s, NEW n, NEW k, NEW done, EnrolleeInv(e, a, s, n, k, done),
         s # NoSession, n.d = "rsp", NEW p, RegistrarStep(s, n.m, p), p.res = "WPS_DONE",
         NEW k2, k2.configured, StoredOK(e, s.cred, k2),
         NEW done2, done2 = done \cup {<<e, s.ne>>},
         NEW n2, n2.d = "req", n2.m.t = "EAP-Failure"
  PROVE  EnrolleeInv(e, a, NoSession, n2, k2, done2)
<1>1. SessionOK(e, a, s, k, done) /\ FrameOK(a, s, n)
  BY DEF EnrolleeInv
<1>2. s.ne = a.ne /\ a.cred = s.cred
  BY <1>1 DEF SessionOK, FrameOK, RegistrarStep
<1>3. DoneOK(e, a, n2, k2)
  BY <1>2 DEF DoneOK
<1>4. \A i : <<e, i>> \in done2 => i \in Nat /\ i <= a.ne
  BY <1>2 DEF EnrolleeInv
<1> QED BY <1>3, <1>4 DEF EnrolleeInv


-----------------------------------------------------------------------------
(* The steps of the specification *)

\* A step of one enrollee's exchange preserves the invariant of all when it
\* preserves its own and keeps the keys of the others.
LEMMA StepOfOne ==
  ASSUME RegInv, NEW e \in Enrollees,
         PerEnrollee(enr'), PerEnrollee(ses'), PerEnrollee(net'),
         "done" \in DOMAIN hist', ContextOK(ap'),
         \A f \in Enrollees \ {e} : /\ enr'[f] = enr[f] /\ ses'[f] = ses[f] /\ net'[f] = net[f]
                                    /\ KeysKept(f, ap, ap')
                                    /\ \A i : <<f, i>> \in hist'.done <=> <<f, i>> \in hist.done,
         EnrolleeInv(e, enr'[e], ses'[e], net'[e], ap', hist'.done)
  PROVE  RegInv'
<1>1. ASSUME NEW f \in Enrollees \ {e}
      PROVE  EnrolleeInv(f, enr'[f], ses'[f], net'[f], ap', hist'.done)
  <2>1. EnrolleeInv(f, enr[f], ses[f], net[f], ap, hist.done)
    BY DEF RegInv
  <2>2. PICK k2, d2 : k2 = ap' /\ d2 = hist'.done
    OBVIOUS
  <2>3. KeysKept(f, ap, k2) /\ \A i : <<f, i>> \in d2 <=> <<f, i>> \in hist.done
    BY <2>2
  <2>4. EnrolleeInv(f, enr[f], ses[f], net[f], k2, d2)
    BY <2>1, <2>3, KeysKeptInv
  <2> QED BY <2>2, <2>4
<1>2. \A f \in Enrollees : EnrolleeInv(f, enr'[f], ses'[f], net'[f], ap', hist'.done)
  BY <1>1
<1> QED BY <1>2 DEF RegInv

\* The same for a step that leaves the access point's keys and successes alone.
LEMMA StepOfOneSame ==
  ASSUME RegInv, NEW e \in Enrollees,
         PerEnrollee(enr'), PerEnrollee(ses'), PerEnrollee(net'), ap' = ap, hist' = hist,
         \A f \in Enrollees \ {e} : enr'[f] = enr[f] /\ ses'[f] = ses[f] /\ net'[f] = net[f],
         EnrolleeInv(e, enr'[e], ses'[e], net'[e], ap, hist.done)
  PROVE  RegInv'
<1>1. ContextOK(ap') /\ "done" \in DOMAIN hist'
  BY DEF RegInv
<1>2. \A f \in Enrollees : KeysKept(f, ap, ap')
  BY DEF KeysKept
<1>3. EnrolleeInv(e, enr'[e], ses'[e], net'[e], ap', hist'.done)
  OBVIOUS
<1> QED BY <1>1, <1>2, <1>3, StepOfOne

\* StartExchange: a new nonce, which no success was reported for.
LEMMA StartStep ==
  ASSUME RegInv, NEW e \in Enrollees, NEW mode, StartExchange(e, mode)
  PROVE  RegInv'
<1>0. /\ PerEnrollee(enr) /\ PerEnrollee(ses) /\ PerEnrollee(net)
      /\ EnrolleeInv(e, enr[e], ses[e], net[e], ap, hist.done)
  BY DEF RegInv
<1>1. PICK b : b = Enrollee(enr[e].ne + 1)
  OBVIOUS
<1>2. PICK pw, z, y : /\ pw = IF mode = "pbc" THEN <<0, 0>> ELSE PinOf[e]
                      /\ z = <<>> /\ y = <<0, 0>>
  OBVIOUS
<1>3. PICK a : a = [b EXCEPT !.run = TRUE, !.pw = pw]
  OBVIOUS
<1>4. IsEnr(a) /\ a.ne = enr[e].ne + 1
  <2>1. IsEnr(b) /\ b.ne = enr[e].ne + 1
    BY <1>1, FreshEnrollee
  <2> QED BY <1>3, <2>1 DEF IsEnr, EnrFields
<1>5. enr' = [enr EXCEPT ![e] = a]
  BY <1>1, <1>2, <1>3, Zenon DEF StartExchange
<1>6. PerEnrollee(enr') /\ enr'[e] = a /\ \A f \in Enrollees \ {e} : enr'[f] = enr[f]
  BY <1>0, <1>5 DEF PerEnrollee
<1>7. PICK s : s = [st |-> "RECV_M1", uuid |-> e, dpi |-> mode, ne |-> 0, nr |-> 0,
                    n |-> a.ne, key |-> NoKey, last |-> None, pbc |-> FALSE, pw |-> y,
                    ph |-> z, pin |-> 0, new_psk |-> NoKey, cred |-> NoKey]
  OBVIOUS
<1>8. ses' = [ses EXCEPT ![e] = s]
  BY <1>2, <1>6, <1>7, Zenon DEF StartExchange
<1>9. PICK n : n = [d |-> "req", m |-> [t |-> "Start"]]
  OBVIOUS
<1>10. net' = [net EXCEPT ![e] = n] /\ ap' = ap /\ hist' = hist
  BY <1>9 DEF StartExchange
<1>11. EnrolleeInv(e, a, s, n, ap, hist.done)
  <2>1. enr[e].ne \in Nat /\ \A i : <<e, i>> \in hist.done => i \in Nat /\ i <= enr[e].ne
    BY <1>0 DEF EnrolleeInv
  <2>2. /\ a.ne \in Nat /\ a.ne # 0 /\ <<e, a.ne>> \notin hist.done
        /\ \A i : <<e, i>> \in hist.done => i \in Nat /\ i <= a.ne
    BY <1>4, <2>1
  <2>3. IsSes(s) /\ s.uuid = e /\ s.n = a.ne /\ s.new_psk = NoKey /\ s.st = "RECV_M1"
    BY <1>7 DEF IsSes, SesFields
  <2>4. SessionOK(e, a, s, ap, hist.done)
    BY <2>2, <2>3 DEF SessionOK
  <2>5. FrameOK(a, s, n)
    BY <1>9 DEF FrameOK
  <2> QED BY <1>4, <2>2, <2>4, <2>5 DEF EnrolleeInv
<1>12. PerEnrollee(ses') /\ ses'[e] = s /\ \A f \in Enrollees \ {e} : ses'[f] = ses[f]
  BY <1>0, <1>8 DEF PerEnrollee
<1>13. PerEnrollee(net') /\ net'[e] = n /\ \A f \in Enrollees \ {e} : net'[f] = net[f]
  BY <1>0, <1>10 DEF PerEnrollee
<1> QED BY <1>6, <1>10, <1>11, <1>12, <1>13, StepOfOneSame


\* EnrolleeRx: the enrollee answers, ignores a repetition, or gives up.
LEMMA EnrolleeRxStep ==
  ASSUME RegInv, NEW e \in Enrollees, EnrolleeRx(e)
  PROVE  RegInv'
<1>0. /\ PerEnrollee(enr) /\ PerEnrollee(ses) /\ PerEnrollee(net)
      /\ EnrolleeInv(e, enr[e], ses[e], net[e], ap, hist.done)
  BY DEF RegInv
<1>1. enr[e].run /\ net[e].d = "req" /\ ses' = ses /\ ap' = ap /\ hist' = hist
  BY DEF EnrolleeRx
<1>2. PICK p : p = IF net[e].m.t = "EAP-Failure" THEN Failure(enr[e])
                   ELSE wps_enrollee_process_msg(enr[e], net[e].m)
  OBVIOUS
<1>3. PICK g : g = wps_enrollee_get_msg(p.w)
  OBVIOUS
<1>4. (CASE p.res = "WPS_CONTINUE" /\ g.m # NoMsg ->
                 /\ enr' = [enr EXCEPT ![e] = g.w]
                 /\ net' = [net EXCEPT ![e] = [d |-> "rsp", m |-> g.m]]
         [] p.res = "WPS_IGNORE" -> UNCHANGED enr /\ net' = [net EXCEPT ![e] = Idle]
         [] OTHER -> enr' = [enr EXCEPT ![e] = Over(p.w)] /\ net' = [net EXCEPT ![e] = Idle])
  BY <1>2, <1>3, Zenon DEF EnrolleeRx
<1>5. IsEnr(enr[e])
  BY <1>0 DEF EnrolleeInv
<1>6. EnrolleeStep(enr[e], net[e].m, p)
  BY <1>2, <1>5, EnrProcess, EnrSame
<1>7. EnrolleeSent(p.w, g)
  BY <1>3, <1>6, EnrGetMsg DEF EnrolleeStep
<1>8. CASE p.res = "WPS_CONTINUE" /\ g.m # NoMsg
  <2>1. PICK n : n = [d |-> "rsp", m |-> g.m]
    OBVIOUS
  <2>2. n.d = "rsp" /\ n.m = g.m
    BY <2>1
  <2>3. enr' = [enr EXCEPT ![e] = g.w] /\ net' = [net EXCEPT ![e] = n]
    BY <1>4, <1>8, <2>1
  <2>4. net[e].m.t # "EAP-Failure"
    BY <1>2, <1>8 DEF Failure
  <2>5. EnrolleeInv(e, g.w, ses[e], n, ap, hist.done)
    BY <1>0, <1>1, <1>6, <1>7, <1>8, <2>2, <2>4, AnswerInv
  <2>6. PerEnrollee(enr') /\ enr'[e] = g.w /\ \A f \in Enrollees \ {e} : enr'[f] = enr[f]
    BY <1>0, <2>3 DEF PerEnrollee
  <2>7. PerEnrollee(net') /\ net'[e] = n /\ \A f \in Enrollees \ {e} : net'[f] = net[f]
    BY <1>0, <2>3 DEF PerEnrollee
  <2> QED BY <1>0, <1>1, <2>5, <2>6, <2>7, StepOfOneSame
<1>9. CASE p.res = "WPS_IGNORE"
  <2>1. enr' = enr /\ net' = [net EXCEPT ![e] = Idle]
    BY <1>4, <1>9
  <2>2. PerEnrollee(net') /\ net'[e] = Idle /\ \A f \in Enrollees \ {e} : net'[f] = net[f]
    BY <1>0, <2>1 DEF PerEnrollee
  <2>3. EnrolleeInv(e, enr[e], ses[e], Idle, ap, hist.done)
    BY <1>0, IdleInv
  <2> QED BY <1>0, <1>1, <2>1, <2>2, <2>3, StepOfOneSame
<1>10. CASE ~(p.res = "WPS_CONTINUE" /\ g.m # NoMsg) /\ p.res # "WPS_IGNORE"
  <2>1. enr' = [enr EXCEPT ![e] = Over(p.w)] /\ net' = [net EXCEPT ![e] = Idle]
    BY <1>4, <1>10
  <2>2. p.w.ne = enr[e].ne /\ (<<e, enr[e].ne>> \in hist.done => p.w.cred = enr[e].cred)
    <3>1. p.w.ne = enr[e].ne
      BY <1>6 DEF EnrolleeStep
    <3>2. <<e, enr[e].ne>> \in hist.done => net[e].m.t = "EAP-Failure"
      BY <1>0, <1>1 DEF EnrolleeInv, DoneOK
    <3> QED BY <1>2, <3>1, <3>2 DEF Failure
  <2>3. Idle.d = None
    BY DEF Idle
  <2>4. EnrolleeInv(e, Over(p.w), ses[e], Idle, ap, hist.done)
    BY <1>0, <2>2, <2>3, OverInv
  <2>5. PerEnrollee(enr') /\ enr'[e] = Over(p.w) /\ \A f \in Enrollees \ {e} : enr'[f] = enr[f]
    BY <1>0, <2>1 DEF PerEnrollee
  <2>6. PerEnrollee(net') /\ net'[e] = Idle /\ \A f \in Enrollees \ {e} : net'[f] = net[f]
    BY <1>0, <2>1 DEF PerEnrollee
  <2> QED BY <1>0, <1>1, <2>4, <2>5, <2>6, StepOfOneSame
<1> QED BY <1>8, <1>9, <1>10

\* wps_process_wsc_done: the key of the session is reported or registered, and
\* the keys of the others are kept.
LEMMA DoneKeys ==
  ASSUME ContextOK(ap), NEW s, NEW e \in Enrollees, s.uuid = e, CredOK(e, s, ap),
         NEW k, k = wps_process_wsc_done(s)
  PROVE  /\ ContextOK(k) /\ k.configured /\ StoredOK(e, s.cred, k)
         /\ \A f \in Enrollees \ {e} : KeysKept(f, ap, k)
<1>1. CASE ~ap.configured /\ s.new_psk # NoKey
  <2>1. k = [ap EXCEPT !.configured = TRUE, !.told = s.new_psk]
    BY <1>1 DEF wps_process_wsc_done, FirstRegistration
  <2>2. /\ k.configured /\ k.told = s.new_psk /\ DOMAIN k = DOMAIN ap
        /\ k.psk = ap.psk /\ k.network_key = ap.network_key /\ k.psk_set = ap.psk_set
    BY <2>1 DEF ContextOK
  <2>3. ContextOK(k)
    BY <1>1, <2>2 DEF ContextOK
  <2>4. StoredOK(e, s.cred, k)
    BY <1>1, <2>2 DEF StoredOK, CredOK
  <2> QED BY <1>1, <2>2, <2>3, <2>4 DEF KeysKept
<1>2. CASE ap.configured /\ s.new_psk # NoKey
  <2>1. PICK q : q = [ap.psk EXCEPT ![e] = s.new_psk]
    OBVIOUS
  <2>2. k = [ap EXCEPT !.psk = q]
    BY <1>2, <2>1 DEF wps_process_wsc_done
  <2>3. /\ k.configured = ap.configured /\ k.network_key = ap.network_key
        /\ k.told = ap.told /\ k.psk_set = ap.psk_set
        /\ DOMAIN k = DOMAIN ap /\ k.psk = q
    BY <2>2 DEF ContextOK
  <2>4. DOMAIN q = Enrollees /\ q[e] = s.new_psk /\ \A f \in Enrollees \ {e} : q[f] = ap.psk[f]
    BY <2>1 DEF ContextOK
  <2>5. ContextOK(k)
    BY <1>2, <2>3, <2>4 DEF ContextOK
  <2>6. StoredOK(e, s.cred, k)
    BY <1>2, <2>3, <2>4 DEF StoredOK, CredOK
  <2> QED BY <1>2, <2>3, <2>4, <2>5, <2>6 DEF KeysKept
<1>3. CASE s.new_psk = NoKey
  <2>1. k = ap
    BY <1>3 DEF wps_process_wsc_done
  <2>2. k.configured /\ StoredOK(e, s.cred, k)
    BY <1>3, <2>1 DEF StoredOK, CredOK
  <2> QED BY <2>1, <2>2 DEF KeysKept
<1> QED BY <1>1, <1>2, <1>3

\* RegistrarRx: the session goes on, or ends with or without a success.
LEMMA RegistrarRxStep ==
  ASSUME RegInv, NEW e \in Enrollees, RegistrarRx(e)
  PROVE  RegInv'
<1>0. /\ PerEnrollee(enr) /\ PerEnrollee(ses) /\ PerEnrollee(net) /\ "done" \in DOMAIN hist
      /\ EnrolleeInv(e, enr[e], ses[e], net[e], ap, hist.done) /\ ContextOK(ap)
  BY DEF RegInv
<1>1. ses[e] # NoSession /\ net[e].d = "rsp" /\ enr' = enr
  BY DEF RegistrarRx
<1>2. PICK p, g :
        /\ p = wps_registrar_process_msg(reg, ses[e], net[e].m)
        /\ g = wps_registrar_get_msg(p.r, p.w)
        /\ IF Sent(p, g)
           THEN /\ reg' = g.r
                /\ ses' = [ses EXCEPT ![e] = g.w]
                /\ net' = [net EXCEPT ![e] = [d |-> "req", m |-> g.m]]
           ELSE /\ reg' = p.r
                /\ ses' = [ses EXCEPT ![e] = NoSession]
                /\ net' = [net EXCEPT ![e] = [d |-> "req", m |-> [t |-> "EAP-Failure"]]]
        /\ ap' = IF p.res = "WPS_DONE" THEN wps_process_wsc_done(p.w) ELSE ap
        /\ hist' = Recorded(e, p, g)
  BY Zenon DEF RegistrarRx
<1>3. Sent(p, g) => p.res = "WPS_CONTINUE"
  BY DEF Sent
<1>4. /\ "done" \in DOMAIN hist'
      /\ hist'.done = IF p.res = "WPS_DONE" THEN hist.done \cup {<<e, p.w.ne>>} ELSE hist.done
  <2>1. PICK gr, us : \E dn : /\ hist' = [hist EXCEPT !.granted = gr, !.uses = us, !.done = dn]
                              /\ dn = IF p.res = "WPS_DONE" THEN hist.done \cup {<<e, p.w.ne>>}
                                      ELSE hist.done
    BY <1>2, Zenon DEF Recorded
  <2> QED BY <1>0, <2>1
<1>5. SessionOK(e, enr[e], ses[e], ap, hist.done)
  BY <1>0, <1>1 DEF EnrolleeInv
<1>6. RegistrarStep(ses[e], net[e].m, p)
  BY <1>2, <1>5, RegProcess DEF SessionOK
<1>7. CASE Sent(p, g)
  <2>1. RegistrarSent(p.w, g, ap)
    <3>1. /\ IsSes(p.w) /\ p.w.st \in RegistrarSends /\ p.w.n # 0
          /\ p.w.st # "SEND_WSC_NACK" => p.w.new_psk = NoKey
      BY <1>5, <1>6, <1>7, <1>3 DEF SessionOK, RegistrarStep
    <3> QED BY <1>0, <1>2, <3>1, RegGetMsg
  <2>2. PICK n : n = [d |-> "req", m |-> g.m]
    OBVIOUS
  <2>3. n.d = "req" /\ n.m = g.m
    BY <2>2
  <2>4. EnrolleeInv(e, enr[e], g.w, n, ap, hist.done)
    BY <1>0, <1>1, <1>6, <1>7, <1>3, <2>1, <2>3, SessionInv
  <2>5. ses' = [ses EXCEPT ![e] = g.w] /\ net' = [net EXCEPT ![e] = n]
    BY <1>2, <1>7, <2>2
  <2>6. PerEnrollee(ses') /\ ses'[e] = g.w /\ \A f \in Enrollees \ {e} : ses'[f] = ses[f]
    BY <1>0, <2>5 DEF PerEnrollee
  <2>7. PerEnrollee(net') /\ net'[e] = n /\ \A f \in Enrollees \ {e} : net'[f] = net[f]
    BY <1>0, <2>5 DEF PerEnrollee
  <2>8. ap' = ap /\ hist'.done = hist.done
    BY <1>2, <1>4, <1>7, <1>3
  <2>9. \A f \in Enrollees : KeysKept(f, ap, ap')
    BY <2>8 DEF KeysKept
  <2>10. ContextOK(ap') /\ EnrolleeInv(e, enr'[e], ses'[e], net'[e], ap', hist'.done)
    BY <1>0, <1>1, <2>4, <2>6, <2>7, <2>8
  <2> QED BY <1>0, <1>1, <1>4, <2>6, <2>7, <2>8, <2>9, <2>10, StepOfOne
<1>8. ASSUME ~Sent(p, g) PROVE RegInv'
  <2>1. PICK n : n = [d |-> "req", m |-> [t |-> "EAP-Failure"]]
    OBVIOUS
  <2>2. n.d = "req" /\ n.m.t = "EAP-Failure"
    BY <2>1
  <2>3. ses' = [ses EXCEPT ![e] = NoSession] /\ net' = [net EXCEPT ![e] = n]
    BY <1>2, <1>8, <2>1
  <2>4. PerEnrollee(ses') /\ ses'[e] = NoSession /\ \A f \in Enrollees \ {e} : ses'[f] = ses[f]
    BY <1>0, <2>3 DEF PerEnrollee
  <2>5. PerEnrollee(net') /\ net'[e] = n /\ \A f \in Enrollees \ {e} : net'[f] = net[f]
    BY <1>0, <2>3 DEF PerEnrollee
  <2>6. CASE p.res # "WPS_DONE"
    <3>1. ap' = ap /\ hist'.done = hist.done
      BY <1>2, <1>4, <2>6
    <3>2. EnrolleeInv(e, enr[e], NoSession, n, ap, hist.done)
      BY <1>0, <1>1, EndInv
    <3>3. \A f \in Enrollees : KeysKept(f, ap, ap')
      BY <3>1 DEF KeysKept
    <3>4. ContextOK(ap') /\ EnrolleeInv(e, enr'[e], ses'[e], net'[e], ap', hist'.done)
      BY <1>0, <1>1, <2>4, <2>5, <3>1, <3>2
    <3> QED BY <1>0, <1>1, <1>4, <2>4, <2>5, <3>1, <3>3, <3>4, StepOfOne
  <2>7. CASE p.res = "WPS_DONE"
    <3>1. PICK k, d : k = ap' /\ d = hist'.done
      OBVIOUS
    <3>2. p.w = ses[e] /\ CredOK(e, ses[e], ap) /\ ses[e].uuid = e
      BY <1>5, <1>6, <2>7 DEF RegistrarStep, SessionOK
    <3>3. k = wps_process_wsc_done(ses[e]) /\ d = hist.done \cup {<<e, ses[e].ne>>}
      BY <1>2, <1>4, <2>7, <3>1, <3>2
    <3>4. /\ ContextOK(k) /\ k.configured /\ StoredOK(e, ses[e].cred, k)
          /\ \A f \in Enrollees \ {e} : KeysKept(f, ap, k)
      BY <1>0, <3>2, <3>3, DoneKeys
    <3>5. EnrolleeInv(e, enr[e], NoSession, n, k, d)
      BY <1>0, <1>1, <1>6, <2>2, <2>7, <3>3, <3>4, SuccessInv
    <3>6. \A f \in Enrollees \ {e} : \A i : <<f, i>> \in d <=> <<f, i>> \in hist.done
      BY <3>3
    <3>7. ContextOK(ap') /\ EnrolleeInv(e, enr'[e], ses'[e], net'[e], ap', hist'.done)
      BY <1>1, <2>4, <2>5, <3>1, <3>4, <3>5
    <3> QED BY <1>0, <1>1, <1>4, <2>4, <2>5, <3>1, <3>4, <3>6, <3>7, StepOfOne
  <2> QED BY <2>6, <2>7
<1> QED BY <1>7, <1>8


\* LoseResponse, ServerGivesUp, EnrolleeTimeout: the frame or the session is gone.
LEMMA LossStep ==
  ASSUME RegInv, NEW e \in Enrollees, LoseResponse(e) \/ ServerGivesUp(e) \/ EnrolleeTimeout(e)
  PROVE  RegInv'
<1>0. /\ PerEnrollee(enr) /\ PerEnrollee(ses) /\ PerEnrollee(net)
      /\ EnrolleeInv(e, enr[e], ses[e], net[e], ap, hist.done)
  BY DEF RegInv
<1>1. CASE LoseResponse(e)
  <2>1. PerEnrollee(net') /\ net'[e] = Idle /\ \A f \in Enrollees \ {e} : net'[f] = net[f]
    BY <1>0, <1>1 DEF LoseResponse, PerEnrollee
  <2>2. enr' = enr /\ ses' = ses /\ ap' = ap /\ hist' = hist
    BY <1>1 DEF LoseResponse
  <2>3. EnrolleeInv(e, enr[e], ses[e], Idle, ap, hist.done)
    BY <1>0, IdleInv
  <2> QED BY <1>0, <2>1, <2>2, <2>3, StepOfOneSame
<1>2. CASE ServerGivesUp(e)
  <2>1. PICK n : net' = [net EXCEPT ![e] = n]
    BY <1>2 DEF ServerGivesUp
  <2>2. /\ ses[e] # NoSession /\ ses' = [ses EXCEPT ![e] = NoSession]
        /\ enr' = enr /\ ap' = ap /\ hist' = hist
    BY <1>2 DEF ServerGivesUp
  <2>3. PerEnrollee(net') /\ net'[e] = n /\ \A f \in Enrollees \ {e} : net'[f] = net[f]
    BY <1>0, <2>1 DEF PerEnrollee
  <2>4. PerEnrollee(ses') /\ ses'[e] = NoSession /\ \A f \in Enrollees \ {e} : ses'[f] = ses[f]
    BY <1>0, <2>2 DEF PerEnrollee
  <2>5. EnrolleeInv(e, enr[e], NoSession, n, ap, hist.done)
    BY <1>0, <2>2, EndInv
  <2> QED BY <1>0, <2>2, <2>3, <2>4, <2>5, StepOfOneSame
<1>3. CASE EnrolleeTimeout(e)
  <2>1. /\ net[e].d = None /\ enr' = [enr EXCEPT ![e] = Over(enr[e])]
        /\ net' = net /\ ses' = ses /\ ap' = ap /\ hist' = hist
    BY <1>3 DEF EnrolleeTimeout
  <2>2. PerEnrollee(enr') /\ enr'[e] = Over(enr[e])
        /\ \A f \in Enrollees \ {e} : enr'[f] = enr[f]
    BY <1>0, <2>1 DEF PerEnrollee
  <2>3. EnrolleeInv(e, Over(enr[e]), ses[e], net[e], ap, hist.done)
    BY <1>0, <2>1, OverInv
  <2> QED BY <1>0, <2>1, <2>2, <2>3, StepOfOneSame
<1> QED BY <1>1, <1>2, <1>3

\* The operator, the probes and the clock touch no exchange and no key.
LEMMA RegistrarOnlyStep ==
  ASSUME RegInv, UNCHANGED <<enr, ses, net, ap>>, "done" \in DOMAIN hist',
         hist'.done = hist.done
  PROVE  RegInv'
BY DEF RegInv

\* The application installs the key it was told of.
LEMMA InstalledStep ==
  ASSUME RegInv, CredentialInstalled
  PROVE  RegInv'
<1>1. PICK set \in BOOLEAN :
        ap' = [ap EXCEPT !.network_key = ap.told, !.told = NoKey, !.psk_set = set]
  BY DEF CredentialInstalled
<1>2. ap.told # NoKey /\ UNCHANGED <<enr, ses, net, hist>> /\ ContextOK(ap)
  BY DEF CredentialInstalled, RegInv
<1>3. PICK k : k = ap'
  OBVIOUS
<1>4. /\ k.network_key = ap.told /\ k.told = NoKey /\ k.psk_set = set
      /\ k.configured = ap.configured /\ k.psk = ap.psk /\ DOMAIN k = DOMAIN ap
  BY <1>1, <1>2, <1>3 DEF ContextOK
<1>5. ContextOK(k)
  BY <1>2, <1>4 DEF ContextOK
<1>6. ASSUME NEW e \in Enrollees
      PROVE  EnrolleeInv(e, enr[e], ses[e], net[e], k, hist.done)
  <2>1. KeysKept(e, ap, k)
    BY <1>2, <1>4 DEF KeysKept, ContextOK
  <2>2. EnrolleeInv(e, enr[e], ses[e], net[e], ap, hist.done)
    BY DEF RegInv
  <2> QED BY <2>1, <2>2, KeysKeptInv
<1> QED BY <1>2, <1>3, <1>5, <1>6 DEF RegInv

\* RegInv is inductive.
LEMMA RegInvNext ==
  ASSUME RegInv, [Next]_vars
  PROVE  RegInv'
<1>0. "done" \in DOMAIN hist
  BY DEF RegInv
<1>1. CASE wps_registrar_button_pushed
  BY <1>0, <1>1, RegistrarOnlyStep DEF wps_registrar_button_pushed
<1>2. CASE wps_registrar_wps_cancel
  BY <1>0, <1>2, RegistrarOnlyStep DEF wps_registrar_wps_cancel
<1>3. CASE WalkTime
  BY <1>0, <1>3, RegistrarOnlyStep DEF WalkTime
<1>4. ASSUME NEW u \in Enrollees \cup {None}, NEW f \in Enrollees,
             wps_registrar_add_pin(u, PinOf[f])
      PROVE  RegInv'
  BY <1>0, <1>4, RegistrarOnlyStep DEF wps_registrar_add_pin
<1>5. ASSUME NEW p \in reg.pins, PinExpires(p) PROVE RegInv'
  BY <1>0, <1>5, RegistrarOnlyStep DEF PinExpires
<1>6. ASSUME NEW e \in Enrollees, wps_registrar_probe_req_rx(e) PROVE RegInv'
  BY <1>0, <1>6, RegistrarOnlyStep DEF wps_registrar_probe_req_rx
<1>7. CASE UNCHANGED vars
  BY <1>0, <1>7, RegistrarOnlyStep DEF vars
<1> QED
  BY <1>1, <1>2, <1>3, <1>4, <1>5, <1>6, <1>7, StartStep, EnrolleeRxStep, RegistrarRxStep,
     LossStep, InstalledStep DEF Next

\* Nothing is under way, whatever the application configured.
LEMMA RegInvInit ==
  ASSUME Init
  PROVE  RegInv
<1>1. /\ enr = [e \in Enrollees |-> Enrollee(0)] /\ ses = [e \in Enrollees |-> NoSession]
      /\ net = [e \in Enrollees |-> Idle]
  BY DEF Init
<1>2. PerEnrollee(enr) /\ PerEnrollee(ses) /\ PerEnrollee(net)
  BY <1>1 DEF PerEnrollee
<1>3. "done" \in DOMAIN hist /\ hist.done = {}
  BY DEF Init
<1>4. ContextOK(ap)
  <2>0. GivenKey # NoKey
    BY DEF GivenKey, NoKey
  <2>1. \/ ap = Context(FALSE, NoKey, FALSE) \/ ap = Context(TRUE, NoKey, FALSE)
        \/ ap = Context(TRUE, GivenKey, FALSE) \/ ap = Context(TRUE, GivenKey, TRUE)
    BY DEF Init, Contexts
  <2>2. ASSUME NEW c \in BOOLEAN, NEW set \in BOOLEAN, NEW key,
               key = NoKey => ~set, ~c => key = NoKey
        PROVE  ContextOK(Context(c, key, set))
    BY <2>2 DEF Context, ContextOK
  <2>3. CASE ap = Context(FALSE, NoKey, FALSE)
    BY <2>2, <2>3
  <2>4. CASE ap = Context(TRUE, NoKey, FALSE)
    BY <2>2, <2>4
  <2>5. CASE ap = Context(TRUE, GivenKey, FALSE) \/ ap = Context(TRUE, GivenKey, TRUE)
    BY <2>0, <2>2, <2>5
  <2> QED BY <2>1, <2>3, <2>4, <2>5
<1>5. ASSUME NEW e \in Enrollees
      PROVE  EnrolleeInv(e, enr[e], ses[e], net[e], ap, hist.done)
  <2>1. IsEnr(enr[e]) /\ enr[e].ne = 0 /\ ses[e] = NoSession
    BY <1>1, FreshEnrollee
  <2> QED BY <1>3, <2>1 DEF EnrolleeInv
<1> QED BY <1>2, <1>3, <1>4, <1>5 DEF RegInv

\* wps_process_wsc_done reports a success only of an enrollee that stored a key
\* the network accepts from it: the network's, or the one made for it, whatever
\* other exchanges and the application did between its M8 and its Done; or one
\* of the two buffers wps_build_cred does not fill, where it takes that branch.
THEOREM SuccessIsUsable == Spec => []DoneMeansConfigured
<1>1. Init => RegInv
  BY RegInvInit
<1>2. RegInv /\ [Next]_vars => RegInv'
  BY RegInvNext
<1>3. RegInv => DoneMeansConfigured
  BY DEF RegInv, DoneMeansConfigured, EnrolleeInv, DoneOK, StoredOK
<1> QED BY <1>1, <1>2, <1>3, PTL DEF Spec

-----------------------------------------------------------------------------
(* The registrar's PINs *)

\* struct wps_uuid_pin.
PinFields == {"id", "pin", "uuid", "locked", "wild", "expired"}
IsPin(p) == p = [f \in PinFields |-> p[f]]

\* A PIN that is not locked was not tried, a locked one at most once; u counts
\* the uses, n the PINs entered.
PinOK(p, n, u) ==
    /\ IsPin(p) /\ p.id \in 1..n /\ p.locked \in BOOLEAN
    /\ ~p.locked => u[p.id] = 0

PinsOK(ps, n, u) ==
    /\ \A p \in ps : PinOK(p, n, u)
    /\ \A p, q \in ps : p.id = q.id => p = q

UsesOK(n, u) ==
    /\ n \in 0..MaxPins /\ u \in [1..MaxPins -> Nat]
    /\ \A i \in 1..MaxPins : u[i] <= 1 /\ (i > n => u[i] = 0)

RegPins(r, n, u) == "pins" \in DOMAIN r /\ PinsOK(r.pins, n, u)

HistFields == {"pushes", "pins", "granted", "uses", "done"}

PinInv ==
    /\ DOMAIN hist = HistFields
    /\ UsesOK(hist.pins, hist.uses)
    /\ RegPins(reg, hist.pins, hist.uses)

\* What every operation on the list does but entering a PIN and looking one up.
Shrinks(r, x) == "pins" \in DOMAIN x /\ x.pins \subseteq r.pins

\* A set of natural numbers has a least element.
LEMMA LeastNumber ==
  ASSUME NEW T, T \subseteq Nat, T # {}
  PROVE  \E x \in T : \A y \in T : x <= y
<1>1. PICK R : R = OpToRel(<, Nat)
  OBVIOUS
<1>2. IsWellFoundedOn(R, Nat)
  BY <1>1, NatLessThanWellFounded, Zenon
<1>3. PICK x \in T : \A y \in T : ~(<<y, x>> \in R)
  BY <1>2, WFMin, Zenon
<1>4. \A y \in Nat, z \in Nat : y < z => <<y, z>> \in R
  BY <1>1 DEF OpToRel
<1>5. \A y \in T : ~(y < x)
  BY <1>3, <1>4
<1> QED BY <1>5

\* FirstPin: the search of the list finds the newest of the PINs it looks for.
LEMMA FirstPinOK ==
  ASSUME NEW ps, ps # {}, NEW n \in Nat, \A p \in ps : p.id \in 1..n
  PROVE  FirstPin(ps) \in ps /\ \A q \in ps : q.id <= FirstPin(ps).id
<1> DEFINE T == {n - p.id : p \in ps}
<1>1. T \subseteq Nat /\ T # {}
  OBVIOUS
<1>2. PICK x \in T : \A y \in T : x <= y
  BY <1>1, LeastNumber
<1>3. PICK p \in ps : x = n - p.id
  BY <1>2
<1>4. ASSUME NEW q \in ps PROVE q.id <= p.id
  <2>1. n - p.id <= n - q.id
    BY <1>2, <1>3
  <2>2. p.id \in Int /\ q.id \in Int
    OBVIOUS
  <2> QED BY <2>1, <2>2
<1>5. \E z \in ps : \A q \in ps : q.id <= z.id
  BY <1>3, <1>4
<1> QED BY <1>5 DEF FirstPin

\* Fewer PINs keep what holds of each.
LEMMA ShrinkOK ==
  ASSUME NEW r, NEW x, NEW n, NEW u, RegPins(r, n, u), Shrinks(r, x)
  PROVE  RegPins(x, n, u)
BY DEF RegPins, Shrinks, PinsOK

\* The beacon is all wps_registrar_selected_registrar_changed touches.
LEMMA ChangedKeepsPins ==
  ASSUME NEW r, "pins" \in DOMAIN r, NEW x, x = wps_registrar_selected_registrar_changed(r)
  PROVE  "pins" \in DOMAIN x /\ x.pins = r.pins
BY DEF wps_registrar_selected_registrar_changed, wps_set_ie

\* A list that is replaced, with the beacon that follows.
LEMMA ReplacePins ==
  ASSUME NEW r, "pins" \in DOMAIN r, NEW ps, NEW x,
         x = wps_registrar_selected_registrar_changed([r EXCEPT !.pins = ps])
  PROVE  "pins" \in DOMAIN x /\ x.pins = ps
<1>1. PICK y : y = [r EXCEPT !.pins = ps]
  OBVIOUS
<1>2. "pins" \in DOMAIN y /\ y.pins = ps
  BY <1>1
<1>3. x = wps_registrar_selected_registrar_changed(y)
  BY <1>1
<1> QED BY <1>2, <1>3, ChangedKeepsPins

\* The invalidations of PINs.
LEMMA DropShrinks ==
  ASSUME NEW r, "pins" \in DOMAIN r, NEW ps, NEW x, x = DropFirstPin(r, ps)
  PROVE  Shrinks(r, x) /\ (ps # {} => x.pins = r.pins \ {FirstPin(ps)})
<1>1. CASE ps = {}
  BY <1>1 DEF DropFirstPin, Shrinks
<1>2. CASE ps # {}
  <2>1. PICK left : left = r.pins \ {FirstPin(ps)}
    OBVIOUS
  <2>2. x = wps_registrar_selected_registrar_changed([r EXCEPT !.pins = left])
    BY <1>2, <2>1 DEF DropFirstPin, wps_registrar_remove_pin
  <2>3. "pins" \in DOMAIN x /\ x.pins = left
    BY <2>2, ReplacePins
  <2> QED BY <2>1, <2>3 DEF Shrinks
<1> QED BY <1>1, <1>2

\* wps_registrar_expire_pins.
LEMMA ExpireShrinks ==
  ASSUME NEW r, "pins" \in DOMAIN r, NEW x, x = wps_registrar_expire_pins(r)
  PROVE  Shrinks(r, x)
<1>1. PICK left : left = {p \in r.pins : ~p.expired}
  OBVIOUS
<1>2. CASE left = r.pins
  BY <1>1, <1>2 DEF wps_registrar_expire_pins, Shrinks
<1>3. CASE left # r.pins
  <2>1. x = wps_registrar_selected_registrar_changed([r EXCEPT !.pins = left])
    BY <1>1, <1>3 DEF wps_registrar_expire_pins
  <2>2. "pins" \in DOMAIN x /\ x.pins = left
    BY <2>1, ReplacePins
  <2> QED BY <1>1, <2>2 DEF Shrinks
<1> QED BY <1>2, <1>3

\* A PIN unlocked after M7 is the one invalidated right after: the two searches
\* find the same one.
LEMMA UnlockInvalidate ==
  ASSUME NEW r, NEW n \in Nat, NEW u, RegPins(r, n, u), NEW e, NEW x,
         x = wps_registrar_invalidate_pin(wps_registrar_unlock_pin(r, e), e)
  PROVE  Shrinks(r, x)
<1>0. /\ "pins" \in DOMAIN r /\ \A p \in r.pins : IsPin(p) /\ p.id \in 1..n
      /\ \A p, q \in r.pins : p.id = q.id => p = q
  BY DEF RegPins, PinsOK, PinOK
<1>1. PICK ps : ps = PinsOf(r, e)
  OBVIOUS
<1>2. PICK p : p = FirstPin(ps)
  OBVIOUS
<1>3. PICK y : y = wps_registrar_unlock_pin(r, e)
  OBVIOUS
<1>4. x = DropFirstPin(y, PinsOf(y, e))
  BY <1>3 DEF wps_registrar_invalidate_pin
<1>5. ASSUME "pins" \in DOMAIN y, y.pins \subseteq r.pins PROVE Shrinks(r, x)
  BY <1>4, <1>5, DropShrinks DEF Shrinks
<1>6. CASE ps = {}
  BY <1>0, <1>1, <1>3, <1>5, <1>6 DEF wps_registrar_unlock_pin
<1>7. CASE ps # {} /\ p.wild = 3
  <2>1. y = DropFirstPin(r, ps)
    BY <1>1, <1>2, <1>3, <1>7 DEF wps_registrar_unlock_pin, wps_registrar_invalidate_pin
  <2>2. Shrinks(r, y)
    BY <1>0, <2>1, DropShrinks
  <2> QED BY <1>5, <2>2 DEF Shrinks
<1>8. CASE ps # {} /\ p.wild # 3
  <2>1. PICK q : q = [p EXCEPT !.locked = FALSE]
    OBVIOUS
  <2>2. y = SetPin(r, p, q)
    BY <1>1, <1>2, <1>3, <1>8, <2>1 DEF wps_registrar_unlock_pin
  <2>3. "pins" \in DOMAIN y /\ y.pins = (r.pins \ {p}) \cup {q}
    BY <1>0, <2>2 DEF SetPin
  <2>4. p \in ps /\ \A z \in ps : z.id <= p.id
    BY <1>0, <1>1, <1>2, <1>8, FirstPinOK DEF PinsOf
  <2>5. p \in r.pins /\ p.uuid = e /\ IsPin(p) /\ p.id \in 1..n
    BY <1>0, <1>1, <2>4 DEF PinsOf
  <2>6. q.id = p.id /\ q.uuid = e
    BY <2>1, <2>5 DEF IsPin, PinFields
  <2>7. PICK ps2 : ps2 = PinsOf(y, e)
    OBVIOUS
  <2>8. ps2 = (ps \ {p}) \cup {q}
    BY <1>1, <2>3, <2>6, <2>7 DEF PinsOf
  <2>9. ps2 # {} /\ \A z \in ps2 : z.id \in 1..n
    BY <1>0, <1>1, <2>5, <2>6, <2>8 DEF PinsOf
  <2>10. FirstPin(ps2) \in ps2 /\ \A z \in ps2 : z.id <= FirstPin(ps2).id
    BY <2>9, FirstPinOK
  <2>11. FirstPin(ps2) = q
    <3>1. SUFFICES ASSUME FirstPin(ps2) # q PROVE FALSE
      OBVIOUS
    <3>2. PICK z : z = FirstPin(ps2)
      OBVIOUS
    <3>3. z \in ps /\ z # p /\ z \in r.pins
      BY <1>1, <2>8, <2>10, <3>1, <3>2 DEF PinsOf
    <3>4. z.id <= p.id /\ p.id <= z.id
      BY <2>4, <2>6, <2>8, <2>10, <3>2, <3>3
    <3>5. z.id \in Int /\ p.id \in Int
      BY <1>0, <2>5, <3>3
    <3>6. z.id = p.id
      BY <3>4, <3>5
    <3> QED BY <1>0, <2>5, <3>3, <3>6
  <2>12. Shrinks(y, x) /\ x.pins = y.pins \ {q}
    BY <1>4, <2>3, <2>7, <2>9, <2>11, DropShrinks
  <2> QED BY <2>3, <2>12 DEF Shrinks
<1> QED BY <1>6, <1>7, <1>8

\* A PIN of the list is changed, and only its own count may be.
LEMMA SetPinOK ==
  ASSUME NEW r, NEW n, NEW u, RegPins(r, n, u), NEW p \in r.pins, NEW u2, NEW q,
         PinOK(q, n, u2), q.id = p.id, \A i \in 1..n : i # p.id => u2[i] = u[i],
         NEW x, x = SetPin(r, p, q)
  PROVE  RegPins(x, n, u2)
<1>1. "pins" \in DOMAIN r /\ PinsOK(r.pins, n, u)
  BY DEF RegPins
<1>2. PICK ps : ps = (r.pins \ {p}) \cup {q}
  OBVIOUS
<1>3. "pins" \in DOMAIN x /\ x.pins = ps
  BY <1>1, <1>2 DEF SetPin
<1>4. ASSUME NEW z \in ps PROVE PinOK(z, n, u2)
  <2>1. CASE z = q
    BY <2>1
  <2>2. CASE z # q
    <3>1. z \in r.pins /\ z # p /\ PinOK(z, n, u)
      BY <1>1, <1>2, <2>2 DEF PinsOK
    <3>2. z.id # p.id
      BY <1>1, <3>1 DEF PinsOK
    <3>3. u2[z.id] = u[z.id]
      BY <3>1, <3>2 DEF PinOK
    <3> QED BY <3>1, <3>3 DEF PinOK
  <2> QED BY <2>1, <2>2
<1>5. ASSUME NEW y \in ps, NEW z \in ps, y.id = z.id PROVE y = z
  <2>1. \A v \in ps : v = q \/ (v \in r.pins /\ v.id # p.id)
    BY <1>1, <1>2 DEF PinsOK
  <2> QED BY <1>1, <1>5, <2>1 DEF PinsOK
<1> QED BY <1>3, <1>4, <1>5 DEF RegPins, PinsOK

\* What wps_registrar_get_pin returns: nothing, or a PIN never tried, which is
\* locked from then on.
PinTaken(x, n, u) ==
    \/ x.pin.id = 0 /\ RegPins(x.r, n, u)
    \/ /\ x.pin.id \in 1..n /\ u[x.pin.id] = 0
       /\ \A v : (\A i \in 1..n : i # x.pin.id => v[i] = u[i]) => RegPins(x.r, n, v)

\* The PIN found is the enrollee's own or a wildcard one; it is locked, or not
\* handed out.
LEMMA GetPin ==
  ASSUME NEW r0, NEW n \in Nat, NEW u, RegPins(r0, n, u), NEW e, NEW x,
         x = wps_registrar_get_pin(r0, e)
  PROVE  PinTaken(x, n, u)
<1>1. PICK r : r = wps_registrar_expire_pins(r0)
  OBVIOUS
<1>2. RegPins(r, n, u)
  BY <1>1, ExpireShrinks, ShrinkOK DEF RegPins
<1>3. PICK own, any : /\ own = {p \in r.pins : p.wild = 0 /\ p.uuid = e}
                      /\ any = {p \in r.pins : p.wild \in {1, 2}}
  OBVIOUS
<1>4. PICK ps : ps = IF own # {} THEN own ELSE any
  OBVIOUS
<1>5. PICK found : found = FirstPin(ps)
  OBVIOUS
<1>6. PICK bound : bound = IF own # {} THEN found
                           ELSE [found EXCEPT !.wild = found.wild + 1, !.uuid = e]
  OBVIOUS
<1>7. PICK lock : lock = [bound EXCEPT !.locked = TRUE]
  OBVIOUS
<1>8. x = IF own = {} /\ any = {} THEN [r |-> r, pin |-> NoPin]
          ELSE IF bound.locked \notin {FALSE} THEN [r |-> SetPin(r, found, bound), pin |-> NoPin]
          ELSE [r |-> SetPin(r, found, lock), pin |-> bound]
  BY <1>1, <1>3, <1>4, <1>5, <1>6, <1>7, Zenon DEF wps_registrar_get_pin, get_pin
<1>9. CASE own = {} /\ any = {}
  BY <1>2, <1>8, <1>9 DEF PinTaken, NoPin
<1>10. CASE ~(own = {} /\ any = {})
  <2>1. ps # {} /\ ps \subseteq r.pins
    BY <1>3, <1>4, <1>10
  <2>2. found \in r.pins
    <3>1. \A p \in ps : p.id \in 1..n
      BY <1>2, <2>1 DEF RegPins, PinsOK, PinOK
    <3> QED BY <1>5, <2>1, <3>1, FirstPinOK
  <2>3. PinOK(found, n, u)
    BY <1>2, <2>2 DEF RegPins, PinsOK
  <2>4. IsPin(bound) /\ bound.id = found.id /\ bound.locked = found.locked
    <3>1. PICK v : v = found.wild + 1
      OBVIOUS
    <3>2. bound = found \/ bound = [found EXCEPT !.wild = v, !.uuid = e]
      BY <1>6, <3>1
    <3> QED BY <2>3, <3>2 DEF PinOK, IsPin, PinFields
  <2>5. IsPin(lock) /\ lock.id = found.id /\ lock.locked = TRUE
    BY <1>7, <2>4 DEF IsPin, PinFields
  <2>6. CASE bound.locked \notin {FALSE}
    <3>1. PICK y : y = SetPin(r, found, bound)
      OBVIOUS
    <3>2. x = [r |-> y, pin |-> NoPin]
      BY <1>8, <1>10, <2>6, <3>1
    <3>3. PinOK(bound, n, u)
      BY <2>3, <2>4 DEF PinOK
    <3>4. RegPins(y, n, u)
      BY <1>2, <2>2, <2>4, <3>1, <3>3, SetPinOK
    <3> QED BY <3>2, <3>4 DEF PinTaken, NoPin
  <2>7. CASE ~(bound.locked \notin {FALSE})
    <3>1. PICK y : y = SetPin(r, found, lock)
      OBVIOUS
    <3>2. x = [r |-> y, pin |-> bound]
      BY <1>8, <1>10, <2>7, <3>1
    <3>3. bound.id \in 1..n /\ u[bound.id] = 0
      BY <2>3, <2>4, <2>7 DEF PinOK
    <3>4. ASSUME NEW v, \A i \in 1..n : i # bound.id => v[i] = u[i] PROVE RegPins(y, n, v)
      <4>1. PinOK(lock, n, v)
        BY <2>3, <2>5 DEF PinOK
      <4> QED BY <1>2, <2>2, <2>4, <2>5, <3>1, <3>4, <4>1, SetPinOK
    <3> QED BY <3>2, <3>3, <3>4 DEF PinTaken
  <2> QED BY <2>6, <2>7
<1> QED BY <1>9, <1>10

-----------------------------------------------------------------------------
(* The handlers of the registrar *)

\* M2 puts the PIN the session got to the test, every other message none.
PinSent(g, n, u) ==
    \/ g.m.t # "M2" /\ RegPins(g.r, n, u)
    \/ g.m.t = "M2" /\ PinTaken([r |-> g.r, pin |-> [id |-> g.w.pin]], n, u)

\* PinTaken is about the id of the PIN.
LEMMA TakenId ==
  ASSUME NEW x, NEW n, NEW u, PinTaken(x, n, u), NEW y, y.r = x.r, y.pin.id = x.pin.id
  PROVE  PinTaken(y, n, u)
BY DEF PinTaken

\* The list is in order whether or not the use is counted.
LEMMA TakenPins ==
  ASSUME NEW x, NEW n, NEW u, PinTaken(x, n, u)
  PROVE  RegPins(x.r, n, u)
BY DEF PinTaken

\* wps_get_dev_password: the push button needs no PIN.
LEMMA DevPassword ==
  ASSUME NEW r, NEW n \in Nat, NEW u, RegPins(r, n, u), NEW w, NEW x,
         x = wps_get_dev_password(r, w)
  PROVE  PinTaken(x, n, u)
<1>1. CASE w.pbc
  <2>1. PICK z : x = [r |-> r, pin |-> [pin |-> z, id |-> 0]]
    BY <1>1 DEF wps_get_dev_password
  <2>2. x.r = r /\ x.pin.id = 0
    BY <2>1
  <2> QED BY <2>2 DEF PinTaken
<1>2. CASE ~w.pbc
  <2>1. x = wps_registrar_get_pin(r, w.uuid)
    BY <1>2 DEF wps_get_dev_password
  <2> QED BY <2>1, GetPin
<1> QED BY <1>1, <1>2

\* RSend: the state and the last message of the session change.
LEMMA RSendFields ==
  ASSUME NEW r, NEW w, IsSes(w), NEW st, NEW m, NEW x, x = RSend(r, w, st, m)
  PROVE  x.r = r /\ x.m = m /\ x.w.pin = w.pin
<1>1. PICK l : l = IF m.t \in WscMsgs THEN m.t ELSE w.last
  OBVIOUS
<1>2. PICK q : q = [w EXCEPT !.st = st, !.last = l]
  OBVIOUS
<1>3. x = [r |-> r, w |-> q, m |-> m]
  BY <1>1, <1>2 DEF RSend, Send
<1>4. q.pin = w.pin
  BY <1>2 DEF IsSes, SesFields
<1> QED BY <1>3, <1>4

\* wps_build_m2 and wps_build_m2d, after wps_get_dev_password.
LEMMA SendM2Pins ==
  ASSUME NEW r, NEW n \in Nat, NEW u, RegPins(r, n, u), NEW w, IsSes(w), NEW x, x = SendM2(r, w)
  PROVE  PinSent(x, n, u)
<1>1. PICK g : g = wps_get_dev_password(r, w)
  OBVIOUS
<1>2. PinTaken(g, n, u) /\ RegPins(g.r, n, u)
  BY <1>1, DevPassword, TakenPins
<1>3. CASE g.pin = NoPin
  <2>1. PICK m : m = Message(w, "M2D", None)
    OBVIOUS
  <2>2. m.t = "M2D"
    BY <2>1 DEF Message
  <2>3. x = RSend(g.r, w, "RECV_M2D_ACK", m)
    BY <1>1, <1>3, <2>1 DEF SendM2, wps_build_m2d
  <2>4. x.r = g.r /\ x.m = m
    BY <2>3, RSendFields
  <2> QED BY <1>2, <2>2, <2>4 DEF PinSent
<1>4. CASE g.pin # NoPin
  <2>1. PICK p : p = [w EXCEPT !.pw = g.pin.pin, !.pin = g.pin.id]
    OBVIOUS
  <2>2. IsSes(p) /\ p.pin = g.pin.id
    BY <2>1 DEF IsSes, SesFields
  <2>3. PICK z : z = [p EXCEPT !.nr = p.n]
    OBVIOUS
  <2>4. IsSes(z) /\ z.pin = p.pin
    BY <2>2, <2>3 DEF IsSes, SesFields
  <2>5. PICK y : y = <<z.ne, z.nr>>
    OBVIOUS
  <2>6. PICK k : k = [z EXCEPT !.key = y]
    OBVIOUS
  <2>7. IsSes(k) /\ k.pin = z.pin
    BY <2>4, <2>6 DEF IsSes, SesFields
  <2>8. PICK m : m = Message(k, "M2", None)
    OBVIOUS
  <2>9. m.t = "M2"
    BY <2>8 DEF Message
  <2>10. x = wps_build_m2(g.r, p)
    BY <1>1, <1>4, <2>1 DEF SendM2
  <2>11. x = RSend(g.r, k, "RECV_M3", m)
    BY <2>3, <2>5, <2>6, <2>8, <2>10 DEF wps_build_m2, wps_derive_keys
  <2>12. x.r = g.r /\ x.m = m /\ x.w.pin = g.pin.id
    BY <2>2, <2>4, <2>7, <2>11, RSendFields
  <2>13. PICK t : t = [r |-> x.r, pin |-> [id |-> x.w.pin]]
    OBVIOUS
  <2>14. t.r = g.r /\ t.pin.id = g.pin.id
    BY <2>12, <2>13
  <2>15. PinTaken(t, n, u)
    BY <1>2, <2>14, TakenId
  <2> QED BY <2>9, <2>12, <2>13, <2>15 DEF PinSent
<1> QED BY <1>3, <1>4

\* wps_registrar_get_msg, in the states wps_registrar_process_msg leaves.
LEMMA GetMsgPins ==
  ASSUME NEW r, NEW n \in Nat, NEW u, RegPins(r, n, u), NEW w, IsSes(w),
         w.st \in RegistrarSends, NEW x, x = wps_registrar_get_msg(r, w)
  PROVE  PinSent(x, n, u)
<1>1. CASE w.st = "SEND_M2"
  BY <1>1, SendM2Pins DEF wps_registrar_get_msg
<1>2. ASSUME NEW q, IsSes(q), NEW st, NEW m, m.t # "M2", x = RSend(r, q, st, m)
      PROVE  PinSent(x, n, u)
  <2>1. x.r = r /\ x.m = m
    BY <1>2, RSendFields
  <2> QED BY <1>2, <2>1 DEF PinSent
<1>3. CASE w.st = "SEND_M2D"
  <2>1. PICK m : m = Message(w, "M2D", None)
    OBVIOUS
  <2>2. m.t # "M2" /\ x = RSend(r, w, "RECV_M2D_ACK", m)
    BY <1>3, <2>1 DEF wps_registrar_get_msg, wps_build_m2d, Message
  <2> QED BY <1>2, <2>2
<1>4. CASE w.st = "SEND_M4"
  <2>1. PICK m : m = [Message(w, "M4", wps_build_encr_settings(w, "R-S1"))
                         EXCEPT !.h = wps_build_r_hash(w)]
    OBVIOUS
  <2>2. m.t # "M2"
    BY <2>1 DEF Message
  <2>3. x = RSend(r, w, "RECV_M5", m)
    BY <1>4, <2>1 DEF wps_registrar_get_msg, wps_build_m4
  <2> QED BY <1>2, <2>2, <2>3
<1>5. CASE w.st = "SEND_M6"
  <2>1. PICK m : m = Message(w, "M6", wps_build_encr_settings(w, "R-S2"))
    OBVIOUS
  <2>2. m.t # "M2"
    BY <2>1 DEF Message
  <2>3. x = RSend(r, w, "RECV_M7", m)
    BY <1>5, <2>1 DEF wps_registrar_get_msg, wps_build_m6
  <2> QED BY <1>2, <2>2, <2>3
<1>6. CASE w.st = "SEND_M8"
  <2>1. PICK c : c = wps_build_cred(w)
    OBVIOUS
  <2>2. IsSes(c)
    <3>1. PICK nk, cr : c = [w EXCEPT !.new_psk = nk, !.cred = cr]
      BY <2>1, CredShape DEF CredMade
    <3> QED BY <3>1 DEF IsSes, SesFields
  <2>3. PICK m : m = Message(c, "M8", wps_build_encr_settings(c, c.cred))
    OBVIOUS
  <2>4. m.t # "M2"
    BY <2>3 DEF Message
  <2>5. x = RSend(r, c, "RECV_DONE", m)
    BY <1>6, <2>1, <2>3 DEF wps_registrar_get_msg, wps_build_m8
  <2> QED BY <1>2, <2>2, <2>4, <2>5
<1>7. CASE w.st = "SEND_WSC_NACK"
  <2>1. PICK m : m = Message(w, "NACK", None)
    OBVIOUS
  <2>2. m.t # "M2"
    BY <2>1 DEF Message
  <2>3. x = RSend(r, w, w.st, m)
    BY <1>7, <2>1 DEF wps_registrar_get_msg
  <2> QED BY <1>2, <2>2, <2>3
<1> QED BY <1>1, <1>3, <1>4, <1>5, <1>6, <1>7 DEF RegistrarSends

\* wps_process_m1: what it returns.
LEMMA M1Returns ==
  ASSUME NEW r, NEW s, NEW m, NEW w, w = [s EXCEPT !.ne = m.ne], NEW b, b = [w EXCEPT !.pbc = TRUE],
         NEW f, f = [r EXCEPT !.force = TRUE]
  PROVE  wps_process_m1(r, s, m)
           \in {RFailure(r, s), RRet(r, w, "SEND_M2D"), RRet(f, w, "SEND_M2D"),
                RRet(r, w, "SEND_M2"), RRet(wps_registrar_add_pbc_session(r, w.uuid), b, "SEND_M2")}
<1>1. CASE w.st # "RECV_M1"
  BY <1>1 DEF wps_process_m1
<1>2. CASE w.st = "RECV_M1"
  <2> DEFINE o == r.force \/ wps_registrar_pbc_overlap(r, w.uuid)
  <2>1. wps_process_m1(r, s, m) =
            CASE w.dpi # "pbc" -> RRet(r, w, "SEND_M2")
              [] w.dpi = "pbc" /\ ~r.pbc -> RRet(r, w, "SEND_M2D")
              [] w.dpi = "pbc" /\ r.pbc /\ o -> RRet(f, w, "SEND_M2D")
              [] w.dpi = "pbc" /\ r.pbc /\ ~o ->
                   RRet(wps_registrar_add_pbc_session(r, w.uuid), b, "SEND_M2")
    BY <1>2, Zenon DEF wps_process_m1
  <2>3. CASE w.dpi # "pbc"
    BY <2>1, <2>3, Zenon
  <2>4. CASE w.dpi = "pbc" /\ ~r.pbc
    BY <2>1, <2>4, Zenon
  <2>5. CASE w.dpi = "pbc" /\ r.pbc /\ o
    BY <2>1, <2>5, Zenon
  <2>6. CASE w.dpi = "pbc" /\ r.pbc /\ ~o
    BY <2>1, <2>6, Zenon
  <2> QED BY <2>3, <2>4, <2>5, <2>6, Zenon
<1> QED BY <1>1, <1>2

\* The handlers of M1 to M7 only take PINs off the list.
LEMMA HandlerPins ==
  ASSUME NEW r, NEW n \in Nat, NEW u, RegPins(r, n, u), NEW s, NEW m,
         NEW ret \in {wps_process_m1(r, s, m), wps_process_m3(r, s, m), wps_process_m5(r, s, m),
                      wps_process_m7(r, s, m), RFailure(r, s)}
  PROVE  Shrinks(r, ret.r)
<1>0. "pins" \in DOMAIN r /\ Shrinks(r, r)
  BY DEF RegPins, Shrinks
<1>1. \A x, w, st : RRet(x, w, st).r = x /\ RNack(x, w).r = x /\ RFailure(x, w).r = x
  BY DEF RRet, RNack, RFailure
<1>2. CASE ret = wps_process_m1(r, s, m)
  <2>1. PICK f, b : f = [r EXCEPT !.force = TRUE] /\ b = wps_registrar_add_pbc_session(r, s.uuid)
    OBVIOUS
  <2>2. PICK w, c : w = [s EXCEPT !.ne = m.ne] /\ c = [w EXCEPT !.pbc = TRUE]
    OBVIOUS
  <2>3. PICK d : d = wps_registrar_add_pbc_session(r, w.uuid)
    OBVIOUS
  <2>4. Shrinks(r, f) /\ Shrinks(r, d)
    <3>1. PICK pb : d = [r EXCEPT !.pbcs = pb]
      BY <2>3 DEF wps_registrar_add_pbc_session
    <3> QED BY <1>0, <2>1, <3>1 DEF Shrinks
  <2>5. ret \in {RFailure(r, s), RRet(r, w, "SEND_M2D"), RRet(f, w, "SEND_M2D"),
                 RRet(r, w, "SEND_M2"), RRet(d, c, "SEND_M2")}
    BY <1>2, <2>1, <2>2, <2>3, M1Returns
  <2> QED BY <1>0, <1>1, <2>4, <2>5
<1>3. CASE ret = wps_process_m3(r, s, m)
  <2>1. PICK w : ret = RNack(r, s) \/ ret = RRet(r, w, "SEND_M4")
    BY <1>3 DEF wps_process_m3
  <2> QED BY <1>0, <1>1, <2>1
<1>4. CASE ret = wps_process_m5(r, s, m)
  <2>1. ret = RNack(r, s) \/ ret = RRet(r, s, "SEND_M6")
    BY <1>4 DEF wps_process_m5
  <2> QED BY <1>0, <1>1, <2>1
<1>5. CASE ret = wps_process_m7(r, s, m)
  <2>1. PICK a, b : /\ a = wps_registrar_invalidate_pin(r, s.uuid)
                    /\ b = wps_registrar_invalidate_pin(wps_registrar_unlock_pin(r, s.uuid), s.uuid)
    OBVIOUS
  <2>2. Shrinks(r, a)
    BY <1>0, <2>1, DropShrinks DEF wps_registrar_invalidate_pin
  <2>3. Shrinks(r, b)
    BY <2>1, UnlockInvalidate
  <2>4. ret \in {RNack(r, s), RNack(a, s), RRet(b, s, "SEND_M8")}
    BY <1>5, <2>1 DEF wps_process_m7, wps_process_e_snonce2
  <2> QED BY <1>0, <1>1, <2>2, <2>3, <2>4
<1>6. CASE ret = RFailure(r, s)
  BY <1>0, <1>1, <1>6
<1> QED BY <1>2, <1>3, <1>4, <1>5, <1>6

\* wps_registrar_process_msg.
LEMMA ProcessPins ==
  ASSUME NEW r, NEW n \in Nat, NEW u, RegPins(r, n, u), NEW s, NEW m, NEW x,
         x = wps_registrar_process_msg(r, s, m)
  PROVE  Shrinks(r, x.r)
<1>0. "pins" \in DOMAIN r /\ Shrinks(r, r)
  BY DEF RegPins, Shrinks
<1> DEFINE ret == CASE m.t = "M1" -> wps_process_m1(r, s, m)
                    [] m.t = "M3" -> wps_process_m3(r, s, m)
                    [] m.t = "M5" -> wps_process_m5(r, s, m)
                    [] m.t = "M7" -> wps_process_m7(r, s, m)
                    [] OTHER -> RFailure(r, s)
           last == IF ret.res = "WPS_CONTINUE" THEN m.t ELSE ret.w.last
<1>1. ret \in {wps_process_m1(r, s, m), wps_process_m3(r, s, m), wps_process_m5(r, s, m),
               wps_process_m7(r, s, m), RFailure(r, s)}
  OBVIOUS
<1>2. wps_registrar_process_wsc_msg(r, s, m) \in {RFailure(r, s), [ret EXCEPT !.w.last = last]}
  BY DEF wps_registrar_process_wsc_msg
<1> HIDE DEF ret, last
<1>3. Shrinks(r, ret.r) /\ ret = [r |-> ret.r, w |-> ret.w, res |-> ret.res]
  BY <1>1, HandlerPins, RegShape
<1>4. [ret EXCEPT !.w.last = last].r = ret.r
  BY <1>3
<1>5. RFailure(r, s).r = r
  BY DEF RFailure
<1>6. Shrinks(r, wps_registrar_process_wsc_msg(r, s, m).r)
  BY <1>0, <1>2, <1>3, <1>4, <1>5
<1>7. CASE m.t = "Done" /\ s.st = "RECV_DONE" /\ m.nr = s.nr /\ m.ne = s.ne
  <2>1. PICK a : a = wps_registrar_remove_pbc_session(r, s.uuid)
    OBVIOUS
  <2>2. PICK b : b = wps_registrar_stop_pbc(a)
    OBVIOUS
  <2>3. PICK c : c = [b EXCEPT !.ignore = s.uuid]
    OBVIOUS
  <2>4. PICK d : d = wps_registrar_pin_completed(r)
    OBVIOUS
  <2>5. x.r = c \/ x.r = d
    <3>1. x = [r |-> IF s.pbc THEN c ELSE d, w |-> s, res |-> "WPS_DONE"]
      BY <1>7, <2>1, <2>2, <2>3, <2>4 DEF wps_registrar_process_msg, WscMsgs
    <3> QED BY <3>1
  <2>6. "pins" \in DOMAIN a /\ a.pins = r.pins
    <3>1. PICK pb : a = [r EXCEPT !.pbcs = pb]
      BY <2>1 DEF wps_registrar_remove_pbc_session
    <3> QED BY <1>0, <3>1
  <2>7. "pins" \in DOMAIN b /\ b.pins = a.pins
    <3>1. PICK y : y = [a EXCEPT !.sel = FALSE, !.pbc = FALSE]
      OBVIOUS
    <3>2. "pins" \in DOMAIN y /\ y.pins = a.pins
      BY <2>6, <3>1
    <3>3. b = wps_registrar_selected_registrar_changed(y)
      BY <2>2, <3>1 DEF wps_registrar_stop_pbc
    <3> QED BY <3>2, <3>3, ChangedKeepsPins
  <2>8. "pins" \in DOMAIN c /\ c.pins = b.pins
    BY <2>3, <2>7
  <2>9. "pins" \in DOMAIN d /\ d.pins = r.pins
    <3>1. PICK y : y = [r EXCEPT !.sel = FALSE]
      OBVIOUS
    <3>2. "pins" \in DOMAIN y /\ y.pins = r.pins
      BY <1>0, <3>1
    <3>3. d = wps_registrar_selected_registrar_changed(y)
      BY <2>4, <3>1 DEF wps_registrar_pin_completed
    <3> QED BY <3>2, <3>3, ChangedKeepsPins
  <2> QED BY <2>5, <2>6, <2>7, <2>8, <2>9 DEF Shrinks
<1>8. CASE ~(m.t = "Done" /\ s.st = "RECV_DONE" /\ m.nr = s.nr /\ m.ne = s.ne)
  <2>1. x \in {wps_registrar_process_wsc_msg(r, s, m), RFailure(r, s)}
    BY <1>8 DEF wps_registrar_process_msg
  <2> QED BY <1>0, <1>5, <1>6, <2>1
<1> QED BY <1>7, <1>8

-----------------------------------------------------------------------------
(* The steps, again for the PINs *)

\* A step that takes PINs off the list, and counts no use.
LEMMA ShrinkStep ==
  ASSUME PinInv, Shrinks(reg, reg'), DOMAIN hist' = HistFields, hist'.pins = hist.pins,
         hist'.uses = hist.uses
  PROVE  PinInv'
<1>1. RegPins(reg', hist.pins, hist.uses)
  BY ShrinkOK DEF PinInv
<1> QED BY <1>1 DEF PinInv

\* RegistrarRx: the use of a PIN is counted when M2 goes out, and the PIN is
\* locked then.
LEMMA RegistrarRxPins ==
  ASSUME RegInv, PinInv, NEW e \in Enrollees, RegistrarRx(e)
  PROVE  PinInv'
<1>0. /\ RegPins(reg, hist.pins, hist.uses) /\ UsesOK(hist.pins, hist.uses)
      /\ DOMAIN hist = HistFields /\ hist.pins \in Nat
  BY MaxPinsAssumption DEF PinInv, UsesOK
<1>1. PICK p, g :
        /\ p = wps_registrar_process_msg(reg, ses[e], net[e].m)
        /\ g = wps_registrar_get_msg(p.r, p.w)
        /\ reg' = IF Sent(p, g) THEN g.r ELSE p.r
        /\ hist' = Recorded(e, p, g)
  BY Zenon DEF RegistrarRx
<1>2. Shrinks(reg, p.r)
  BY <1>0, <1>1, ProcessPins
<1>3. RegPins(p.r, hist.pins, hist.uses)
  BY <1>0, <1>2, ShrinkOK
<1>4. PICK us : us = [i \in 1..MaxPins |->
                        hist.uses[i] + IF Sent(p, g) /\ g.m.t = "M2" /\ g.w.pin = i THEN 1 ELSE 0]
  OBVIOUS
<1>5. DOMAIN hist' = HistFields /\ hist'.pins = hist.pins /\ hist'.uses = us
  <2>1. PICK gr, dn : hist' = [hist EXCEPT !.granted = gr, !.uses = us, !.done = dn]
    BY <1>1, <1>4, Zenon DEF Recorded
  <2> QED BY <1>0, <2>1 DEF HistFields
<1>6. \A i \in 1..MaxPins : hist.uses[i] \in Nat /\ hist.uses[i] + 0 = hist.uses[i]
  <2>1. PICK u : u = hist.uses
    OBVIOUS
  <2>2. u \in [1..MaxPins -> Nat]
    BY <1>0, <2>1 DEF UsesOK
  <2>3. \A i \in 1..MaxPins : u[i] \in Nat
    BY <2>2
  <2>4. \A i \in 1..MaxPins : u[i] + 0 = u[i]
    BY <2>3
  <2> QED BY <2>1, <2>3, <2>4
<1>7. ASSUME ~(Sent(p, g) /\ g.m.t = "M2" /\ g.w.pin \in 1..MaxPins)
       PROVE  us = hist.uses
  <2>1. ASSUME NEW i \in 1..MaxPins PROVE us[i] = hist.uses[i] + 0
    <3>1. ~(Sent(p, g) /\ g.m.t = "M2" /\ g.w.pin = i)
      BY <1>7
    <3> QED BY <1>4, <3>1
  <2>2. \A i \in 1..MaxPins : us[i] = hist.uses[i]
    BY <1>6, <2>1
  <2>3. us = [i \in 1..MaxPins |-> us[i]] /\ hist.uses = [i \in 1..MaxPins |-> hist.uses[i]]
    BY <1>0, <1>4 DEF UsesOK
  <2> QED BY <2>2, <2>3
<1>8. CASE ~Sent(p, g)
  BY <1>1, <1>2, <1>5, <1>8, <1>7, ShrinkStep
<1>9. CASE Sent(p, g)
  <2>1. IsSes(p.w) /\ p.w.st \in RegistrarSends
    <3>1. ses[e] # NoSession
      BY DEF RegistrarRx
    <3>2. IsSes(ses[e])
      BY <3>1 DEF RegInv, EnrolleeInv, SessionOK
    <3>3. RegistrarStep(ses[e], net[e].m, p)
      BY <1>1, <3>2, RegProcess
    <3> QED BY <1>9, <3>3 DEF Sent, RegistrarStep
  <2>2. PinSent(g, hist.pins, hist.uses) /\ reg' = g.r
    BY <1>0, <1>1, <1>3, <1>9, <2>1, GetMsgPins
  <2>3. CASE g.m.t # "M2"
    <3>1. us = hist.uses /\ RegPins(reg', hist.pins, us)
      BY <1>7, <2>2, <2>3 DEF PinSent
    <3> QED BY <1>0, <1>5, <3>1 DEF PinInv
  <2>4. CASE g.m.t = "M2"
    <3>1. PICK t : t = [r |-> g.r, pin |-> [id |-> g.w.pin]]
      OBVIOUS
    <3>2. t.r = g.r /\ t.pin.id = g.w.pin /\ PinTaken(t, hist.pins, hist.uses)
      BY <2>2, <2>4, <3>1 DEF PinSent
    <3>3. CASE g.w.pin = 0
      <4>1. RegPins(g.r, hist.pins, hist.uses)
        BY <3>2, TakenPins
      <4>2. us = hist.uses
        BY <1>7, <3>3
      <4> QED BY <1>0, <1>5, <2>2, <4>1, <4>2 DEF PinInv
    <3>4. CASE g.w.pin # 0
      <4>1. PICK i : i = g.w.pin
        OBVIOUS
      <4>2. /\ i \in 1..hist.pins /\ hist.uses[i] = 0
            /\ \A v : (\A j \in 1..hist.pins : j # i => v[j] = hist.uses[j])
                         => RegPins(g.r, hist.pins, v)
        BY <3>2, <3>4, <4>1 DEF PinTaken
      <4>3. i \in 1..MaxPins
        BY <1>0, <4>2, MaxPinsAssumption DEF UsesOK
      <4>4. us = [hist.uses EXCEPT ![i] = 1]
        <5>1. us[i] = hist.uses[i] + 1 /\ \A j \in 1..MaxPins : j # i => us[j] = hist.uses[j] + 0
          <6>1. ASSUME NEW j \in 1..MaxPins
                PROVE  us[j] = hist.uses[j] + IF i = j THEN 1 ELSE 0
            BY <1>4, <1>9, <2>4, <4>1
          <6> QED BY <4>3, <6>1
        <5>2. us[i] = 1 /\ \A j \in 1..MaxPins : j # i => us[j] = hist.uses[j]
          BY <1>6, <4>2, <5>1
        <5>3. us = [j \in 1..MaxPins |-> us[j]] /\ DOMAIN hist.uses = 1..MaxPins
          BY <1>0, <1>4 DEF UsesOK
        <5> QED BY <5>2, <5>3
      <4>5. UsesOK(hist.pins, us)
        BY <1>0, <4>2, <4>4, <4>3, MaxPinsAssumption DEF UsesOK
      <4>6. \A j \in 1..hist.pins : j # i => us[j] = hist.uses[j]
        BY <1>0, <4>4, MaxPinsAssumption DEF UsesOK
      <4>7. RegPins(g.r, hist.pins, us)
        BY <4>2, <4>6
      <4> QED BY <1>5, <2>2, <4>5, <4>7 DEF PinInv
    <3> QED BY <3>3, <3>4
  <2> QED BY <2>3, <2>4
<1> QED BY <1>8, <1>9

\* wps_registrar_add_pin: the new PIN was never tried.
LEMMA AddPinPins ==
  ASSUME PinInv, NEW uuid, NEW pin, wps_registrar_add_pin(uuid, pin)
  PROVE  PinInv'
<1>0. /\ RegPins(reg, hist.pins, hist.uses) /\ UsesOK(hist.pins, hist.uses)
      /\ DOMAIN hist = HistFields
  BY DEF PinInv
<1>1. PICK wild : wild = IF uuid = None THEN 1 ELSE 0
  OBVIOUS
<1>2. PICK p : p = [id |-> hist.pins + 1, pin |-> pin, uuid |-> uuid, locked |-> FALSE,
                    wild |-> wild, expired |-> FALSE]
  OBVIOUS
<1>3. PICK r : r = IF uuid = None THEN wps_registrar_invalidate_unused(reg) ELSE reg
  OBVIOUS
<1>4. reg' = wps_registrar_selected_registrar_changed(
                [r EXCEPT !.pins = r.pins \cup {p}, !.sel = TRUE, !.pbc = FALSE])
  BY <1>1, <1>2, <1>3 DEF wps_registrar_add_pin
<1>5. hist.pins < MaxPins /\ hist' = [hist EXCEPT !.pins = hist.pins + 1]
  BY DEF wps_registrar_add_pin
<1>6. PICK n : n = hist.pins + 1
  OBVIOUS
<1>7. DOMAIN hist' = HistFields /\ hist'.pins = n /\ hist'.uses = hist.uses
  BY <1>0, <1>5, <1>6 DEF HistFields
<1>8. n \in 1..MaxPins /\ hist.pins \in Nat
  BY <1>0, <1>5, <1>6, MaxPinsAssumption DEF UsesOK
<1>9. UsesOK(n, hist.uses) /\ hist.uses[n] = 0
  BY <1>0, <1>6, <1>8, MaxPinsAssumption DEF UsesOK
<1>10. RegPins(r, hist.pins, hist.uses)
  <2>1. Shrinks(reg, r)
    BY <1>0, <1>3, DropShrinks DEF wps_registrar_invalidate_unused, RegPins, Shrinks
  <2> QED BY <1>0, <2>1, ShrinkOK
<1>11. "pins" \in DOMAIN reg' /\ reg'.pins = r.pins \cup {p}
  <2>1. PICK ps : ps = r.pins \cup {p}
    OBVIOUS
  <2>2. PICK y : y = [r EXCEPT !.pins = ps, !.sel = TRUE, !.pbc = FALSE]
    OBVIOUS
  <2>3. "pins" \in DOMAIN y /\ y.pins = ps
    BY <1>10, <2>2 DEF RegPins
  <2>4. reg' = wps_registrar_selected_registrar_changed(y)
    BY <1>4, <2>1, <2>2
  <2> QED BY <2>1, <2>3, <2>4, ChangedKeepsPins
<1>12. PinOK(p, n, hist.uses) /\ p.id = n
  <2>1. p.id = n /\ p.locked = FALSE /\ IsPin(p)
    BY <1>2, <1>6 DEF IsPin, PinFields
  <2>2. p.locked \in BOOLEAN /\ ~p.locked
    BY <2>1
  <2>3. p.id \in 1..n /\ hist.uses[p.id] = 0
    BY <1>8, <1>9, <2>1
  <2> QED BY <2>1, <2>2, <2>3 DEF PinOK
<1>13. ASSUME NEW q \in r.pins PROVE PinOK(q, n, hist.uses) /\ q.id # n
  <2>1. PinOK(q, hist.pins, hist.uses)
    BY <1>10 DEF RegPins, PinsOK
  <2>2. q.id \in 1..n /\ q.id # n
    BY <1>6, <1>8, <2>1 DEF PinOK
  <2> QED BY <2>1, <2>2 DEF PinOK
<1>14. PinsOK(reg'.pins, n, hist.uses)
  <2>1. PinsOK(r.pins, hist.pins, hist.uses)
    BY <1>10 DEF RegPins
  <2>2. \A q \in r.pins \cup {p} : PinOK(q, n, hist.uses)
    BY <1>12, <1>13
  <2>3. \A q, z \in r.pins \cup {p} : q.id = z.id => q = z
    BY <1>12, <1>13, <2>1 DEF PinsOK
  <2> QED BY <1>11, <2>2, <2>3 DEF PinsOK
<1> QED BY <1>7, <1>9, <1>11, <1>14 DEF PinInv, RegPins

\* The operator, the probes and the clock: nothing is added, nothing unlocked.
LEMMA OperatorPins ==
  ASSUME PinInv,
         \/ wps_registrar_button_pushed \/ wps_registrar_wps_cancel \/ WalkTime
         \/ \E e \in Enrollees : wps_registrar_probe_req_rx(e)
         \/ \E p \in reg.pins : PinExpires(p)
  PROVE  PinInv'
<1>0. /\ "pins" \in DOMAIN reg /\ DOMAIN hist = HistFields
      /\ RegPins(reg, hist.pins, hist.uses)
  BY DEF PinInv, RegPins
<1>1. CASE wps_registrar_button_pushed
  <2>1. PICK y : y = [reg EXCEPT !.force = FALSE, !.sel = TRUE, !.pbc = TRUE]
    OBVIOUS
  <2>2. "pins" \in DOMAIN y /\ y.pins = reg.pins
    BY <1>0, <2>1
  <2>3. reg' = wps_registrar_selected_registrar_changed(y)
    BY <1>1, <2>1 DEF wps_registrar_button_pushed
  <2>4. Shrinks(reg, reg')
    BY <2>2, <2>3, ChangedKeepsPins DEF Shrinks
  <2>5. DOMAIN hist' = HistFields /\ hist'.pins = hist.pins /\ hist'.uses = hist.uses
    BY <1>0, <1>1 DEF wps_registrar_button_pushed, HistFields
  <2> QED BY <2>4, <2>5, ShrinkStep
<1>2. CASE wps_registrar_wps_cancel
  <2>1. PICK y, z : /\ y = [reg EXCEPT !.sel = FALSE, !.pbc = FALSE]
                    /\ z = [reg EXCEPT !.sel = FALSE]
    OBVIOUS
  <2>2. "pins" \in DOMAIN y /\ y.pins = reg.pins /\ "pins" \in DOMAIN z /\ z.pins = reg.pins
    BY <1>0, <2>1
  <2>3. PICK a, b, c : /\ a = wps_registrar_selected_registrar_changed(y)
                       /\ b = wps_registrar_selected_registrar_changed(z)
                       /\ c = wps_registrar_invalidate_wildcard_pin(b)
    OBVIOUS
  <2>4. reg' = a \/ reg' = c
    BY <1>2, <2>1, <2>3
       DEF wps_registrar_wps_cancel, wps_registrar_stop_pbc, wps_registrar_pin_completed
  <2>5. Shrinks(reg, a) /\ Shrinks(reg, b)
    BY <2>2, <2>3, ChangedKeepsPins DEF Shrinks
  <2>6. Shrinks(b, c)
    BY <2>3, <2>5, DropShrinks DEF Shrinks, wps_registrar_invalidate_wildcard_pin
  <2>7. Shrinks(reg, reg')
    BY <2>4, <2>5, <2>6 DEF Shrinks
  <2>8. hist' = hist
    BY <1>2 DEF wps_registrar_wps_cancel
  <2> QED BY <1>0, <2>7, <2>8, ShrinkStep
<1>3. CASE WalkTime
  <2>1. PICK pb : reg' = [reg EXCEPT !.pbcs = pb, !.ignore = None]
    BY <1>3 DEF WalkTime
  <2>2. Shrinks(reg, reg')
    BY <1>0, <2>1 DEF Shrinks
  <2>3. DOMAIN hist' = HistFields /\ hist'.pins = hist.pins /\ hist'.uses = hist.uses
    BY <1>0, <1>3 DEF WalkTime, HistFields
  <2> QED BY <2>2, <2>3, ShrinkStep
<1>4. ASSUME NEW e \in Enrollees, wps_registrar_probe_req_rx(e) PROVE PinInv'
  <2>1. PICK r, i, f :
          /\ r = reg \/ r = wps_registrar_add_pbc_session([reg EXCEPT !.ignore = i], e)
          /\ reg' = [r EXCEPT !.force = f]
    BY <1>4 DEF wps_registrar_probe_req_rx
  <2>2. PICK y : y = [reg EXCEPT !.ignore = i]
    OBVIOUS
  <2>3. "pins" \in DOMAIN y /\ y.pins = reg.pins
    BY <1>0, <2>2
  <2>4. r = reg \/ \E pb : r = [y EXCEPT !.pbcs = pb]
    BY <2>1, <2>2 DEF wps_registrar_add_pbc_session
  <2>5. "pins" \in DOMAIN r /\ r.pins = reg.pins
    BY <1>0, <2>3, <2>4
  <2>6. Shrinks(reg, reg')
    BY <2>1, <2>5 DEF Shrinks
  <2>7. hist' = hist
    BY <1>4 DEF wps_registrar_probe_req_rx
  <2> QED BY <1>0, <2>6, <2>7, ShrinkStep
<1>5. ASSUME NEW p \in reg.pins, PinExpires(p) PROVE PinInv'
  <2>1. PICK q : q = [p EXCEPT !.expired = TRUE]
    OBVIOUS
  <2>2. reg' = SetPin(reg, p, q) /\ hist' = hist
    BY <1>5, <2>1 DEF PinExpires
  <2>3. PinOK(p, hist.pins, hist.uses)
    BY <1>0 DEF RegPins, PinsOK
  <2>4. IsPin(q) /\ q.id = p.id /\ q.locked = p.locked
    BY <2>1, <2>3 DEF PinOK, IsPin, PinFields
  <2>5. PinOK(q, hist.pins, hist.uses)
    BY <2>3, <2>4 DEF PinOK
  <2>6. RegPins(reg', hist.pins, hist.uses)
    BY <1>0, <2>2, <2>4, <2>5, SetPinOK
  <2> QED BY <2>2, <2>6 DEF PinInv
<1> QED BY <1>1, <1>2, <1>3, <1>4, <1>5

\* PinInv is inductive, given that sessions are records.
LEMMA PinInvNext ==
  ASSUME RegInv, PinInv, [Next]_vars
  PROVE  PinInv'
<1>1. ASSUME reg' = reg, hist' = hist PROVE PinInv'
  BY <1>1 DEF PinInv
<1>2. CASE UNCHANGED vars
  BY <1>1, <1>2 DEF vars
<1>3. ASSUME NEW u \in Enrollees \cup {None}, NEW f \in Enrollees,
             wps_registrar_add_pin(u, PinOf[f])
      PROVE  PinInv'
  BY <1>3, AddPinPins
<1>4. ASSUME NEW e \in Enrollees, NEW mode, StartExchange(e, mode) PROVE PinInv'
  BY <1>1, <1>4 DEF StartExchange
<1>5. ASSUME NEW e \in Enrollees,
             EnrolleeRx(e) \/ LoseResponse(e) \/ ServerGivesUp(e) \/ EnrolleeTimeout(e)
      PROVE  PinInv'
  BY <1>1, <1>5 DEF EnrolleeRx, LoseResponse, ServerGivesUp, EnrolleeTimeout
<1>6. CASE CredentialInstalled
  BY <1>1, <1>6 DEF CredentialInstalled
<1> QED BY <1>2, <1>3, <1>4, <1>5, <1>6, OperatorPins, RegistrarRxPins DEF Next

\* No PIN was entered.
LEMMA PinInvInit ==
  ASSUME Init
  PROVE  PinInv
<1>1. PICK u : u = [i \in 1..MaxPins |-> 0]
  OBVIOUS
<1>2. DOMAIN hist = HistFields /\ hist.pins = 0 /\ hist.uses = u
  BY <1>1 DEF Init, HistFields
<1>3. UsesOK(0, u)
  BY <1>1, MaxPinsAssumption DEF UsesOK
<1>4. RegPins(reg, 0, u)
  <2>1. "pins" \in DOMAIN reg /\ reg.pins = {}
    BY DEF Init
  <2> QED BY <2>1 DEF RegPins, PinsOK
<1> QED BY <1>2, <1>3, <1>4 DEF PinInv

\* A PIN entered at the access point is put to the test in one exchange only:
\* wps_registrar_get_pin locks the PIN it hands out, and the PIN that M7 unlocks
\* is off the list before another exchange can look.
THEOREM PinUsedOnce == Spec => []PinTriedOnce
<1> DEFINE Inv == RegInv /\ PinInv
<1>1. Init => Inv
  BY RegInvInit, PinInvInit
<1>2. Inv /\ [Next]_vars => Inv'
  BY RegInvNext, PinInvNext
<1>3. Inv => PinTriedOnce
  BY DEF PinInv, UsesOK, PinTriedOnce
<1> QED BY <1>1, <1>2, <1>3, PTL DEF Spec

-----------------------------------------------------------------------------
(* The push button *)

\* A push-button session between the M1 that was accepted and its M8.
InProgress(s) == s.pbc /\ s.st \in {"RECV_M3", "RECV_M5", "RECV_M7"}

RegPbc(r) ==
    /\ {"pbc", "force", "pbcs"} \subseteq DOMAIN r
    /\ IsFiniteSet(FreshSessions(r)) /\ None \notin FreshSessions(r)

\* While the button is active, an enrollee that was served is still a session.
Served(r, gr) == r.pbc => gr \subseteq FreshSessions(r)

\* An exchange in progress is a session, and the only one unless the overlap
\* was seen; the other enrollees were not served then.
Alone(e, s, r, gr) ==
    InProgress(s) => /\ e \in FreshSessions(r)
                     /\ ~r.force => FreshSessions(r) \subseteq {e} /\ gr \subseteq {e}

SessionPbc(e, s, r, gr) ==
    s # NoSession => /\ s.st = "RECV_M1" => ~s.pbc
                     /\ Alone(e, s, r, gr)

PbcInv ==
    /\ DOMAIN hist = HistFields
    /\ RegPbc(reg) /\ Served(reg, hist.granted)
    /\ \A e \in Enrollees : SessionPbc(e, ses[e], reg, hist.granted)

\* What can happen to the sessions: nothing, one more (or one seen again), one
\* that is done.
Kept(r, x) ==
    /\ {"pbc", "force", "pbcs"} \subseteq DOMAIN x /\ x.pbcs = r.pbcs
    /\ (x.force <=> r.force) /\ (x.pbc => r.pbc)

Entered(r, x, e) ==
    /\ RegPbc(x) /\ (r.force => x.force) /\ (x.pbc => r.pbc)
    /\ FreshSessions(r) \subseteq FreshSessions(x)
    /\ FreshSessions(x) \subseteq FreshSessions(r) \cup {e}
    /\ FreshSessions(r) \ {e} # {} => x.force

Left(r, x, e) ==
    /\ RegPbc(x) /\ (x.force <=> r.force) /\ ~x.pbc
    /\ FreshSessions(x) = FreshSessions(r) \ {e}

\* The same list has the same fresh sessions.
LEMMA KeptFresh ==
  ASSUME NEW r, NEW x, RegPbc(r), Kept(r, x)
  PROVE  RegPbc(x) /\ FreshSessions(x) = FreshSessions(r)
BY DEF RegPbc, Kept, FreshSessions

\* One change after the other.
LEMMA KeptTwice ==
  ASSUME NEW r, NEW x, NEW y, Kept(r, x), Kept(x, y)
  PROVE  Kept(r, y)
BY DEF Kept

\* No change.
LEMMA KeptSelf ==
  ASSUME NEW r, RegPbc(r)
  PROVE  Kept(r, r)
BY DEF Kept, RegPbc

\* The beacon.
LEMMA ChangedKept ==
  ASSUME NEW r, RegPbc(r), NEW x, x = wps_registrar_selected_registrar_changed(r)
  PROVE  Kept(r, x)
BY DEF wps_registrar_selected_registrar_changed, wps_set_ie, Kept, RegPbc

\* wps_registrar_pbc_overlap: another enrollee's session, or two.
LEMMA Overlap ==
  ASSUME NEW r, RegPbc(r), NEW e, e # None
  PROVE  wps_registrar_pbc_overlap(r, e) <=> FreshSessions(r) \ {e} # {}
<1>1. PICK S : S = FreshSessions(r) \ {e}
  OBVIOUS
<1>2. IsFiniteSet(S)
  BY <1>1, FS_RemoveElement DEF RegPbc
<1>3. Cardinality(S) \in Nat /\ (Cardinality(S) = 0 <=> S = {})
  BY <1>2, FS_CardinalityType, FS_EmptySet
<1>4. wps_registrar_pbc_overlap(r, e) <=> Cardinality(S) + 1 > 1
  BY <1>1 DEF wps_registrar_pbc_overlap
<1> QED BY <1>1, <1>3, <1>4

\* A push of the button sees an overlap of two sessions.
LEMMA OverlapTwo ==
  ASSUME NEW r, RegPbc(r), ~wps_registrar_pbc_overlap(r, None),
         NEW e \in FreshSessions(r)
  PROVE  FreshSessions(r) \subseteq {e}
<1>1. PICK S : S = FreshSessions(r)
  OBVIOUS
<1>2. IsFiniteSet(S) /\ e \in S
  BY <1>1 DEF RegPbc
<1>3. IsFiniteSet(S \ {e}) /\ Cardinality(S \ {e}) = Cardinality(S) - 1
  BY <1>2, FS_RemoveElement
<1>4. Cardinality(S) \in Nat /\ Cardinality(S \ {e}) \in Nat
  BY <1>2, <1>3, FS_CardinalityType
<1>5. S \ {None} = S
  BY <1>1 DEF RegPbc
<1>6. ~(Cardinality(S) + 0 > 1)
  BY <1>1, <1>5 DEF wps_registrar_pbc_overlap
<1>7. Cardinality(S \ {e}) = 0
  BY <1>3, <1>4, <1>6
<1>8. S \ {e} = {}
  BY <1>3, <1>7, FS_EmptySet
<1> QED BY <1>1, <1>8

\* wps_registrar_add_pbc_session and wps_registrar_remove_pbc_session.
LEMMA AddSession ==
  ASSUME NEW r, RegPbc(r), NEW e, e # None, NEW x, x = wps_registrar_add_pbc_session(r, e)
  PROVE  /\ RegPbc(x) /\ x.force = r.force /\ x.pbc = r.pbc
         /\ FreshSessions(x) = FreshSessions(r) \cup {e}
<1>1. PICK z : z = [uuid |-> e, old |-> FALSE]
  OBVIOUS
<1>2. z.uuid = e /\ ~z.old
  BY <1>1
<1>3. PICK ps : ps = {p \in r.pbcs : p.uuid # e /\ ~p.old} \cup {z}
  OBVIOUS
<1>4. x = [r EXCEPT !.pbcs = ps]
  BY <1>1, <1>3 DEF wps_registrar_add_pbc_session
<1>5. x.pbcs = ps /\ x.force = r.force /\ x.pbc = r.pbc
      /\ {"pbc", "force", "pbcs"} \subseteq DOMAIN x
  BY <1>4 DEF RegPbc
<1>6. FreshSessions(x) = FreshSessions(r) \cup {e}
  BY <1>2, <1>3, <1>5 DEF FreshSessions
<1>7. IsFiniteSet(FreshSessions(x))
  BY <1>6, FS_AddElement DEF RegPbc
<1> QED BY <1>5, <1>6, <1>7 DEF RegPbc

\* The session of an enrollee that is done.
LEMMA RemoveSession ==
  ASSUME NEW r, RegPbc(r), NEW e, NEW x, x = wps_registrar_remove_pbc_session(r, e)
  PROVE  /\ RegPbc(x) /\ x.force = r.force /\ x.pbc = r.pbc
         /\ FreshSessions(x) = FreshSessions(r) \ {e}
<1>1. PICK ps : ps = {p \in r.pbcs : p.uuid # e}
  OBVIOUS
<1>2. x = [r EXCEPT !.pbcs = ps]
  BY <1>1 DEF wps_registrar_remove_pbc_session
<1>3. x.pbcs = ps /\ x.force = r.force /\ x.pbc = r.pbc
      /\ {"pbc", "force", "pbcs"} \subseteq DOMAIN x
  BY <1>2 DEF RegPbc
<1>4. FreshSessions(x) = FreshSessions(r) \ {e}
  BY <1>1, <1>3 DEF FreshSessions
<1>5. IsFiniteSet(FreshSessions(x))
  BY <1>4, FS_RemoveElement DEF RegPbc
<1> QED BY <1>3, <1>4, <1>5 DEF RegPbc

\* Operations on PINs leave the sessions alone.
LEMMA PinsKept ==
  ASSUME NEW r, RegPbc(r), NEW ps, NEW y, y = [r EXCEPT !.pins = ps]
  PROVE  Kept(r, y) /\ Kept(r, wps_registrar_selected_registrar_changed(y))
<1>1. Kept(r, y)
  BY DEF Kept, RegPbc
<1>2. Kept(y, wps_registrar_selected_registrar_changed(y))
  BY <1>1, KeptFresh, ChangedKept
<1> QED BY <1>1, <1>2, KeptTwice

\* The invalidations of PINs.
LEMMA DropKept ==
  ASSUME NEW r, RegPbc(r), NEW ps
  PROVE  Kept(r, DropFirstPin(r, ps))
<1>1. PICK y : y = [r EXCEPT !.pins = @ \ {FirstPin(ps)}]
  OBVIOUS
<1>2. DropFirstPin(r, ps) \in {r, wps_registrar_selected_registrar_changed(y)}
  BY <1>1 DEF DropFirstPin, wps_registrar_remove_pin
<1> QED BY <1>1, <1>2, PinsKept, KeptSelf

\* What M7 does to the PIN.
LEMMA UnlockKept ==
  ASSUME NEW r, RegPbc(r), NEW e
  PROVE  /\ Kept(r, wps_registrar_invalidate_pin(r, e))
         /\ Kept(r, wps_registrar_invalidate_pin(wps_registrar_unlock_pin(r, e), e))
<1>1. ASSUME NEW x, RegPbc(x) PROVE Kept(x, wps_registrar_invalidate_pin(x, e))
  BY <1>1, DropKept DEF wps_registrar_invalidate_pin
<1>2. PICK y : y = wps_registrar_unlock_pin(r, e)
  OBVIOUS
<1>3. Kept(r, y)
  <2>1. PICK p : p = FirstPin(PinsOf(r, e))
    OBVIOUS
  <2>2. PICK q : q = [p EXCEPT !.locked = FALSE]
    OBVIOUS
  <2>3. PICK ps : ps = (r.pins \ {p}) \cup {q}
    OBVIOUS
  <2>4. y = r \/ y = wps_registrar_invalidate_pin(r, e) \/ y = [r EXCEPT !.pins = ps]
    BY <1>2, <2>1, <2>2, <2>3 DEF wps_registrar_unlock_pin, SetPin
  <2> QED BY <1>1, <2>4, KeptSelf, PinsKept
<1>4. Kept(y, wps_registrar_invalidate_pin(y, e))
  BY <1>1, <1>3, KeptFresh
<1> QED BY <1>1, <1>2, <1>3, <1>4, KeptTwice

\* wps_registrar_get_pin.
LEMMA GetPinKept ==
  ASSUME NEW r0, RegPbc(r0), NEW e, NEW x, x = wps_registrar_get_pin(r0, e)
  PROVE  Kept(r0, x.r)
<1>1. PICK r : r = wps_registrar_expire_pins(r0)
  OBVIOUS
<1>2. Kept(r0, r)
  <2>1. PICK left : left = {p \in r0.pins : ~p.expired}
    OBVIOUS
  <2>2. PICK y : y = [r0 EXCEPT !.pins = left]
    OBVIOUS
  <2>3. r = r0 \/ r = wps_registrar_selected_registrar_changed(y)
    BY <1>1, <2>1, <2>2 DEF wps_registrar_expire_pins
  <2> QED BY <2>2, <2>3, KeptSelf, PinsKept
<1>3. PICK f, b, l : x.r = r \/ x.r = SetPin(r, f, b) \/ x.r = SetPin(r, f, l)
  <2>1. PICK own, any : /\ own = {p \in r.pins : p.wild = 0 /\ p.uuid = e}
                        /\ any = {p \in r.pins : p.wild \in {1, 2}}
    OBVIOUS
  <2>2. PICK f : f = FirstPin(IF own # {} THEN own ELSE any)
    OBVIOUS
  <2>3. PICK b : b = IF own # {} THEN f ELSE [f EXCEPT !.wild = f.wild + 1, !.uuid = e]
    OBVIOUS
  <2>4. PICK l : l = [b EXCEPT !.locked = TRUE]
    OBVIOUS
  <2>5. x = IF own = {} /\ any = {} THEN [r |-> r, pin |-> NoPin]
            ELSE IF b.locked \notin {FALSE} THEN [r |-> SetPin(r, f, b), pin |-> NoPin]
            ELSE [r |-> SetPin(r, f, l), pin |-> b]
    BY <1>1, <2>1, <2>2, <2>3, <2>4, Zenon DEF wps_registrar_get_pin, get_pin
  <2>6. PICK y, z : y = SetPin(r, f, b) /\ z = SetPin(r, f, l)
    OBVIOUS
  <2>7. x = [r |-> r, pin |-> NoPin] \/ x = [r |-> y, pin |-> NoPin] \/ x = [r |-> z, pin |-> b]
    BY <2>5, <2>6
  <2>8. x.r = r \/ x.r = y \/ x.r = z
    BY <2>7
  <2> QED BY <2>6, <2>8
<1>4. PICK ps : x.r = r \/ x.r = [r EXCEPT !.pins = ps]
  BY <1>3 DEF SetPin
<1>5. Kept(r, x.r)
  BY <1>2, <1>4, KeptFresh, KeptSelf, PinsKept
<1> QED BY <1>2, <1>5, KeptTwice

\* What wps_registrar_get_msg makes of a session: only an M2 after M1, an M4
\* after M3 and an M6 after M5 leave it waiting for the enrollee's next message.
SentPbc(r, w, g) ==
    /\ Kept(r, g.r) /\ g.w.pbc = w.pbc /\ g.w.st # "RECV_M1"
    /\ g.w.st = "RECV_M3" => w.st = "SEND_M2"
    /\ g.w.st = "RECV_M5" => w.st = "SEND_M4"
    /\ g.w.st = "RECV_M7" => w.st = "SEND_M6"
    /\ g.m.t = "M8" => w.st = "SEND_M8" /\ g.w.st = "RECV_DONE"

\* The mode of a session does not change with its state.
LEMMA RSendPbc ==
  ASSUME NEW r, NEW w, IsSes(w), NEW st, NEW m, NEW x, x = RSend(r, w, st, m)
  PROVE  x.r = r /\ x.m = m /\ x.w.pbc = w.pbc /\ x.w.st = st
<1>1. PICK l : l = IF m.t \in WscMsgs THEN m.t ELSE w.last
  OBVIOUS
<1>2. PICK q : q = [w EXCEPT !.st = st, !.last = l]
  OBVIOUS
<1>3. x = [r |-> r, w |-> q, m |-> m]
  BY <1>1, <1>2 DEF RSend, Send
<1>4. q.pbc = w.pbc /\ q.st = st
  BY <1>2 DEF IsSes, SesFields
<1> QED BY <1>3, <1>4

\* M2 and M2D: a PIN is looked up only when the button was not pushed.
LEMMA SendM2Pbc ==
  ASSUME NEW r, RegPbc(r), NEW w, IsSes(w), w.st = "SEND_M2", NEW x, x = SendM2(r, w)
  PROVE  SentPbc(r, w, x)
<1>1. PICK g : g = wps_get_dev_password(r, w)
  OBVIOUS
<1>2. Kept(r, g.r)
  <2>1. CASE w.pbc
    <3>1. g.r = r
      BY <1>1, <2>1 DEF wps_get_dev_password
    <3> QED BY <3>1, KeptSelf
  <2>2. CASE ~w.pbc
    BY <1>1, <2>2, GetPinKept DEF wps_get_dev_password
  <2> QED BY <2>1, <2>2
<1>3. CASE g.pin = NoPin
  <2>1. PICK m : m = Message(w, "M2D", None)
    OBVIOUS
  <2>2. m.t = "M2D"
    BY <2>1 DEF Message
  <2>3. x = RSend(g.r, w, "RECV_M2D_ACK", m)
    BY <1>1, <1>3, <2>1 DEF SendM2, wps_build_m2d
  <2>4. x.r = g.r /\ x.m = m /\ x.w.pbc = w.pbc /\ x.w.st = "RECV_M2D_ACK"
    BY <2>3, RSendPbc
  <2> QED BY <1>2, <2>2, <2>4 DEF SentPbc
<1>4. CASE g.pin # NoPin
  <2>1. PICK p : p = [w EXCEPT !.pw = g.pin.pin, !.pin = g.pin.id]
    OBVIOUS
  <2>2. IsSes(p) /\ p.pbc = w.pbc
    BY <2>1 DEF IsSes, SesFields
  <2>3. PICK z : z = [p EXCEPT !.nr = p.n]
    OBVIOUS
  <2>4. IsSes(z) /\ z.pbc = p.pbc
    BY <2>2, <2>3 DEF IsSes, SesFields
  <2>5. PICK y : y = <<z.ne, z.nr>>
    OBVIOUS
  <2>6. PICK k : k = [z EXCEPT !.key = y]
    OBVIOUS
  <2>7. IsSes(k) /\ k.pbc = z.pbc
    BY <2>4, <2>6 DEF IsSes, SesFields
  <2>8. PICK m : m = Message(k, "M2", None)
    OBVIOUS
  <2>9. m.t = "M2"
    BY <2>8 DEF Message
  <2>10. x = wps_build_m2(g.r, p)
    BY <1>1, <1>4, <2>1 DEF SendM2
  <2>11. x = RSend(g.r, k, "RECV_M3", m)
    BY <2>3, <2>5, <2>6, <2>8, <2>10 DEF wps_build_m2, wps_derive_keys
  <2>12. x.r = g.r /\ x.m = m /\ x.w.pbc = w.pbc /\ x.w.st = "RECV_M3"
    BY <2>2, <2>4, <2>7, <2>11, RSendPbc
  <2> QED BY <1>2, <2>9, <2>12 DEF SentPbc
<1> QED BY <1>3, <1>4

\* wps_registrar_get_msg, in the states wps_registrar_process_msg leaves.
LEMMA GetMsgPbc ==
  ASSUME NEW r, RegPbc(r), NEW w, IsSes(w), w.st \in RegistrarSends, NEW x,
         x = wps_registrar_get_msg(r, w)
  PROVE  SentPbc(r, w, x)
<1>0. Kept(r, r)
  BY KeptSelf
<1>1. CASE w.st = "SEND_M2"
  BY <1>1, SendM2Pbc DEF wps_registrar_get_msg
<1>2. CASE w.st = "SEND_M2D"
  <2>1. PICK m : m = Message(w, "M2D", None)
    OBVIOUS
  <2>2. m.t = "M2D" /\ x = RSend(r, w, "RECV_M2D_ACK", m)
    BY <1>2, <2>1 DEF wps_registrar_get_msg, wps_build_m2d, Message
  <2>3. x.r = r /\ x.m = m /\ x.w.pbc = w.pbc /\ x.w.st = "RECV_M2D_ACK"
    BY <2>2, RSendPbc
  <2> QED BY <1>0, <2>2, <2>3 DEF SentPbc
<1>3. CASE w.st = "SEND_M4"
  <2>1. PICK m : m = [Message(w, "M4", wps_build_encr_settings(w, "R-S1"))
                         EXCEPT !.h = wps_build_r_hash(w)]
    OBVIOUS
  <2>2. m.t = "M4"
    BY <2>1 DEF Message
  <2>3. x = RSend(r, w, "RECV_M5", m)
    BY <1>3, <2>1 DEF wps_registrar_get_msg, wps_build_m4
  <2>4. x.r = r /\ x.m = m /\ x.w.pbc = w.pbc /\ x.w.st = "RECV_M5"
    BY <2>3, RSendPbc
  <2> QED BY <1>0, <1>3, <2>2, <2>4 DEF SentPbc
<1>4. CASE w.st = "SEND_M6"
  <2>1. PICK m : m = Message(w, "M6", wps_build_encr_settings(w, "R-S2"))
    OBVIOUS
  <2>2. m.t = "M6"
    BY <2>1 DEF Message
  <2>3. x = RSend(r, w, "RECV_M7", m)
    BY <1>4, <2>1 DEF wps_registrar_get_msg, wps_build_m6
  <2>4. x.r = r /\ x.m = m /\ x.w.pbc = w.pbc /\ x.w.st = "RECV_M7"
    BY <2>3, RSendPbc
  <2> QED BY <1>0, <1>4, <2>2, <2>4 DEF SentPbc
<1>5. CASE w.st = "SEND_M8"
  <2>1. PICK c : c = wps_build_cred(w)
    OBVIOUS
  <2>2. IsSes(c) /\ c.pbc = w.pbc
    <3>1. PICK nk, cr : c = [w EXCEPT !.new_psk = nk, !.cred = cr]
      BY <2>1, CredShape DEF CredMade
    <3> QED BY <3>1 DEF IsSes, SesFields
  <2>3. PICK m : m = Message(c, "M8", wps_build_encr_settings(c, c.cred))
    OBVIOUS
  <2>4. x = RSend(r, c, "RECV_DONE", m)
    BY <1>5, <2>1, <2>3 DEF wps_registrar_get_msg, wps_build_m8
  <2>5. x.r = r /\ x.m = m /\ x.w.pbc = w.pbc /\ x.w.st = "RECV_DONE"
    BY <2>2, <2>4, RSendPbc
  <2> QED BY <1>0, <1>5, <2>5 DEF SentPbc
<1>6. CASE w.st = "SEND_WSC_NACK"
  <2>1. PICK m : m = Message(w, "NACK", None)
    OBVIOUS
  <2>2. m.t = "NACK"
    BY <2>1 DEF Message
  <2>3. x = RSend(r, w, "SEND_WSC_NACK", m)
    BY <1>6, <2>1 DEF wps_registrar_get_msg
  <2>4. x.r = r /\ x.m = m /\ x.w.pbc = w.pbc /\ x.w.st = "SEND_WSC_NACK"
    BY <2>3, RSendPbc
  <2> QED BY <1>0, <2>2, <2>4 DEF SentPbc
<1> QED BY <1>1, <1>2, <1>3, <1>4, <1>5, <1>6 DEF RegistrarSends

-----------------------------------------------------------------------------
\* What a message makes of a session and of the registrar: it goes on, its M1
\* is accepted in push-button mode or not, or it is done.
GoesOn(r, s, p) ==
    /\ Kept(r, p.r)
    /\ p.res = "WPS_CONTINUE" =>
         /\ p.w.pbc = s.pbc
         /\ p.w.st = "SEND_M2" => s.st = "RECV_M1"
         /\ p.w.st = "SEND_M4" => s.st = "RECV_M3"
         /\ p.w.st = "SEND_M6" => s.st = "RECV_M5"
         /\ p.w.st = "SEND_M8" => s.st = "RECV_M7" /\ ~Overlapped(r, s)

Admitted(r, p, e) ==
    /\ r.pbc /\ ~r.force /\ FreshSessions(r) \subseteq {e} /\ e \in FreshSessions(p.r)
    /\ p.w.pbc /\ p.w.st = "SEND_M2"

MeetsM1(r, p, e) ==
    /\ Entered(r, p.r, e) /\ p.res = "WPS_CONTINUE"
    /\ p.w.st = "SEND_M2D" \/ Admitted(r, p, e)

PbcStep(r, s, p) ==
    \/ GoesOn(r, s, p)
    \/ MeetsM1(r, p, s.uuid)
    \/ Left(r, p.r, s.uuid) /\ p.res = "WPS_DONE"

\* A result to go on with.
LEMMA RetFields ==
  ASSUME NEW r, NEW w, IsSes(w), NEW st, NEW x, x = RRet(r, w, st)
  PROVE  x.r = r /\ x.res = "WPS_CONTINUE" /\ x.w.st = st /\ x.w.pbc = w.pbc
<1>1. PICK q : q = [w EXCEPT !.st = st]
  OBVIOUS
<1>2. x = [r |-> r, w |-> q, res |-> "WPS_CONTINUE"]
  BY <1>1 DEF RRet
<1>3. q.st = st /\ q.pbc = w.pbc
  BY <1>1 DEF IsSes, SesFields
<1> QED BY <1>2, <1>3

\* wps_process_m1.
LEMMA M1Pbc ==
  ASSUME NEW r, RegPbc(r), NEW s, IsSes(s), s.uuid # None, NEW m, NEW x,
         x = wps_process_m1(r, s, m)
  PROVE  PbcStep(r, s, x)
<1>1. PICK w : w = [s EXCEPT !.ne = m.ne]
  OBVIOUS
<1>2. PICK b : b = [w EXCEPT !.pbc = TRUE]
  OBVIOUS
<1>3. /\ IsSes(w) /\ w.uuid = s.uuid /\ w.st = s.st /\ w.pbc = s.pbc
      /\ IsSes(b) /\ b.pbc = TRUE
  BY <1>1, <1>2 DEF IsSes, SesFields
<1>4. PICK f : f = [r EXCEPT !.force = TRUE]
  OBVIOUS
<1>5. PICK a : a = wps_registrar_add_pbc_session(r, w.uuid)
  OBVIOUS
<1> DEFINE o == r.force \/ wps_registrar_pbc_overlap(r, w.uuid)
<1>6. CASE w.st # "RECV_M1"
  <2>1. x = RFailure(r, s)
    BY <1>1, <1>6 DEF wps_process_m1
  <2>2. x.r = r /\ x.res = "WPS_FAILURE"
    BY <2>1 DEF RFailure
  <2> QED BY <2>2, KeptSelf DEF PbcStep, GoesOn
<1>7. CASE w.st = "RECV_M1"
  <2>1. x = CASE w.dpi # "pbc" -> RRet(r, w, "SEND_M2")
              [] w.dpi = "pbc" /\ ~r.pbc -> RRet(r, w, "SEND_M2D")
              [] w.dpi = "pbc" /\ r.pbc /\ o -> RRet(f, w, "SEND_M2D")
              [] w.dpi = "pbc" /\ r.pbc /\ ~o -> RRet(a, b, "SEND_M2")
    BY <1>1, <1>2, <1>4, <1>5, <1>7, Zenon DEF wps_process_m1
  <2>2. CASE w.dpi # "pbc"
    <3>1. x = RRet(r, w, "SEND_M2")
      BY <2>1, <2>2, Zenon
    <3>2. x.r = r /\ x.w.st = "SEND_M2" /\ x.w.pbc = s.pbc
      BY <1>3, <3>1, RetFields
    <3> QED BY <1>3, <1>7, <3>2, KeptSelf DEF PbcStep, GoesOn
  <2>3. CASE w.dpi = "pbc" /\ ~r.pbc
    <3>1. x = RRet(r, w, "SEND_M2D")
      BY <2>1, <2>3, Zenon
    <3>2. x.r = r /\ x.w.st = "SEND_M2D" /\ x.w.pbc = s.pbc
      BY <1>3, <3>1, RetFields
    <3> QED BY <3>2, KeptSelf DEF PbcStep, GoesOn
  <2>4. CASE w.dpi = "pbc" /\ r.pbc /\ o
    <3>1. x = RRet(f, w, "SEND_M2D")
      BY <2>1, <2>4, Zenon
    <3>2. x.r = f /\ x.w.st = "SEND_M2D" /\ x.res = "WPS_CONTINUE"
      BY <1>3, <3>1, RetFields
    <3>3. /\ {"pbc", "force", "pbcs"} \subseteq DOMAIN f /\ f.pbcs = r.pbcs
          /\ f.force = TRUE /\ f.pbc = r.pbc
      BY <1>4 DEF RegPbc
    <3>4. FreshSessions(f) = FreshSessions(r)
      BY <3>3 DEF FreshSessions
    <3>5. Entered(r, f, s.uuid)
      BY <3>3, <3>4 DEF Entered, RegPbc
    <3> QED BY <3>2, <3>5 DEF PbcStep, MeetsM1
  <2>5. CASE w.dpi = "pbc" /\ r.pbc /\ ~o
    <3>1. x = RRet(a, b, "SEND_M2")
      BY <2>1, <2>5, Zenon
    <3>2. x.r = a /\ x.w.st = "SEND_M2" /\ x.res = "WPS_CONTINUE" /\ x.w.pbc = TRUE
      BY <1>3, <3>1, RetFields
    <3>3. /\ RegPbc(a) /\ a.force = r.force /\ a.pbc = r.pbc
          /\ FreshSessions(a) = FreshSessions(r) \cup {s.uuid}
      BY <1>3, <1>5, AddSession
    <3>4. ~r.force /\ FreshSessions(r) \subseteq {s.uuid}
      BY <1>3, <2>5, Overlap
    <3>5. Entered(r, a, s.uuid)
      BY <3>3, <3>4 DEF Entered
    <3>6. Admitted(r, x, s.uuid)
      BY <2>5, <3>2, <3>3, <3>4 DEF Admitted
    <3> QED BY <3>2, <3>5, <3>6 DEF PbcStep, MeetsM1
  <2> QED BY <2>2, <2>3, <2>4, <2>5, Zenon
<1> QED BY <1>6, <1>7

\* wps_process_m3, m5 and m7.
LEMMA M357Pbc ==
  ASSUME NEW r, RegPbc(r), NEW s, IsSes(s), NEW m
  PROVE  /\ GoesOn(r, s, wps_process_m3(r, s, m))
         /\ GoesOn(r, s, wps_process_m5(r, s, m))
         /\ GoesOn(r, s, wps_process_m7(r, s, m))
         /\ GoesOn(r, s, RFailure(r, s))
<1>0. Kept(r, r)
  BY KeptSelf
<1>1. ASSUME NEW x, Kept(r, x), NEW p, p = RNack(x, s) PROVE GoesOn(r, s, p)
  <2>1. p.r = x /\ p.w.st = "SEND_WSC_NACK" /\ p.w.pbc = s.pbc
    BY <1>1, RetFields DEF RNack
  <2> QED BY <1>1, <2>1 DEF GoesOn
<1>2. GoesOn(r, s, wps_process_m3(r, s, m))
  <2>1. PICK h : h = [s EXCEPT !.ph = m.h]
    OBVIOUS
  <2>2. IsSes(h) /\ h.pbc = s.pbc
    BY <2>1 DEF IsSes, SesFields
  <2>3. PICK p : p = RRet(r, h, "SEND_M4")
    OBVIOUS
  <2>4. p.r = r /\ p.w.st = "SEND_M4" /\ p.w.pbc = s.pbc
    BY <2>2, <2>3, RetFields
  <2>5. s.st = "RECV_M3" => GoesOn(r, s, p)
    BY <1>0, <2>4 DEF GoesOn
  <2>6. \/ wps_process_m3(r, s, m) = RNack(r, s)
        \/ wps_process_m3(r, s, m) = p /\ s.st = "RECV_M3"
    BY <2>1, <2>3 DEF wps_process_m3
  <2> QED BY <1>0, <1>1, <2>5, <2>6
<1>3. GoesOn(r, s, wps_process_m5(r, s, m))
  <2>1. PICK p : p = RRet(r, s, "SEND_M6")
    OBVIOUS
  <2>2. p.r = r /\ p.w.st = "SEND_M6" /\ p.w.pbc = s.pbc
    BY <2>1, RetFields
  <2>3. s.st = "RECV_M5" => GoesOn(r, s, p)
    BY <1>0, <2>2 DEF GoesOn
  <2>4. \/ wps_process_m5(r, s, m) = RNack(r, s)
        \/ wps_process_m5(r, s, m) = p /\ s.st = "RECV_M5"
    BY <2>1 DEF wps_process_m5
  <2> QED BY <1>0, <1>1, <2>3, <2>4
<1>4. GoesOn(r, s, wps_process_m7(r, s, m))
  <2>1. PICK a, b : /\ a = wps_registrar_invalidate_pin(r, s.uuid)
                    /\ b = wps_registrar_invalidate_pin(wps_registrar_unlock_pin(r, s.uuid), s.uuid)
    OBVIOUS
  <2>2. Kept(r, a) /\ Kept(r, b)
    BY <2>1, UnlockKept
  <2>3. PICK p : p = RRet(b, s, "SEND_M8")
    OBVIOUS
  <2>4. p.r = b /\ p.w.st = "SEND_M8" /\ p.w.pbc = s.pbc
    BY <2>3, RetFields
  <2>5. s.st = "RECV_M7" /\ ~Overlapped(r, s) => GoesOn(r, s, p)
    BY <2>2, <2>4 DEF GoesOn
  <2>6. \/ wps_process_m7(r, s, m) \in {RNack(r, s), RNack(a, s)}
        \/ wps_process_m7(r, s, m) = p /\ s.st = "RECV_M7" /\ ~Overlapped(r, s)
    BY <2>1, <2>3 DEF wps_process_m7, wps_process_e_snonce2
  <2> QED BY <1>0, <1>1, <2>2, <2>5, <2>6
<1>5. GoesOn(r, s, RFailure(r, s))
  <2>1. RFailure(r, s).r = r /\ RFailure(r, s).res = "WPS_FAILURE"
    BY DEF RFailure
  <2> QED BY <1>0, <2>1 DEF GoesOn
<1> QED BY <1>2, <1>3, <1>4, <1>5

\* wps_registrar_process_msg.
LEMMA ProcessPbc ==
  ASSUME NEW r, RegPbc(r), NEW s, IsSes(s), s.uuid # None, NEW m, NEW x,
         x = wps_registrar_process_msg(r, s, m)
  PROVE  PbcStep(r, s, x)
<1> DEFINE ret == CASE m.t = "M1" -> wps_process_m1(r, s, m)
                    [] m.t = "M3" -> wps_process_m3(r, s, m)
                    [] m.t = "M5" -> wps_process_m5(r, s, m)
                    [] m.t = "M7" -> wps_process_m7(r, s, m)
                    [] OTHER -> RFailure(r, s)
           last == IF ret.res = "WPS_CONTINUE" THEN m.t ELSE ret.w.last
<1>1. ret \in {wps_process_m1(r, s, m), wps_process_m3(r, s, m), wps_process_m5(r, s, m),
               wps_process_m7(r, s, m), RFailure(r, s)}
  OBVIOUS
<1>2. wps_registrar_process_wsc_msg(r, s, m) \in {RFailure(r, s), [ret EXCEPT !.w.last = last]}
  BY DEF wps_registrar_process_wsc_msg
<1> HIDE DEF ret, last
<1>3. GoesOn(r, s, RFailure(r, s)) /\ PbcStep(r, s, ret)
  BY <1>1, M1Pbc, M357Pbc DEF PbcStep
<1>4. ret.res = "WPS_CONTINUE" => IsSes(ret.w)
  <2>1. RegistrarStep(s, m, ret)
    BY <1>1, RegM1, RegM357, RegFailure
  <2> QED BY <2>1 DEF RegistrarStep
<1>5. PbcStep(r, s, [ret EXCEPT !.w.last = last])
  <2>1. ret = [r |-> ret.r, w |-> ret.w, res |-> ret.res]
    BY <1>1, RegShape
  <2>2. PICK q : q = [ret.w EXCEPT !.last = last]
    OBVIOUS
  <2>3. PICK y : y = [r |-> ret.r, w |-> q, res |-> ret.res]
    OBVIOUS
  <2>4. [ret EXCEPT !.w.last = last] = y
    BY <2>1, <2>2, <2>3
  <2>5. y.r = ret.r /\ y.res = ret.res /\ y.w = q
    BY <2>3
  <2>6. y.res = "WPS_CONTINUE" => y.w.st = ret.w.st /\ y.w.pbc = ret.w.pbc
    BY <1>4, <2>2, <2>5 DEF IsSes, SesFields
  <2>7. CASE GoesOn(r, s, ret)
    BY <2>4, <2>5, <2>6, <2>7 DEF PbcStep, GoesOn
  <2>8. CASE MeetsM1(r, ret, s.uuid)
    BY <2>4, <2>5, <2>6, <2>8 DEF PbcStep, MeetsM1, Admitted
  <2>9. CASE Left(r, ret.r, s.uuid) /\ ret.res = "WPS_DONE"
    BY <2>4, <2>5, <2>9 DEF PbcStep
  <2> QED BY <1>3, <2>7, <2>8, <2>9 DEF PbcStep
<1>6. PbcStep(r, s, wps_registrar_process_wsc_msg(r, s, m)) /\ PbcStep(r, s, RFailure(r, s))
  BY <1>2, <1>3, <1>5 DEF PbcStep
<1>7. CASE m.t = "Done" /\ s.st = "RECV_DONE" /\ m.nr = s.nr /\ m.ne = s.ne
  <2>1. PICK a : a = wps_registrar_remove_pbc_session(r, s.uuid)
    OBVIOUS
  <2>2. PICK b : b = wps_registrar_stop_pbc(a)
    OBVIOUS
  <2>3. PICK c : c = [b EXCEPT !.ignore = s.uuid]
    OBVIOUS
  <2>4. PICK d : d = wps_registrar_pin_completed(r)
    OBVIOUS
  <2>5. x.res = "WPS_DONE" /\ (x.r = c \/ x.r = d)
    <3>1. x = [r |-> IF s.pbc THEN c ELSE d, w |-> s, res |-> "WPS_DONE"]
      BY <1>7, <2>1, <2>2, <2>3, <2>4 DEF wps_registrar_process_msg, WscMsgs
    <3> QED BY <3>1
  <2>6. /\ RegPbc(a) /\ a.force = r.force
        /\ FreshSessions(a) = FreshSessions(r) \ {s.uuid}
    BY <2>1, RemoveSession
  <2>7. PICK y : y = [a EXCEPT !.sel = FALSE, !.pbc = FALSE]
    OBVIOUS
  <2>8. Kept(a, y) /\ y.pbc = FALSE
    BY <2>6, <2>7 DEF Kept, RegPbc
  <2>9. Kept(y, b)
    BY <2>2, <2>6, <2>7, <2>8, KeptFresh, ChangedKept DEF wps_registrar_stop_pbc
  <2>10. Kept(a, b) /\ ~b.pbc
    BY <2>8, <2>9, KeptTwice DEF Kept
  <2>11. RegPbc(b) /\ FreshSessions(b) = FreshSessions(a) /\ (b.force <=> a.force)
    BY <2>6, <2>10, KeptFresh DEF Kept
  <2>12. Kept(b, c)
    BY <2>3, <2>11 DEF Kept, RegPbc
  <2>13. RegPbc(c) /\ FreshSessions(c) = FreshSessions(b) /\ (c.force <=> b.force) /\ ~c.pbc
    BY <2>10, <2>11, <2>12, KeptFresh DEF Kept
  <2>14. Left(r, c, s.uuid)
    BY <2>6, <2>11, <2>13 DEF Left
  <2>15. Kept(r, d)
    <3>1. PICK z : z = [r EXCEPT !.sel = FALSE]
      OBVIOUS
    <3>2. Kept(r, z)
      BY <3>1 DEF Kept, RegPbc
    <3>3. Kept(z, d)
      BY <2>4, <3>1, <3>2, KeptFresh, ChangedKept DEF wps_registrar_pin_completed
    <3> QED BY <3>2, <3>3, KeptTwice
  <2> QED BY <2>5, <2>14, <2>15 DEF PbcStep, GoesOn
<1>8. CASE ~(m.t = "Done" /\ s.st = "RECV_DONE" /\ m.nr = s.nr /\ m.ne = s.ne)
  <2>1. x \in {wps_registrar_process_wsc_msg(r, s, m), RFailure(r, s)}
    BY <1>8 DEF wps_registrar_process_msg
  <2> QED BY <1>6, <2>1
<1> QED BY <1>7, <1>8

-----------------------------------------------------------------------------
(* The steps, again for the push button *)

\* What the three changes of the sessions mean for an exchange.
LEMMA KeptSession ==
  ASSUME NEW r, RegPbc(r), NEW x, Kept(r, x), NEW e, NEW s, NEW gr, SessionPbc(e, s, r, gr)
  PROVE  SessionPbc(e, s, x, gr)
BY KeptFresh DEF SessionPbc, Alone, Kept

\* A session of another enrollee is an overlap the exchange will see.
LEMMA EnteredSession ==
  ASSUME NEW r, NEW x, NEW f, Entered(r, x, f), NEW e, NEW s, NEW gr, SessionPbc(e, s, r, gr)
  PROVE  SessionPbc(e, s, x, gr)
BY DEF SessionPbc, Alone, Entered

\* The session of another enrollee is removed.
LEMMA LeftSession ==
  ASSUME NEW r, NEW x, NEW f, Left(r, x, f), NEW e, e # f, NEW s, NEW gr, SessionPbc(e, s, r, gr)
  PROVE  SessionPbc(e, s, x, gr)
BY DEF SessionPbc, Alone, Left

\* Served enrollees stay sessions until the button is no longer active.
LEMMA PbcServed ==
  ASSUME NEW r, RegPbc(r), NEW x, NEW gr, Served(r, gr), NEW f,
         Kept(r, x) \/ Entered(r, x, f) \/ Left(r, x, f)
  PROVE  RegPbc(x) /\ Served(x, gr)
<1>1. CASE Kept(r, x)
  BY <1>1, KeptFresh DEF Served, Kept
<1>2. CASE Entered(r, x, f)
  BY <1>2 DEF Served, Entered
<1>3. CASE Left(r, x, f)
  BY <1>3 DEF Served, Left
<1> QED BY <1>1, <1>2, <1>3

\* A grant: the exchange was in progress, and no overlap was seen.
Grants(s, r) == s # NoSession /\ InProgress(s) /\ ~r.force

\* A grant goes to the one session, when no other enrollee was served.
LEMMA GrantAlone ==
  ASSUME NEW e, NEW s, NEW r, NEW gr, SessionPbc(e, s, r, gr), Grants(s, r)
  PROVE  FreshSessions(r) \cup gr \subseteq {e} /\ e \in FreshSessions(r)
BY DEF SessionPbc, Alone, Grants

\* No other exchange is in progress then.
LEMMA GrantOthers ==
  ASSUME NEW e, NEW r, NEW gr, FreshSessions(r) \subseteq {e}, NEW f, f # e, NEW s,
         SessionPbc(f, s, r, gr), NEW gr2
  PROVE  SessionPbc(f, s, r, gr2)
BY DEF SessionPbc, Alone

\* RegistrarRx: M8 in push-button mode only as a grant, and the session it
\* leaves.
LEMMA RegistrarRxPbc ==
  ASSUME RegInv, PbcInv, NEW e \in Enrollees, RegistrarRx(e)
  PROVE  /\ PbcInv'
         /\ hist'.granted # hist.granted
               => hist'.granted = hist.granted \cup {e} /\ Grants(ses[e], reg)
<1>0. /\ RegPbc(reg) /\ Served(reg, hist.granted) /\ DOMAIN hist = HistFields
      /\ \A f \in Enrollees : SessionPbc(f, ses[f], reg, hist.granted)
      /\ PerEnrollee(ses) /\ e # None
  BY EnrolleesAssumption DEF PbcInv, RegInv
<1>1. PICK p, g :
        /\ p = wps_registrar_process_msg(reg, ses[e], net[e].m)
        /\ g = wps_registrar_get_msg(p.r, p.w)
        /\ reg' = IF Sent(p, g) THEN g.r ELSE p.r
        /\ ses' = IF Sent(p, g) THEN [ses EXCEPT ![e] = g.w] ELSE [ses EXCEPT ![e] = NoSession]
        /\ hist' = Recorded(e, p, g)
  BY Zenon DEF RegistrarRx
<1>2. PICK gr : gr = IF Sent(p, g) /\ g.m.t = "M8" /\ p.w.pbc THEN hist.granted \cup {e}
                     ELSE hist.granted
  OBVIOUS
<1>3. DOMAIN hist' = HistFields /\ hist'.granted = gr
  <2>1. PICK us, dn : hist' = [hist EXCEPT !.granted = gr, !.uses = us, !.done = dn]
    BY <1>1, <1>2, Zenon DEF Recorded
  <2> QED BY <1>0, <2>1 DEF HistFields
<1>4. ses[e] # NoSession /\ IsSes(ses[e]) /\ ses[e].uuid = e
  <2>1. ses[e] # NoSession
    BY DEF RegistrarRx
  <2> QED BY <2>1 DEF RegInv, EnrolleeInv, SessionOK
<1>5. PbcStep(reg, ses[e], p) /\ RegistrarStep(ses[e], net[e].m, p)
  BY <1>0, <1>1, <1>4, ProcessPbc, RegProcess
<1>6. \A f \in Enrollees \ {e} : ses'[f] = ses[f]
  BY <1>0, <1>1 DEF PerEnrollee
<1>7. RegPbc(p.r) /\ Served(p.r, hist.granted)
  BY <1>0, <1>4, <1>5, PbcServed DEF PbcStep, GoesOn, MeetsM1
<1>8. \A f \in Enrollees \ {e} : SessionPbc(f, ses[f], p.r, hist.granted)
  <2>1. CASE Kept(reg, p.r)
    BY <1>0, <2>1, KeptSession
  <2>2. CASE Entered(reg, p.r, e)
    BY <1>0, <2>2, EnteredSession
  <2>3. CASE Left(reg, p.r, e)
    BY <1>0, <2>3, LeftSession
  <2> QED BY <1>4, <1>5, <2>1, <2>2, <2>3 DEF PbcStep, GoesOn, MeetsM1
<1>9. CASE ~Sent(p, g)
  <2>1. gr = hist.granted /\ reg' = p.r
    BY <1>1, <1>2, <1>9
  <2>2. ses'[e] = NoSession
    BY <1>0, <1>1, <1>9 DEF PerEnrollee
  <2>3. SessionPbc(e, ses'[e], reg', gr)
    BY <2>2 DEF SessionPbc
  <2>4. \A f \in Enrollees : SessionPbc(f, ses'[f], reg', gr)
    BY <1>6, <1>8, <2>1, <2>3
  <2>5. PbcInv'
    BY <1>3, <1>7, <2>1, <2>4 DEF PbcInv
  <2> QED BY <1>3, <2>1, <2>5
<1>10. CASE Sent(p, g)
  <2>1. /\ p.res = "WPS_CONTINUE" /\ IsSes(p.w) /\ p.w.st \in RegistrarSends
        /\ reg' = g.r
    BY <1>1, <1>5, <1>10 DEF Sent, RegistrarStep
  <2>2. SentPbc(p.r, p.w, g)
    BY <1>1, <1>7, <2>1, GetMsgPbc
  <2>3. Kept(p.r, g.r)
    BY <2>2 DEF SentPbc
  <2>4. ses'[e] = g.w
    BY <1>0, <1>1, <1>10 DEF PerEnrollee
  <2>5. RegPbc(g.r) /\ Served(g.r, hist.granted)
    BY <1>7, <2>3, PbcServed
  <2>6. \A f \in Enrollees \ {e} : SessionPbc(f, ses[f], g.r, hist.granted)
    BY <1>7, <1>8, <2>3, KeptSession
  <2>7. CASE g.m.t = "M8" /\ p.w.pbc
    <3>1. p.w.st = "SEND_M8" /\ g.w.st = "RECV_DONE"
      BY <2>2, <2>7 DEF SentPbc
    <3>2. GoesOn(reg, ses[e], p)
      BY <1>5, <2>1, <3>1 DEF PbcStep, MeetsM1, Admitted
    <3>3. Grants(ses[e], reg)
      BY <1>4, <2>1, <2>7, <3>1, <3>2 DEF GoesOn, Overlapped, Grants, InProgress
    <3>4. FreshSessions(reg) \cup hist.granted \subseteq {e} /\ e \in FreshSessions(reg)
      BY <1>0, <3>3, GrantAlone
    <3>5. FreshSessions(p.r) = FreshSessions(reg)
      BY <1>0, <3>2, KeptFresh DEF GoesOn
    <3>6. FreshSessions(g.r) = FreshSessions(reg)
      BY <1>7, <2>3, <3>5, KeptFresh
    <3>7. \A f \in Enrollees \ {e} : SessionPbc(f, ses[f], g.r, gr)
      BY <2>6, <3>4, <3>6, GrantOthers
    <3>8. gr = hist.granted \cup {e}
      BY <1>2, <1>10, <2>7
    <3>9. Served(g.r, gr)
      BY <3>4, <3>6, <3>8 DEF Served
    <3>10. SessionPbc(e, g.w, g.r, gr)
      BY <3>1 DEF SessionPbc, Alone, InProgress
    <3>11. \A f \in Enrollees : SessionPbc(f, ses'[f], reg', gr)
      BY <1>6, <2>1, <2>4, <3>7, <3>10
    <3>12. PbcInv'
      BY <1>3, <2>1, <2>5, <3>9, <3>11 DEF PbcInv
    <3> QED BY <1>3, <3>3, <3>8, <3>12
  <2>8. CASE ~(g.m.t = "M8" /\ p.w.pbc)
    <3>1. gr = hist.granted
      BY <1>2, <2>8
    <3>2. FreshSessions(g.r) = FreshSessions(p.r) /\ (g.r.force <=> p.r.force)
      BY <1>7, <2>3, KeptFresh DEF Kept
    <3>3. Alone(e, g.w, g.r, gr)
      <4>1. SUFFICES ASSUME InProgress(g.w)
                     PROVE  /\ e \in FreshSessions(g.r)
                            /\ ~g.r.force => FreshSessions(g.r) \subseteq {e} /\ gr \subseteq {e}
        BY DEF Alone
      <4>2. p.w.pbc /\ p.w.st \in {"SEND_M2", "SEND_M4", "SEND_M6"}
        BY <2>2, <4>1 DEF SentPbc, InProgress
      <4>3. CASE GoesOn(reg, ses[e], p)
        <5>1. InProgress(ses[e])
          <6>1. ses[e].pbc /\ ses[e].st \in {"RECV_M1", "RECV_M3", "RECV_M5"}
            BY <2>1, <4>2, <4>3 DEF GoesOn
          <6>2. ses[e].st = "RECV_M1" => ~ses[e].pbc
            BY <1>0, <1>4 DEF SessionPbc
          <6> QED BY <6>1, <6>2 DEF InProgress
        <5>2. Alone(e, ses[e], reg, hist.granted)
          BY <1>0, <1>4 DEF SessionPbc
        <5>3. FreshSessions(p.r) = FreshSessions(reg) /\ (p.r.force <=> reg.force)
          BY <1>0, <4>3, KeptFresh DEF GoesOn, Kept
        <5> QED BY <3>1, <3>2, <5>1, <5>2, <5>3 DEF Alone
      <4>4. CASE MeetsM1(reg, p, e)
        <5>1. Admitted(reg, p, e) /\ Entered(reg, p.r, e)
          BY <4>2, <4>4 DEF MeetsM1
        <5>2. e \in FreshSessions(p.r) /\ FreshSessions(p.r) \subseteq {e}
          BY <5>1 DEF Admitted, Entered
        <5>3. hist.granted \subseteq {e}
          BY <1>0, <5>1 DEF Admitted, Served
        <5> QED BY <3>1, <3>2, <5>2, <5>3
      <4> QED BY <1>4, <1>5, <2>1, <4>3, <4>4 DEF PbcStep
    <3>4. SessionPbc(e, g.w, g.r, gr)
      BY <2>2, <3>3 DEF SessionPbc, SentPbc
    <3>5. \A f \in Enrollees : SessionPbc(f, ses'[f], reg', gr)
      BY <1>6, <2>1, <2>4, <2>6, <3>1, <3>4
    <3>6. PbcInv'
      BY <1>3, <2>1, <2>5, <3>1, <3>5 DEF PbcInv
    <3> QED BY <1>3, <3>1, <3>6
  <2> QED BY <2>7, <2>8
<1> QED BY <1>9, <1>10

\* wps_registrar_button_pushed: one session at most, and nobody was served.
LEMMA ButtonPbc ==
  ASSUME PbcInv, wps_registrar_button_pushed
  PROVE  PbcInv'
<1>0. /\ RegPbc(reg) /\ DOMAIN hist = HistFields
      /\ \A f \in Enrollees : SessionPbc(f, ses[f], reg, hist.granted)
  BY DEF PbcInv
<1>1. PICK y : y = [reg EXCEPT !.force = FALSE, !.sel = TRUE, !.pbc = TRUE]
  OBVIOUS
<1>2. {"pbc", "force", "pbcs"} \subseteq DOMAIN y /\ y.pbcs = reg.pbcs /\ y.force = FALSE
  BY <1>0, <1>1 DEF RegPbc
<1>3. RegPbc(y) /\ FreshSessions(y) = FreshSessions(reg)
  BY <1>0, <1>2 DEF RegPbc, FreshSessions
<1>4. Kept(y, reg')
  BY <1>1, <1>3, ChangedKept DEF wps_registrar_button_pushed
<1>5. RegPbc(reg') /\ FreshSessions(reg') = FreshSessions(reg)
  BY <1>3, <1>4, KeptFresh
<1>6. DOMAIN hist' = HistFields /\ hist'.granted = {} /\ ses' = ses
  BY <1>0 DEF wps_registrar_button_pushed, HistFields
<1>7. ASSUME NEW f \in Enrollees PROVE SessionPbc(f, ses'[f], reg', hist'.granted)
  <2>1. SUFFICES ASSUME ses[f] # NoSession, InProgress(ses[f])
                 PROVE  /\ f \in FreshSessions(reg)
                        /\ FreshSessions(reg) \subseteq {f}
    BY <1>0, <1>5, <1>6 DEF SessionPbc, Alone
  <2>2. f \in FreshSessions(reg)
    BY <1>0, <2>1 DEF SessionPbc, Alone
  <2> QED BY <1>0, <2>2, OverlapTwo DEF wps_registrar_button_pushed
<1>8. Served(reg', hist'.granted)
  BY <1>6 DEF Served
<1> QED BY <1>5, <1>6, <1>7, <1>8 DEF PbcInv

\* A step that leaves the push-button sessions, the exchanges and the history
\* of grants alone.
LEMMA KeptStep ==
  ASSUME PbcInv, Kept(reg, reg'), ses' = ses, DOMAIN hist' = HistFields,
         hist'.granted = hist.granted
  PROVE  PbcInv'
<1>1. RegPbc(reg') /\ Served(reg', hist.granted)
  BY PbcServed DEF PbcInv
<1>2. \A f \in Enrollees : SessionPbc(f, ses[f], reg', hist.granted)
  BY KeptSession DEF PbcInv
<1> QED BY <1>1, <1>2 DEF PbcInv

\* wps_registrar_wps_cancel, wps_registrar_add_pin and a PIN that expires.
LEMMA OperatorPbc ==
  ASSUME PbcInv,
         \/ wps_registrar_wps_cancel
         \/ \E u, q : wps_registrar_add_pin(u, q)
         \/ \E p : PinExpires(p)
  PROVE  PbcInv'
<1>0. RegPbc(reg) /\ DOMAIN hist = HistFields
  BY DEF PbcInv
<1>1. CASE wps_registrar_wps_cancel
  <2>1. PICK y, z : /\ y = [reg EXCEPT !.sel = FALSE, !.pbc = FALSE]
                    /\ z = [reg EXCEPT !.sel = FALSE]
    OBVIOUS
  <2>2. Kept(reg, y) /\ Kept(reg, z)
    BY <1>0, <2>1 DEF Kept, RegPbc
  <2>3. PICK a, b, c : /\ a = wps_registrar_selected_registrar_changed(y)
                       /\ b = wps_registrar_selected_registrar_changed(z)
                       /\ c = wps_registrar_invalidate_wildcard_pin(b)
    OBVIOUS
  <2>4. reg' = a \/ reg' = c
    BY <1>1, <2>1, <2>3
       DEF wps_registrar_wps_cancel, wps_registrar_stop_pbc, wps_registrar_pin_completed
  <2>5. Kept(y, a) /\ Kept(z, b)
    BY <1>0, <2>2, <2>3, KeptFresh, ChangedKept
  <2>6. Kept(reg, a) /\ Kept(reg, b)
    BY <2>2, <2>5, KeptTwice
  <2>7. Kept(b, c)
    BY <1>0, <2>3, <2>6, KeptFresh, DropKept DEF wps_registrar_invalidate_wildcard_pin
  <2>8. Kept(reg, reg')
    BY <2>4, <2>6, <2>7, KeptTwice
  <2>9. hist' = hist /\ ses' = ses
    BY <1>1 DEF wps_registrar_wps_cancel
  <2> QED BY <1>0, <2>8, <2>9, KeptStep
<1>2. ASSUME NEW u, NEW q, wps_registrar_add_pin(u, q) PROVE PbcInv'
  <2>1. PICK wild : wild = IF u = None THEN 1 ELSE 0
    OBVIOUS
  <2>2. PICK p : p = [id |-> hist.pins + 1, pin |-> q, uuid |-> u, locked |-> FALSE,
                      wild |-> wild, expired |-> FALSE]
    OBVIOUS
  <2>3. PICK r : r = IF u = None THEN wps_registrar_invalidate_unused(reg) ELSE reg
    OBVIOUS
  <2>4. PICK ps : ps = r.pins \cup {p}
    OBVIOUS
  <2>5. PICK y : y = [r EXCEPT !.pins = ps, !.sel = TRUE, !.pbc = FALSE]
    OBVIOUS
  <2>6. reg' = wps_registrar_selected_registrar_changed(y)
    BY <1>2, <2>1, <2>2, <2>3, <2>4, <2>5 DEF wps_registrar_add_pin
  <2>7. Kept(reg, r)
    BY <1>0, <2>3, DropKept, KeptSelf DEF wps_registrar_invalidate_unused
  <2>8. Kept(r, y)
    BY <2>5, <2>7 DEF Kept
  <2>9. Kept(reg, y)
    BY <2>7, <2>8, KeptTwice
  <2>10. Kept(y, reg')
    BY <1>0, <2>6, <2>9, KeptFresh, ChangedKept
  <2>11. Kept(reg, reg')
    BY <2>9, <2>10, KeptTwice
  <2>12. DOMAIN hist' = HistFields /\ hist'.granted = hist.granted /\ ses' = ses
    BY <1>0, <1>2 DEF wps_registrar_add_pin, HistFields
  <2> QED BY <2>11, <2>12, KeptStep
<1>3. ASSUME NEW p, PinExpires(p) PROVE PbcInv'
  <2>1. PICK ps : reg' = [reg EXCEPT !.pins = ps]
    BY <1>3 DEF PinExpires, SetPin
  <2>2. Kept(reg, reg')
    BY <1>0, <2>1, PinsKept
  <2>3. hist' = hist /\ ses' = ses
    BY <1>3 DEF PinExpires
  <2> QED BY <1>0, <2>2, <2>3, KeptStep
<1> QED BY <1>1, <1>2, <1>3

\* wps_registrar_probe_req_rx: a second enrollee is an overlap, ignored or not.
LEMMA ProbePbc ==
  ASSUME PbcInv, NEW e \in Enrollees, wps_registrar_probe_req_rx(e)
  PROVE  PbcInv'
<1>0. /\ RegPbc(reg) /\ DOMAIN hist = HistFields /\ Served(reg, hist.granted) /\ e # None
      /\ \A f \in Enrollees : SessionPbc(f, ses[f], reg, hist.granted)
  BY EnrolleesAssumption DEF PbcInv
<1>1. PICK r, i, f :
        /\ r = reg \/ r = wps_registrar_add_pbc_session([reg EXCEPT !.ignore = i], e)
        /\ f <=> r.force \/ wps_registrar_pbc_overlap(r, e)
        /\ reg' = [r EXCEPT !.force = f]
  BY DEF wps_registrar_probe_req_rx
<1>2. PICK y : y = [reg EXCEPT !.ignore = i]
  OBVIOUS
<1>3. RegPbc(y) /\ y.force = reg.force /\ y.pbc = reg.pbc
      /\ FreshSessions(y) = FreshSessions(reg)
  <2>1. /\ {"pbc", "force", "pbcs"} \subseteq DOMAIN y /\ y.pbcs = reg.pbcs
        /\ y.force = reg.force /\ y.pbc = reg.pbc
    BY <1>0, <1>2 DEF RegPbc
  <2> QED BY <1>0, <2>1 DEF RegPbc, FreshSessions
<1>4. /\ RegPbc(r) /\ r.force = reg.force /\ r.pbc = reg.pbc
      /\ FreshSessions(reg) \subseteq FreshSessions(r)
      /\ FreshSessions(r) \subseteq FreshSessions(reg) \cup {e}
  <2>1. CASE r = reg
    BY <1>0, <2>1
  <2>2. CASE r = wps_registrar_add_pbc_session(y, e)
    BY <1>0, <1>3, <2>2, AddSession
  <2> QED BY <1>1, <1>2, <2>1, <2>2
<1>5. /\ {"pbc", "force", "pbcs"} \subseteq DOMAIN reg' /\ reg'.pbcs = r.pbcs
      /\ (reg'.force <=> f) /\ reg'.pbc = r.pbc
  BY <1>1, <1>4 DEF RegPbc
<1>6. RegPbc(reg') /\ FreshSessions(reg') = FreshSessions(r)
  BY <1>4, <1>5 DEF RegPbc, FreshSessions
<1>7. wps_registrar_pbc_overlap(r, e) <=> FreshSessions(r) \ {e} # {}
  BY <1>0, <1>4, Overlap
<1>8. Entered(reg, reg', e)
  BY <1>1, <1>4, <1>5, <1>6, <1>7 DEF Entered
<1>9. RegPbc(reg') /\ Served(reg', hist.granted)
  BY <1>0, <1>8, PbcServed
<1>10. \A g \in Enrollees : SessionPbc(g, ses[g], reg', hist.granted)
  BY <1>0, <1>8, EnteredSession
<1>11. hist' = hist /\ ses' = ses
  BY DEF wps_registrar_probe_req_rx
<1> QED BY <1>0, <1>9, <1>10, <1>11 DEF PbcInv

\* The walk time passes: no session is fresh.
LEMMA WalkPbc ==
  ASSUME PbcInv, WalkTime
  PROVE  PbcInv'
<1>0. RegPbc(reg) /\ DOMAIN hist = HistFields
  BY DEF PbcInv
<1>1. PICK ps : ps = {[uuid |-> p.uuid, old |-> TRUE] : p \in reg.pbcs}
  OBVIOUS
<1>2. reg' = [reg EXCEPT !.pbcs = ps, !.ignore = None]
  BY <1>1 DEF WalkTime
<1>3. {"pbc", "force", "pbcs"} \subseteq DOMAIN reg' /\ reg'.pbcs = ps
  BY <1>0, <1>2 DEF RegPbc
<1>4. \A q \in ps : q.old
  BY <1>1
<1>5. FreshSessions(reg') = {}
  BY <1>3, <1>4 DEF FreshSessions
<1>6. RegPbc(reg')
  BY <1>3, <1>5, FS_EmptySet DEF RegPbc
<1>7. DOMAIN hist' = HistFields /\ hist'.granted = {} /\ ses' = ses
  BY <1>0 DEF WalkTime, HistFields
<1>8. \A e \in Enrollees : SessionPbc(e, ses'[e], reg', hist'.granted)
  BY <1>7 DEF WalkTime, SessionPbc
<1> QED BY <1>6, <1>7, <1>8 DEF PbcInv, Served

\* A new exchange is not in progress yet, one that ends no more.
LEMMA ExchangePbc ==
  ASSUME RegInv, PbcInv, NEW e \in Enrollees, NEW mode,
         \/ StartExchange(e, mode) \/ EnrolleeRx(e) \/ LoseResponse(e)
         \/ ServerGivesUp(e) \/ EnrolleeTimeout(e)
  PROVE  PbcInv'
<1>0. /\ PerEnrollee(ses) /\ reg' = reg /\ hist' = hist
      /\ \A f \in Enrollees : SessionPbc(f, ses[f], reg, hist.granted)
  BY DEF RegInv, PbcInv, StartExchange, EnrolleeRx, LoseResponse, ServerGivesUp, EnrolleeTimeout
<1>1. ASSUME NEW s, ses' = [ses EXCEPT ![e] = s], SessionPbc(e, s, reg, hist.granted)
      PROVE  PbcInv'
  <2>1. ses'[e] = s /\ \A f \in Enrollees \ {e} : ses'[f] = ses[f]
    BY <1>0, <1>1 DEF PerEnrollee
  <2>2. \A f \in Enrollees : SessionPbc(f, ses'[f], reg, hist.granted)
    BY <1>0, <1>1, <2>1
  <2> QED BY <1>0, <2>2 DEF PbcInv
<1>2. CASE StartExchange(e, mode)
  <2>1. PICK n, y, z : n = enr'[e].ne /\ y = <<0, 0>> /\ z = <<>>
    OBVIOUS
  <2>2. PICK s : s = [st |-> "RECV_M1", uuid |-> e, dpi |-> mode, ne |-> 0, nr |-> 0,
                      n |-> n, key |-> NoKey, last |-> None, pbc |-> FALSE, pw |-> y,
                      ph |-> z, pin |-> 0, new_psk |-> NoKey, cred |-> NoKey]
    OBVIOUS
  <2>3. s.st = "RECV_M1" /\ s.pbc = FALSE
    BY <2>2
  <2>4. ses' = [ses EXCEPT ![e] = s]
    BY <1>2, <2>1, <2>2, Zenon DEF StartExchange
  <2>5. SessionPbc(e, s, reg, hist.granted)
    BY <2>3 DEF SessionPbc, Alone, InProgress
  <2> QED BY <1>1, <2>4, <2>5
<1>3. CASE ServerGivesUp(e)
  <2>1. ses' = [ses EXCEPT ![e] = NoSession]
    BY <1>3 DEF ServerGivesUp
  <2>2. SessionPbc(e, NoSession, reg, hist.granted)
    BY DEF SessionPbc
  <2> QED BY <1>1, <2>1, <2>2
<1>4. CASE EnrolleeRx(e) \/ LoseResponse(e) \/ EnrolleeTimeout(e)
  <2>1. ses' = ses
    BY <1>4 DEF EnrolleeRx, LoseResponse, EnrolleeTimeout
  <2> QED BY <1>0, <2>1 DEF PbcInv
<1> QED BY <1>2, <1>3, <1>4

\* PbcInv is inductive, and a step that serves an enrollee is a grant.
LEMMA PbcInvNext ==
  ASSUME RegInv, PbcInv, [Next]_vars
  PROVE  /\ PbcInv'
         /\ \A e \in hist'.granted \ hist.granted :
               FreshSessions(reg) \cup hist.granted \subseteq {e}
<1>0. DOMAIN hist = HistFields
  BY DEF PbcInv
<1>1. CASE UNCHANGED vars \/ CredentialInstalled
  <2>1. reg' = reg /\ ses' = ses /\ hist' = hist
    BY <1>1 DEF vars, CredentialInstalled
  <2> QED BY <2>1 DEF PbcInv
<1>2. CASE wps_registrar_button_pushed
  <2>1. hist'.granted = {}
    BY <1>0, <1>2 DEF wps_registrar_button_pushed, HistFields
  <2> QED BY <1>2, <2>1, ButtonPbc
<1>3. CASE WalkTime
  <2>1. hist'.granted = {}
    BY <1>0, <1>3 DEF WalkTime, HistFields
  <2> QED BY <1>3, <2>1, WalkPbc
<1>4. ASSUME NEW u \in Enrollees \cup {None}, NEW f \in Enrollees,
             wps_registrar_add_pin(u, PinOf[f])
      PROVE  PbcInv' /\ hist'.granted = hist.granted
  <2>1. hist'.granted = hist.granted
    BY <1>0, <1>4 DEF wps_registrar_add_pin, HistFields
  <2> QED BY <1>4, <2>1, OperatorPbc
<1>5. CASE wps_registrar_wps_cancel \/ \E p \in reg.pins : PinExpires(p)
  <2>1. hist' = hist
    BY <1>5 DEF wps_registrar_wps_cancel, PinExpires
  <2> QED BY <1>5, <2>1, OperatorPbc
<1>6. ASSUME NEW e \in Enrollees, wps_registrar_probe_req_rx(e)
      PROVE  PbcInv' /\ hist'.granted = hist.granted
  <2>1. hist' = hist
    BY <1>6 DEF wps_registrar_probe_req_rx
  <2> QED BY <1>6, <2>1, ProbePbc
<1>7. ASSUME NEW e \in Enrollees, NEW mode,
             \/ StartExchange(e, mode) \/ EnrolleeRx(e) \/ LoseResponse(e)
             \/ ServerGivesUp(e) \/ EnrolleeTimeout(e)
      PROVE  PbcInv' /\ hist'.granted = hist.granted
  <2>1. hist' = hist
    BY <1>7 DEF StartExchange, EnrolleeRx, LoseResponse, ServerGivesUp, EnrolleeTimeout
  <2> QED BY <1>7, <2>1, ExchangePbc
<1>8. ASSUME NEW e \in Enrollees, RegistrarRx(e)
      PROVE  /\ PbcInv'
             /\ \A f \in hist'.granted \ hist.granted :
                   FreshSessions(reg) \cup hist.granted \subseteq {f}
  <2>1. /\ PbcInv'
        /\ hist'.granted # hist.granted
              => hist'.granted = hist.granted \cup {e} /\ Grants(ses[e], reg)
    BY <1>8, RegistrarRxPbc
  <2>2. ASSUME NEW f \in hist'.granted \ hist.granted
        PROVE  FreshSessions(reg) \cup hist.granted \subseteq {f}
    <3>1. f = e /\ Grants(ses[e], reg)
      BY <2>1, <2>2
    <3>2. SessionPbc(e, ses[e], reg, hist.granted)
      BY DEF PbcInv
    <3> QED BY <3>1, <3>2, GrantAlone
  <2> QED BY <2>1, <2>2
<1> QED BY <1>1, <1>2, <1>3, <1>4, <1>5, <1>6, <1>7, <1>8 DEF Next

\* No session, no exchange.
LEMMA PbcInvInit ==
  ASSUME Init
  PROVE  PbcInv
<1>1. DOMAIN hist = HistFields /\ hist.granted = {}
  BY DEF Init, HistFields
<1>2. {"pbc", "force", "pbcs"} \subseteq DOMAIN reg /\ reg.pbcs = {}
  BY DEF Init
<1>3. FreshSessions(reg) = {}
  BY <1>2 DEF FreshSessions
<1>4. RegPbc(reg)
  BY <1>2, <1>3, FS_EmptySet DEF RegPbc
<1>5. ASSUME NEW e \in Enrollees PROVE ses[e] = NoSession
  BY DEF Init
<1> QED BY <1>1, <1>4, <1>5 DEF PbcInv, Served, SessionPbc

\* A push of the button serves one enrollee: M8 goes out in push-button mode
\* only when no other enrollee was seen in that mode, or served, within the walk
\* time.
THEOREM ButtonServesOne == Spec => PbcExclusive
<1> DEFINE Inv == RegInv /\ PbcInv
           Step == \A e \in hist'.granted \ hist.granted :
                      FreshSessions(reg) \cup hist.granted \subseteq {e}
<1>1. Init => Inv
  BY RegInvInit, PbcInvInit
<1>2. Inv /\ [Next]_vars => Inv' /\ [Step]_vars
  BY RegInvNext, PbcInvNext
<1> QED BY <1>1, <1>2, PTL DEF Spec, PbcExclusive
=============================================================================
