------------------------------ MODULE WpsTask ------------------------------
(***************************************************************************)
(* The enrollee's task of esp_wps.c: the API calls that enable, start and  *)
(* disable WPS, the task that handles signals, the queue with one pending  *)
(* signal of each kind, the receive queue, five timers, and the driver's   *)
(* scan, association and received frames.  The protocol itself is in       *)
(* WpsRegistration; here a request moves the session through the states    *)
(* that the task's timers tell apart.  Memory does not run out.            *)
(***************************************************************************)
EXTENDS Naturals, Sequences, FiniteSets

CONSTANTS MaxStarts,   \* bound: calls of esp_wifi_wps_start
          MaxFrames,   \* bound: EAPOL frames received
          WPS_IGNORE_SEL_REG_MAX_CNT

VARIABLES wa   \* all of the state, one record:
    \* app      the API call the application waits in, or "idle"
    \* enabled, type, status, flag s_wps_enabled and the driver's WPS type and status
    \* sm       the state in gWpsSm->wps, or "null"
    \* scan_cnt, war, ignore   gWpsSm's scan_cnt, wps_pin_war, ignore_sel_reg
    \* armed    the timers that are armed
    \* task     what wps_task does: "none", "recv", "count", "handle"
    \* cur      the signal it received
    \* queue, cnt, rxq   s_wps_queue, s_wps_sig_cnt, s_wps_rxq
    \* rx       the driver's frame between the steps of wps_sm_rx_eapol
    \* scan, assoc   a scan runs; the station is associated
    \* starts, frames, ended   calls, frames, and whether a start has ended

Timers == {"timeout", "msg", "success", "scan", "eapol"}
Signals == {"ENABLE", "DISABLE", "START", "RX"} \cup Timers

Off == [app |-> "idle", enabled |-> FALSE, type |-> "DISABLE", status |-> "DISABLE", sm |-> "null",
        scan_cnt |-> 0, war |-> FALSE, ignore |-> FALSE, armed |-> {}, task |-> "none",
        cur |-> "none", queue |-> <<>>, cnt |-> [s \in Signals |-> 0], rxq |-> <<>>,
        rx |-> <<>>, scan |-> FALSE, assoc |-> FALSE, starts |-> 0, frames |-> 0, ended |-> TRUE]

Arm(s, t) == [s EXCEPT !.armed = @ \cup {t}]
Disarm(s, T) == [s EXCEPT !.armed = @ \ T]
Event(s) == [s EXCEPT !.ended = TRUE]

(* A signal that is already counted is not queued again. *)
wps_post(s, sig) ==
    IF s.cnt[sig] # 0 THEN s
    ELSE [s EXCEPT !.cnt[sig] = 1, !.queue = Append(@, sig)]

wifi_wps_scan(s) == wps_post(s, "scan")

-----------------------------------------------------------------------------
(* What the task does with a signal *)

wps_stop_process(s) ==
    Event(Disarm([s EXCEPT !.status = "DISABLE", !.scan_cnt = 0, !.sm = "SEND_M1", !.assoc = FALSE],
                 {"msg", "success"}))

(* Mutant: a finished session does not arm the timer of its report. *)
wps_finish_NoReport(s) ==
    IF s.sm = "FINISHED"
    THEN Disarm([s EXCEPT !.status = "SUCCESS"], {"timeout", "msg"})
    ELSE IF s.war THEN [s EXCEPT !.assoc = FALSE] ELSE wps_stop_process(s)

wps_finish(s) ==
    IF s.sm = "FINISHED"
    THEN Arm(Disarm([s EXCEPT !.status = "SUCCESS"], {"timeout", "msg"}), "success")
    ELSE IF s.war THEN [s EXCEPT !.assoc = FALSE] ELSE wps_stop_process(s)

wps_start_msg_timer(s) ==
    IF s.sm \in {"FINISHED", "RECV_M2"} THEN Arm(s, "msg") ELSE s

(* The end of wps_sm_rx_eapol_internal when a frame was not handled well. *)
RxFailed(s) ==
    IF s.war THEN wifi_wps_scan([s EXCEPT !.war = FALSE])
    ELSE Event(Disarm([s EXCEPT !.status = "DISABLE"], {"timeout"}))

(* Where requests can take the session: M1 answers the start, M2D leaves it  *)
(* waiting for M2, and M2 to M8, which the timers do not tell apart, are one *)
(* step.  "refused" is WPS_FAILURE.                                          *)
ReqResults(st) ==
    CASE st = "SEND_M1" -> {"RECV_M2"}
      [] st = "RECV_M2" -> {"RECV_M2", "EXCHANGE", "FINISHED", "refused"}
      [] st = "EXCHANGE" -> {"EXCHANGE", "FINISHED", "refused"}
      [] OTHER -> {"refused"}

(* A request without effect on the session: its identifier was there before, *)
(* or a fragment, a good one or not, or a message to be ignored (WPS_IGNORE).*)
NotTaken(s) == {s, RxFailed(s), Disarm(s, {"msg"})}

wps_sm_rx_eapol_internal(s, f) ==
    CASE s.sm = "null" -> {s}
      [] f = "failure" /\ s.sm # "null" ->
           {IF s.sm # "FINISHED" /\ s.war THEN RxFailed(wps_finish(s)) ELSE wps_finish(s)}
      [] f = "identity" /\ s.sm # "null" -> {Arm(s, "eapol")}
      [] f = "request" /\ s.sm # "null" ->
           LET d == Disarm(s, IF s.sm = "SEND_M1" THEN {"eapol", "msg"} ELSE {"msg"})
           IN {IF r = "refused" THEN RxFailed(d) ELSE wps_start_msg_timer([d EXCEPT !.sm = r]) :
                  r \in ReqResults(s.sm)} \cup NotTaken(s)

wifi_station_wps_timeout_internal(s) == Event([s EXCEPT !.status = "DISABLE"])

wifi_station_wps_msg_timeout_internal(s) ==
    CASE s.sm = "FINISHED" -> wps_finish(s)
      [] s.sm # "FINISHED" /\ s.war -> wifi_wps_scan([s EXCEPT !.war = FALSE, !.assoc = FALSE])
      [] s.sm = "RECV_M2" /\ ~s.war -> wps_stop_process(s)
      [] OTHER -> s

wps_tx_start(s) == IF s.assoc /\ s.sm # "null" THEN Arm(s, "eapol") ELSE s

wifi_station_wps_start(s) ==
    LET a == Arm(s, "timeout")
    IN IF s.status = "DISABLE" THEN wifi_wps_scan(a)
       ELSE IF s.status = "SCANNING" THEN [a EXCEPT !.scan_cnt = 0] ELSE a

wifi_wps_scan_internal(s) ==
    [s EXCEPT !.scan = TRUE,
              !.scan_cnt = IF @ > WPS_IGNORE_SEL_REG_MAX_CNT THEN @ ELSE @ + 1]

wifi_wps_enable_internal(s) ==
    [s EXCEPT !.status = "DISABLE", !.sm = "SEND_M1", !.scan_cnt = 0, !.war = FALSE, !.ignore = FALSE]

wifi_wps_disable_internal(s) == [s EXCEPT !.status = "DISABLE", !.sm = "null"]

(* The results of a signal other than RX. *)
Handle(s) ==
    CASE s.cur = "ENABLE" -> wifi_wps_enable_internal([s EXCEPT !.app = "enabled"])
      [] s.cur = "START" -> wifi_station_wps_start([s EXCEPT !.app = "idle"])
      [] s.cur = "DISABLE" -> wifi_wps_disable_internal([s EXCEPT !.app = "disabled"])
      [] s.cur = "timeout" -> wifi_station_wps_timeout_internal(s)
      [] s.cur = "msg" -> wifi_station_wps_msg_timeout_internal(s)
      [] s.cur = "success" -> Event(s)
      [] s.cur = "scan" -> wifi_wps_scan_internal(s)
      [] s.cur = "eapol" -> wps_tx_start(s)

(* wps_task: receive a signal, give back its count, then handle it; only for *)
(* a received frame does it matter what happens between the last two.        *)
TaskReceive ==
    /\ wa.task = "recv" /\ wa.queue # <<>>
    /\ wa' = [wa EXCEPT !.task = "count", !.cur = Head(wa.queue), !.queue = Tail(@)]

TaskCount ==
    /\ wa.task = "count" /\ wa.cur = "RX"
    /\ wa' = [wa EXCEPT !.task = "handle", !.cnt[wa.cur] = 0]

TaskHandle ==
    /\ wa.task = "count" /\ wa.cur # "RX"
    /\ wa' = [Handle([wa EXCEPT !.cnt[wa.cur] = 0])
                 EXCEPT !.task = IF wa.cur = "DISABLE" THEN "none" ELSE "recv", !.cur = "none"]

(* One frame of the receive queue, or the end of the loop that drains it. *)
TaskRx ==
    /\ wa.task = "handle" /\ wa.cur = "RX"
    /\ IF wa.rxq = <<>> THEN wa' = [wa EXCEPT !.task = "recv", !.cur = "none"]
       ELSE wa' \in wps_sm_rx_eapol_internal([wa EXCEPT !.rxq = Tail(@)], Head(wa.rxq))

-----------------------------------------------------------------------------
(* The application *)

esp_wifi_wps_enable(type) ==
    /\ wa.app = "idle" /\ ~wa.enabled /\ wa.starts < MaxStarts
    /\ wa' = wps_post([wa EXCEPT !.app = "enable", !.type = type, !.task = "recv",
                                 !.queue = <<>>, !.cnt = [s \in Signals |-> 0], !.rxq = <<>>], "ENABLE")

EnableReturns ==
    /\ wa.app = "enabled"
    /\ wa' = [wa EXCEPT !.app = "idle", !.enabled = TRUE]

esp_wifi_wps_start ==
    /\ wa.app = "idle" /\ wa.enabled /\ wa.starts < MaxStarts
    /\ wa.status \in {"DISABLE", "SCANNING"}
    /\ wa' = wps_post([wa EXCEPT !.app = "start", !.starts = @ + 1, !.ended = FALSE], "START")

(* wps_delete_timer, then the task disables: what is queued before that      *)
(* signal is still handled.                                                  *)
esp_wifi_wps_disable ==
    /\ wa.app = "idle" /\ wa.enabled
    /\ wa' = wps_post([wa EXCEPT !.app = "disable", !.type = "DISABLE", !.armed = {}], "DISABLE")

DisableReturns ==
    /\ wa.app = "disabled"
    /\ wa' = [wa EXCEPT !.app = "idle", !.enabled = FALSE, !.queue = <<>>, !.rxq = <<>>,
                        !.assoc = FALSE, !.ended = TRUE]

-----------------------------------------------------------------------------
(* The driver and the timers *)

(* What the results of a scan can do in which an access point was taken: one *)
(* with a selected registrar, or, with ignore_sel_reg, any one               *)
(* (wps_pin_war); after that one no other is looked at.                      *)
wps_parse_scan_result(s) ==
    IF s.war THEN {}
    ELSE {[s EXCEPT !.ignore = FALSE]}
         \cup (IF s.type = "PIN" /\ s.ignore THEN {[s EXCEPT !.war = TRUE]} ELSE {})

Found(s) == Arm([s EXCEPT !.status = "PENDING", !.assoc = FALSE], "msg")

Again(s) ==
    LET any == s.type = "PIN" /\ s.scan_cnt > WPS_IGNORE_SEL_REG_MAX_CNT
    IN Arm([s EXCEPT !.status = "SCANNING", !.ignore = @ \/ any, !.war = @ /\ ~any], "scan")

Overlap(s) == Event([s EXCEPT !.status = "DISABLE"])

(* The end of a scan that counted n access points: the one taken last time   *)
(* is not counted again.                                                     *)
wifi_wps_scan_done(n) ==
    /\ wa.scan
    /\ \E s \in {[wa EXCEPT !.scan = FALSE]} :
         IF s.type = "DISABLE" \/ s.sm = "null" THEN wa' = s
         ELSE \/ n = 0 /\ \E c \in {s} \cup wps_parse_scan_result(s) : wa' = Again(c)
              \/ n = 1 /\ \E c \in wps_parse_scan_result(s) : wa' = Found(c)
              \/ n = 2 /\ \E c \in wps_parse_scan_result(s) : ~c.war /\ wa' = Overlap(c)

(* The station associated: wps_start_pending. *)
Associated ==
    /\ wa.status = "PENDING" /\ ~wa.assoc /\ wa.sm # "null"
    /\ wa' = wps_tx_start([wa EXCEPT !.assoc = TRUE])

(* The driver hands a frame over in two steps: it is queued, then the task   *)
(* is told.                                                                  *)
RxStep(s, k, f) ==
    IF k = 1 THEN [s EXCEPT !.rxq = Append(@, f), !.rx = <<f>>] ELSE [wps_post(s, "RX") EXCEPT !.rx = <<>>]

(* Mutant: the task is told before the frame is queued. *)
wps_sm_rx_eapol_PostFirst(s, k, f) ==
    IF k = 1 THEN [wps_post(s, "RX") EXCEPT !.rx = <<f>>] ELSE [s EXCEPT !.rxq = Append(@, f), !.rx = <<>>]

wps_sm_rx_eapol(s, k, f) == RxStep(s, k, f)

FrameReceived(f) ==
    /\ wa.assoc /\ wa.sm # "null" /\ wa.rx = <<>> /\ wa.frames < MaxFrames
    /\ wa.app # "disabled"
    /\ wa' = [wps_sm_rx_eapol(wa, 1, f) EXCEPT !.frames = @ + 1]

FramePosted ==
    /\ wa.rx # <<>> /\ wa.task # "none"
    /\ wa' = wps_sm_rx_eapol(wa, 2, wa.rx[1])

(* A frame handed over while the task went away is lost with its queue. *)
FrameDropped ==
    /\ wa.rx # <<>> /\ wa.task = "none"
    /\ wa' = [wa EXCEPT !.rx = <<>>, !.rxq = <<>>]

(* A timer armed again after its session was freed has no defined effect and *)
(* is followed no further.                                                   *)
TimerFires(t) ==
    /\ t \in wa.armed /\ wa.task # "none"
    /\ wa' = wps_post(Disarm(wa, {t}), t)

-----------------------------------------------------------------------------
TaskStep == TaskReceive \/ TaskCount \/ TaskHandle \/ TaskRx

WpsInit == wa = Off

WpsNext ==
    \/ \E type \in {"PBC", "PIN"} : esp_wifi_wps_enable(type)
    \/ EnableReturns
    \/ esp_wifi_wps_start
    \/ esp_wifi_wps_disable
    \/ DisableReturns
    \/ TaskReceive \/ TaskCount \/ TaskHandle \/ TaskRx
    \/ \E n \in 0..2 : wifi_wps_scan_done(n)
    \/ Associated
    \/ \E f \in {"identity", "request", "failure"} : FrameReceived(f)
    \/ FramePosted
    \/ FrameDropped
    \/ \E t \in Timers : TimerFires(t)

(* The task, the driver's hand-over, an API call whose answer is there and   *)
(* the hardware timers go on.                                                *)
WpsFairness ==
    /\ WF_wa(TaskStep) /\ WF_wa(FramePosted)
    /\ WF_wa(EnableReturns \/ DisableReturns)
    /\ \A t \in {"timeout", "success"} : WF_wa(TimerFires(t))

WpsSpec == WpsInit /\ [][WpsNext]_wa /\ WpsFairness

-----------------------------------------------------------------------------
(* A queued frame is never forgotten, although the signal for it is not      *)
(* queued again while it is counted: whenever the task could go to sleep the *)
(* signal is on its way.                                                     *)
RxNotForgotten ==
    wa.rxq # <<>> /\ wa.rx = <<>> /\ wa.task # "none" =>
       wa.cur = "RX" \/ \E i \in DOMAIN wa.queue : wa.queue[i] = "RX"

(* Every accepted start ends in an event to the application (success,        *)
(* failure, overlap or timeout), or the application disables WPS.            *)
StartEnds == (wa.starts > 0 /\ ~wa.ended) ~> (wa.ended \/ wa.app = "disable")

=============================================================================
