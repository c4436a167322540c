--------------------------- MODULE WpsTaskProofs ---------------------------
(***************************************************************************)
(* A frame the driver queues for wps_task is handled, for any number of    *)
(* starts and frames: the signal for it is posted once while it is         *)
(* counted (wps_post), and the count is given back before the receive      *)
(* queue is drained.  What the proof needs of a state is its type and      *)
(* Posted; everything the task does with other signals leaves alone what   *)
(* Posted speaks about (Quiet).                                            *)
(***************************************************************************)
EXTENDS WpsTask, SequenceTheorems, TLAPS

Frames == {"identity", "request", "failure"}
State ==
  [app : {"idle", "enable", "enabled", "start", "disable", "disabled"}, enabled : BOOLEAN,
   type : {"DISABLE", "PBC", "PIN"}, status : {"DISABLE", "SCANNING", "PENDING", "SUCCESS"},
   sm : {"null", "SEND_M1", "RECV_M2", "EXCHANGE", "FINISHED"},
   scan_cnt : Nat, war : BOOLEAN, ignore : BOOLEAN, armed : SUBSET Timers,
   task : {"none", "recv", "count", "handle"}, cur : Signals \cup {"none"},
   queue : Seq(Signals), cnt : [Signals -> {0, 1}], rxq : Seq(Frames), rx : Seq(Frames),
   scan : BOOLEAN, assoc : BOOLEAN, starts : Nat, frames : Nat, ended : BOOLEAN]

InQueue(q) == \E i \in DOMAIN q : q[i] = "RX"

\* While the task runs: a counted signal is in the queue or just taken from
\* it, a frame that was handed over has its signal on the way, and a session
\* that is being given up has no task any more.
Posted(s) ==
  s.task # "none" =>
    /\ s.cnt["RX"] # 0 => InQueue(s.queue) \/ (s.task = "count" /\ s.cur = "RX")
    /\ s.rxq # <<>> /\ s.rx = <<>> =>
         InQueue(s.queue) \/ (s.task \in {"count", "handle"} /\ s.cur = "RX")
    /\ s.task = "count" => s.cur # "none"
    /\ s.app # "disabled"

\* t differs from s in nothing that concerns received frames.
Quiet(s, t) ==
  /\ t \in State
  /\ t.rxq = s.rxq /\ t.rx = s.rx /\ t.task = s.task /\ t.cur = s.cur /\ t.app = s.app
  /\ t.cnt["RX"] = s.cnt["RX"] /\ (InQueue(t.queue) <=> InQueue(s.queue))
----------------------------------------------------------------------------
\* What is appended to the queue does not push anything out.
LEMMA QueueFacts ==
  ASSUME NEW q \in Seq(Signals), NEW x \in Signals
  PROVE  /\ Append(q, x) \in Seq(Signals)
         /\ InQueue(Append(q, x)) <=> InQueue(q) \/ x = "RX"
         /\ q # <<>> => /\ Head(q) \in Signals /\ Tail(q) \in Seq(Signals)
                        /\ InQueue(q) => Head(q) = "RX" \/ InQueue(Tail(q))
<1>1. /\ Append(q, x) \in Seq(Signals) /\ Len(Append(q, x)) = Len(q) + 1 /\ Append(q, x)[Len(q) + 1] = x
      /\ \A i \in 1..Len(q) : Append(q, x)[i] = q[i]
  OBVIOUS
<1>2. DOMAIN Append(q, x) = 1..(Len(q) + 1) /\ DOMAIN q = 1..Len(q) /\ Len(q) \in Nat
  BY <1>1
<1>3. InQueue(Append(q, x)) <=> InQueue(q) \/ x = "RX"
  BY <1>1, <1>2 DEF InQueue
<1>4. ASSUME q # <<>>
      PROVE  /\ Head(q) \in Signals /\ Tail(q) \in Seq(Signals)
             /\ InQueue(q) => Head(q) = "RX" \/ InQueue(Tail(q))
  <2>1. /\ Head(q) = q[1] /\ Tail(q) \in Seq(Signals) /\ Len(Tail(q)) = Len(q) - 1
        /\ \A i \in 1..(Len(q) - 1) : Tail(q)[i] = q[i + 1]
    BY <1>4
  <2>2. DOMAIN Tail(q) = 1..(Len(q) - 1) /\ Len(q) >= 1
    BY <1>4, <2>1
  <2>3. ASSUME NEW i \in 1..Len(q), q[i] = "RX", i # 1 PROVE InQueue(Tail(q))
    <3>1. i - 1 \in 1..(Len(q) - 1) /\ (i - 1) + 1 = i
      BY <1>2, <2>3
    <3>2. Tail(q)[i - 1] = "RX"
      BY <2>1, <2>3, <3>1
    <3> QED BY <2>2, <3>1, <3>2 DEF InQueue
  <2> QED BY <1>2, <2>1, <2>2, <2>3 DEF InQueue
<1> QED BY <1>1, <1>3, <1>4

LEMMA QuietTrans ==
  ASSUME NEW s, NEW t, NEW u, Quiet(s, t), Quiet(t, u)
  PROVE  Quiet(s, u)
BY DEF Quiet

LEMMA QuietArmed ==
  ASSUME NEW s \in State, NEW T \in SUBSET Timers
  PROVE  Quiet(s, [s EXCEPT !.armed = T])
BY DEF Quiet, State

LEMMA QuietArm ==
  ASSUME NEW s \in State, NEW t \in Timers
  PROVE  Quiet(s, Arm(s, t))
<1>1. s.armed \cup {t} \in SUBSET Timers
  BY DEF State
<1>2. Arm(s, t) = [s EXCEPT !.armed = s.armed \cup {t}]
  BY DEF Arm
<1> QED BY <1>1, <1>2, QuietArmed

LEMMA QuietDisarm ==
  ASSUME NEW s \in State, NEW T
  PROVE  Quiet(s, Disarm(s, T))
<1>1. s.armed \ T \in SUBSET Timers
  BY DEF State
<1>2. Disarm(s, T) = [s EXCEPT !.armed = s.armed \ T]
  BY DEF Disarm
<1> QED BY <1>1, <1>2, QuietArmed

LEMMA QuietEvent == \A s \in State : Quiet(s, Event(s))
BY ZenonT(60) DEF Quiet, Event, State

\* Posting a signal other than RX.
LEMMA QuietPost ==
  ASSUME NEW s \in State, NEW sig \in Signals, sig # "RX"
  PROVE  Quiet(s, wps_post(s, sig))
<1>1. CASE s.cnt[sig] # 0
  BY <1>1 DEF Quiet, wps_post
<1>2. CASE s.cnt[sig] = 0
  <2>1. s.queue \in Seq(Signals) /\ s.cnt \in [Signals -> {0, 1}] BY DEF State
  <2>2. [s.cnt EXCEPT ![sig] = 1] \in [Signals -> {0, 1}] /\ [s.cnt EXCEPT ![sig] = 1]["RX"] = s.cnt["RX"]
    BY <2>1 DEF Signals
  <2>3. /\ Append(s.queue, sig) \in Seq(Signals)
        /\ InQueue(Append(s.queue, sig)) <=> InQueue(s.queue)
    BY <2>1, QueueFacts
  <2>4. wps_post(s, sig) = [s EXCEPT !.cnt = [s.cnt EXCEPT ![sig] = 1], !.queue = Append(s.queue, sig)]
    BY <1>2 DEF wps_post, State
  <2> HIDE DEF wps_post
  <2> QED BY <2>2, <2>3, <2>4, ZenonT(60) DEF Quiet, State
<1> QED BY <1>1, <1>2

LEMMA QuietState == \A s, t : Quiet(s, t) => t \in State
BY DEF Quiet
----------------------------------------------------------------------------
(* What the task does with a signal.                                       *)

\* The end of a session, with or without success.
LEMMA QuietStop ==
  ASSUME NEW s \in State
  PROVE  Quiet(s, wps_stop_process(s))
<1> DEFINE a == [s EXCEPT !.status = "DISABLE", !.scan_cnt = 0, !.sm = "SEND_M1", !.assoc = FALSE]
           b == Disarm(a, {"msg", "success"})
<1>1. Quiet(s, a) BY ZenonT(60) DEF Quiet, State
<1>2. Quiet(a, b) BY <1>1, QuietDisarm, QuietState
<1>3. Quiet(b, Event(b)) BY <1>2, QuietEvent, QuietState
<1>4. wps_stop_process(s) = Event(b) BY DEF wps_stop_process
<1> HIDE DEF a, b
<1> QED BY <1>1, <1>2, <1>3, <1>4, QuietTrans

LEMMA QuietFinish ==
  ASSUME NEW s \in State
  PROVE  Quiet(s, wps_finish(s))
<1>1. CASE s.sm = "FINISHED"
  <2> DEFINE a == [s EXCEPT !.status = "SUCCESS"]
             b == Disarm(a, {"timeout", "msg"})
  <2>1. Quiet(s, a) BY DEF Quiet, State
  <2>2. Quiet(a, b) BY <2>1, QuietDisarm, QuietState
  <2>3. Quiet(b, Arm(b, "success")) BY <2>2, QuietArm, QuietState DEF Timers
  <2>4. wps_finish(s) = Arm(b, "success") BY <1>1 DEF wps_finish
  <2> HIDE DEF a, b
  <2> QED BY <2>1, <2>2, <2>3, <2>4, QuietTrans
<1>2. CASE s.sm # "FINISHED" /\ s.war
  <2>1. wps_finish(s) = [s EXCEPT !.assoc = FALSE] BY <1>2 DEF wps_finish
  <2> QED BY <2>1, ZenonT(60) DEF Quiet, State
<1>3. CASE s.sm # "FINISHED" /\ ~s.war
  <2>1. wps_finish(s) = wps_stop_process(s) BY <1>3 DEF wps_finish
  <2> QED BY <2>1, QuietStop
<1> QED BY <1>1, <1>2, <1>3

\* A frame that was not handled well.
LEMMA QuietRxFailed ==
  ASSUME NEW s \in State
  PROVE  Quiet(s, RxFailed(s))
<1>1. CASE s.war
  <2> DEFINE a == [s EXCEPT !.war = FALSE]
  <2>1. Quiet(s, a) BY DEF Quiet, State
  <2>2. Quiet(a, wps_post(a, "scan")) BY <2>1, QuietPost, QuietState DEF Signals, Timers
  <2>3. RxFailed(s) = wps_post(a, "scan") BY <1>1 DEF RxFailed, wifi_wps_scan
  <2> HIDE DEF a
  <2> QED BY <2>1, <2>2, <2>3, QuietTrans
<1>2. CASE ~s.war
  <2> DEFINE a == [s EXCEPT !.status = "DISABLE"]
             b == Disarm(a, {"timeout"})
  <2>1. Quiet(s, a) BY DEF Quiet, State
  <2>2. Quiet(a, b) BY <2>1, QuietDisarm, QuietState
  <2>3. Quiet(b, Event(b)) BY <2>2, QuietEvent, QuietState
  <2>4. RxFailed(s) = Event(b) BY <1>2 DEF RxFailed
  <2> HIDE DEF a, b
  <2> QED BY <2>1, <2>2, <2>3, <2>4, QuietTrans
<1> QED BY <1>1, <1>2

\* A frame, whatever it is.
LEMMA QuietFrame ==
  ASSUME NEW s \in State, NEW f \in Frames, NEW t \in wps_sm_rx_eapol_internal(s, f)
  PROVE  Quiet(s, t)
<1>0. Quiet(s, s) BY DEF Quiet
<1>1. CASE s.sm = "null"
  <2>1. t = s BY <1>1 DEF wps_sm_rx_eapol_internal
  <2> QED BY <1>0, <2>1
<1>2. CASE f = "failure" /\ s.sm # "null"
  <2>1. t = RxFailed(wps_finish(s)) \/ t = wps_finish(s)
    BY <1>2 DEF wps_sm_rx_eapol_internal
  <2>2. Quiet(s, wps_finish(s)) BY QuietFinish
  <2>3. Quiet(wps_finish(s), RxFailed(wps_finish(s))) BY <2>2, QuietRxFailed, QuietState
  <2> QED BY <2>1, <2>2, <2>3, QuietTrans
<1>3. CASE f = "identity" /\ s.sm # "null"
  <2>1. t = Arm(s, "eapol") BY <1>3 DEF wps_sm_rx_eapol_internal
  <2> QED BY <2>1, QuietArm DEF Timers
<1>4. CASE f = "request" /\ s.sm # "null"
  <2> DEFINE d == Disarm(s, IF s.sm = "SEND_M1" THEN {"eapol", "msg"} ELSE {"msg"})
  <2>0. \/ t \in NotTaken(s)
        \/ \E r \in ReqResults(s.sm) :
             t = IF r = "refused" THEN RxFailed(d) ELSE wps_start_msg_timer([d EXCEPT !.sm = r])
    BY <1>4 DEF wps_sm_rx_eapol_internal
  <2>2. Quiet(s, d) /\ d \in State BY QuietDisarm, QuietState
  <2> HIDE DEF d
  <2>n. CASE t \in NotTaken(s)
    BY <2>n, <1>0, QuietRxFailed, QuietDisarm DEF NotTaken
  <2>r. ASSUME NEW r \in ReqResults(s.sm),
               t = IF r = "refused" THEN RxFailed(d) ELSE wps_start_msg_timer([d EXCEPT !.sm = r])
        PROVE  Quiet(s, t)
    <3>1. CASE r = "refused"
      <4>1. Quiet(d, RxFailed(d)) BY <2>2, QuietRxFailed
      <4> QED BY <2>r, <2>2, <3>1, <4>1, QuietTrans
    <3>2. CASE r # "refused"
      <4> DEFINE e == [d EXCEPT !.sm = r]
      <4>1. r \in {"RECV_M2", "EXCHANGE", "FINISHED"} BY <2>r, <3>2, <1>4 DEF ReqResults, State
      <4>2. Quiet(d, e) BY <2>2, <4>1, ZenonT(60) DEF Quiet, State
      <4>3. e \in State BY <4>2, QuietState
      <4>4. t = wps_start_msg_timer(e) BY <2>r, <3>2
      <4> HIDE DEF e
      <4>5. t = e \/ t = Arm(e, "msg") BY <4>4 DEF wps_start_msg_timer
      <4>6. Quiet(e, Arm(e, "msg")) BY <4>3, QuietArm DEF Timers
      <4> QED BY <2>2, <4>2, <4>5, <4>6, QuietTrans
    <3> QED BY <3>1, <3>2
  <2> QED BY <2>0, <2>n, <2>r
<1> QED BY <1>1, <1>2, <1>3, <1>4 DEF Frames

\* Any signal but RX: only the call the application waits in changes besides.
LEMMA QuietHandle ==
  ASSUME NEW s \in State, s.cur \in Signals \ {"RX"}
  PROVE  \E a \in {"idle", "enabled", "disabled", s.app} :
           /\ Quiet([s EXCEPT !.app = a], Handle(s))
           /\ a = "disabled" => s.app = "disabled" \/ s.cur = "DISABLE"
<1>0. Quiet(s, s) /\ s = [s EXCEPT !.app = s.app] BY DEF Quiet, State
<1>a. ASSUME Quiet(s, Handle(s))
      PROVE  \E a \in {"idle", "enabled", "disabled", s.app} :
               /\ Quiet([s EXCEPT !.app = a], Handle(s))
               /\ a = "disabled" => s.app = "disabled" \/ s.cur = "DISABLE"
  BY <1>0, <1>a
<1>1. CASE s.cur = "ENABLE"
  <2> DEFINE b == [s EXCEPT !.app = "enabled"]
  <2>1. Handle(s) = wifi_wps_enable_internal(b) BY <1>1 DEF Handle
  <2>2. Quiet(b, wifi_wps_enable_internal(b)) BY ZenonT(60) DEF wifi_wps_enable_internal, Quiet, State
  <2> QED BY <2>1, <2>2
<1>2. CASE s.cur = "START"
  <2> DEFINE b == [s EXCEPT !.app = "idle"]
             c == Arm(b, "timeout")
  <2>1. Handle(s) = wifi_station_wps_start(b) BY <1>2 DEF Handle
  <2>2. b \in State BY DEF State
  <2>3. Quiet(b, c) BY <2>2, QuietArm DEF Timers
  <2>4. \/ Handle(s) = wps_post(c, "scan")
        \/ Handle(s) = [c EXCEPT !.scan_cnt = 0]
        \/ Handle(s) = c
    BY <2>1 DEF wifi_station_wps_start, wifi_wps_scan
  <2>5. c \in State BY <2>3, QuietState
  <2> HIDE DEF c
  <2>6. Quiet(c, wps_post(c, "scan")) BY <2>5, QuietPost DEF Signals, Timers
  <2>7. Quiet(c, [c EXCEPT !.scan_cnt = 0]) BY <2>5 DEF Quiet, State
  <2>8. Quiet(b, Handle(s)) BY <2>3, <2>4, <2>6, <2>7, QuietTrans
  <2> QED BY <2>8
<1>3. CASE s.cur = "DISABLE"
  <2> DEFINE b == [s EXCEPT !.app = "disabled"]
  <2>1. Handle(s) = wifi_wps_disable_internal(b) BY <1>3 DEF Handle
  <2>2. Quiet(b, wifi_wps_disable_internal(b)) BY ZenonT(60) DEF wifi_wps_disable_internal, Quiet, State
  <2> QED BY <1>3, <2>1, <2>2
<1>4. CASE s.cur = "timeout"
  <2> DEFINE b == [s EXCEPT !.status = "DISABLE"]
  <2>1. Handle(s) = Event(b) BY <1>4 DEF Handle, wifi_station_wps_timeout_internal
  <2>2. Quiet(s, b) BY DEF Quiet, State
  <2>3. Quiet(b, Event(b)) BY <2>2, QuietEvent, QuietState
  <2> HIDE DEF b
  <2> QED BY <1>a, <2>1, <2>2, <2>3, QuietTrans
<1>5. CASE s.cur = "msg"
  <2> DEFINE b == [s EXCEPT !.war = FALSE, !.assoc = FALSE]
  <2>1. Handle(s) \in {wps_finish(s), wps_post(b, "scan"), wps_stop_process(s), s}
    BY <1>5 DEF Handle, wifi_station_wps_msg_timeout_internal, wifi_wps_scan
  <2>2. Quiet(s, b) BY DEF Quiet, State
  <2>3. Quiet(b, wps_post(b, "scan")) BY <2>2, QuietPost, QuietState DEF Signals, Timers
  <2> HIDE DEF b
  <2>4. Quiet(s, wps_post(b, "scan")) BY <2>2, <2>3, QuietTrans
  <2> QED BY <1>0, <1>a, <2>1, <2>4, QuietFinish, QuietStop
<1>6. CASE s.cur = "success"
  <2>1. Handle(s) = Event(s) BY <1>6 DEF Handle
  <2> QED BY <1>a, <2>1, QuietEvent
<1>7. CASE s.cur = "scan"
  <2>1. PICK n \in {s.scan_cnt, s.scan_cnt + 1} : Handle(s) = [s EXCEPT !.scan = TRUE, !.scan_cnt = n]
    BY <1>7 DEF Handle, wifi_wps_scan_internal
  <2>2. n \in Nat BY DEF State
  <2>3. Quiet(s, [s EXCEPT !.scan = TRUE, !.scan_cnt = n]) BY <2>2 DEF Quiet, State
  <2> QED BY <1>a, <2>1, <2>3
<1>8. CASE s.cur = "eapol"
  <2>1. Handle(s) = s \/ Handle(s) = Arm(s, "eapol") BY <1>8 DEF Handle, wps_tx_start
  <2> QED BY <1>0, <1>a, <2>1, QuietArm DEF Timers
<1> QED BY <1>1, <1>2, <1>3, <1>4, <1>5, <1>6, <1>7, <1>8 DEF Signals, Timers
----------------------------------------------------------------------------
(* Every step keeps the invariant.                                         *)

RxInv == wa \in State /\ Posted(wa)

LEMMA QuietKeeps ==
  ASSUME NEW s, NEW t, Posted(s), Quiet(s, t)
  PROVE  t \in State /\ Posted(t)
BY DEF Posted, Quiet

\* The task takes a signal, gives its count back and handles it, and drains
\* the receive queue.
LEMMA TaskKeeps ==
  ASSUME RxInv, TaskStep
  PROVE  RxInv'
<1>0. wa \in State /\ wa.queue \in Seq(Signals) /\ wa.cnt \in [Signals -> {0, 1}] /\ wa.rxq \in Seq(Frames)
  BY DEF RxInv, State
<1>1. CASE TaskReceive
  <2> DEFINE h == Head(wa.queue)
             q == Tail(wa.queue)
  <2>1. h \in Signals /\ q \in Seq(Signals) /\ (InQueue(wa.queue) => h = "RX" \/ InQueue(q))
    BY <1>0, <1>1, QueueFacts DEF TaskReceive, Signals
  <2>2. wa' = [wa EXCEPT !.task = "count", !.cur = h, !.queue = q] /\ wa.task = "recv"
    BY <1>1 DEF TaskReceive
  <2>3. "none" \notin Signals
    BY DEF Signals, Timers
  <2> HIDE DEF h, q
  <2>4. wa' \in State
    BY <1>0, <2>1, <2>2 DEF State
  <2>5. /\ wa'.task = "count" /\ wa'.cur = h /\ wa'.queue = q /\ wa'.app = wa.app
        /\ wa'.cnt = wa.cnt /\ wa'.rxq = wa.rxq /\ wa'.rx = wa.rx
    BY <1>0, <2>2 DEF State
  <2> QED BY <2>1, <2>2, <2>3, <2>4, <2>5 DEF RxInv, Posted
<1>2. CASE TaskCount
  <2> DEFINE c == [wa.cnt EXCEPT !["RX"] = 0]
  <2>1. c \in [Signals -> {0, 1}] /\ c["RX"] = 0
    BY <1>0 DEF Signals
  <2>2. wa' = [wa EXCEPT !.task = "handle", !.cnt = c] /\ wa.task = "count" /\ wa.cur = "RX"
    BY <1>2 DEF TaskCount
  <2> HIDE DEF c
  <2>3. wa' \in State
    BY <1>0, <2>1, <2>2, ZenonT(60) DEF State
  <2>4. /\ wa'.task = "handle" /\ wa'.cur = "RX" /\ wa'.cnt["RX"] = 0 /\ wa'.app = wa.app
    BY <1>0, <2>1, <2>2 DEF State
  <2> QED BY <2>2, <2>3, <2>4 DEF RxInv, Posted
<1>3. CASE TaskHandle
  <2> DEFINE c == [wa.cnt EXCEPT ![wa.cur] = 0]
             s == [wa EXCEPT !.cnt = c]
             t == Handle(s)
             pc == IF wa.cur = "DISABLE" THEN "none" ELSE "recv"
  <2>1. wa.task = "count" /\ wa.cur \in Signals \ {"RX"} /\ wa.app # "disabled"
        /\ (wa.cnt["RX"] # 0 => InQueue(wa.queue))
        /\ (wa.rxq # <<>> /\ wa.rx = <<>> => InQueue(wa.queue))
    BY <1>0, <1>3 DEF TaskHandle, RxInv, Posted, State
  <2>2. c \in [Signals -> {0, 1}] /\ c["RX"] = wa.cnt["RX"]
    BY <1>0, <2>1 DEF Signals
  <2>3. wa' = [t EXCEPT !.task = pc, !.cur = "none"]
    BY <1>3 DEF TaskHandle
  <2> HIDE DEF c
  <2>4. s \in State /\ s.cur = wa.cur /\ s.app = wa.app /\ s.cnt["RX"] = wa.cnt["RX"] /\ s.queue = wa.queue
        /\ s.rxq = wa.rxq /\ s.rx = wa.rx
    BY <1>0, <2>2 DEF State
  <2> HIDE DEF s
  <2>5. PICK a \in {"idle", "enabled", "disabled", s.app} :
          /\ Quiet([s EXCEPT !.app = a], t)
          /\ a = "disabled" => s.app = "disabled" \/ s.cur = "DISABLE"
    BY <2>1, <2>4, QuietHandle
  <2>6. t \in State /\ t.app = a /\ t.cnt["RX"] = s.cnt["RX"] /\ (InQueue(t.queue) <=> InQueue(s.queue))
        /\ t.rxq = s.rxq /\ t.rx = s.rx
    BY <2>4, <2>5 DEF Quiet, State
  <2> HIDE DEF t
  <2>p. pc \in {"none", "recv"} /\ (pc # "none" => wa.cur # "DISABLE")
    OBVIOUS
  <2> HIDE DEF pc
  <2>7. wa' \in State /\ wa'.task = pc /\ wa'.app = t.app /\ wa'.cnt = t.cnt /\ wa'.queue = t.queue
        /\ wa'.rxq = t.rxq /\ wa'.rx = t.rx
    <3>1. t \in State BY <2>6
    <3> QED BY <2>3, <2>p, <3>1, ZenonT(60) DEF State
  <2> QED BY <2>1, <2>4, <2>5, <2>6, <2>p, <2>7 DEF RxInv, Posted
<1>4. CASE TaskRx
  <2>1. CASE wa.rxq = <<>>
    <3>1. wa' = [wa EXCEPT !.task = "recv", !.cur = "none"] /\ wa.task = "handle"
      BY <1>4, <2>1 DEF TaskRx
    <3>2. wa' \in State /\ wa'.task = "recv" /\ wa'.rxq = <<>> /\ wa'.cnt = wa.cnt /\ wa'.queue = wa.queue
          /\ wa'.app = wa.app
      BY <1>0, <2>1, <3>1 DEF State
    <3> QED BY <3>1, <3>2 DEF RxInv, Posted
  <2>2. CASE wa.rxq # <<>>
    <3> DEFINE s == [wa EXCEPT !.rxq = Tail(wa.rxq)]
               f == Head(wa.rxq)
    <3>1. Tail(wa.rxq) \in Seq(Frames) /\ f \in Frames
      BY <1>0, <2>2
    <3>2. wa' \in wps_sm_rx_eapol_internal(s, f) /\ wa.task = "handle" /\ wa.cur = "RX"
      BY <1>4, <2>2 DEF TaskRx
    <3>3. s \in State /\ s.task = wa.task /\ s.cur = wa.cur /\ s.cnt = wa.cnt /\ s.queue = wa.queue
          /\ s.app = wa.app
      BY <1>0, <3>1 DEF State
    <3> HIDE DEF s, f
    <3>4. Posted(s)
      BY <3>2, <3>3 DEF RxInv, Posted
    <3>5. Quiet(s, wa')
      BY <3>1, <3>2, <3>3, QuietFrame
    <3> QED BY <3>4, <3>5, QuietKeeps DEF RxInv
  <2> QED BY <2>1, <2>2
<1> QED BY <1>1, <1>2, <1>3, <1>4 DEF TaskStep

\* The application's calls.
LEMMA CallsKeep ==
  ASSUME RxInv,
         \/ \E type \in {"PBC", "PIN"} : esp_wifi_wps_enable(type)
         \/ EnableReturns \/ esp_wifi_wps_start \/ esp_wifi_wps_disable \/ DisableReturns
  PROVE  RxInv'
<1>0. wa \in State /\ wa.starts \in Nat
  BY DEF RxInv, State
<1>1. CASE \E type \in {"PBC", "PIN"} : esp_wifi_wps_enable(type)
  <2>1. PICK type \in {"PBC", "PIN"} : esp_wifi_wps_enable(type)
    BY <1>1
  <2> DEFINE z == [s \in Signals |-> 0]
             e == <<>>
             b == [wa EXCEPT !.app = "enable", !.type = type, !.task = "recv",
                             !.queue = e, !.cnt = z, !.rxq = e]
  <2>2. wa' = wps_post(b, "ENABLE")
    BY <2>1 DEF esp_wifi_wps_enable
  <2>e. e \in Seq(Signals) /\ e \in Seq(Frames) /\ e = <<>>
    OBVIOUS
  <2>z. z \in [Signals -> {0, 1}] /\ z["RX"] = 0
    BY DEF Signals
  <2> HIDE DEF e, z
  <2>3. b \in State /\ b.task = "recv" /\ b.cnt["RX"] = 0 /\ b.rxq = <<>> /\ b.app = "enable"
    <3>1. type \in {"DISABLE", "PBC", "PIN"} OBVIOUS
    <3>2. e \in Seq(Signals) /\ e \in Seq(Frames) /\ z \in [Signals -> {0, 1}] BY <2>e, <2>z
    <3>3. b \in State BY <1>0, <3>1, <3>2, ZenonT(60) DEF State
    <3>4. b.task = "recv" /\ b.cnt = z /\ b.rxq = e /\ b.app = "enable" BY <1>0 DEF State
    <3> QED BY <2>e, <2>z, <3>3, <3>4
  <2> HIDE DEF b
  <2>4. Posted(b) BY <2>3 DEF Posted
  <2>5. Quiet(b, wa') BY <2>2, <2>3, QuietPost DEF Signals
  <2> QED BY <2>4, <2>5, QuietKeeps DEF RxInv
<1>2. CASE EnableReturns
  <2>1. wa' = [wa EXCEPT !.app = "idle", !.enabled = TRUE]
    BY <1>2 DEF EnableReturns
  <2>2. wa' \in State /\ wa'.app = "idle" /\ wa'.task = wa.task /\ wa'.cur = wa.cur /\ wa'.cnt = wa.cnt
        /\ wa'.queue = wa.queue /\ wa'.rxq = wa.rxq /\ wa'.rx = wa.rx
    BY <1>0, <2>1 DEF State
  <2> QED BY <2>2 DEF RxInv, Posted
<1>3. CASE esp_wifi_wps_start
  <2> DEFINE n == wa.starts + 1
             b == [wa EXCEPT !.app = "start", !.starts = n, !.ended = FALSE]
  <2>1. wa' = wps_post(b, "START")
    BY <1>3 DEF esp_wifi_wps_start
  <2>n. n \in Nat BY <1>0
  <2> HIDE DEF n
  <2>2. b \in State /\ b.app = "start" /\ b.task = wa.task /\ b.cur = wa.cur /\ b.cnt = wa.cnt
        /\ b.queue = wa.queue /\ b.rxq = wa.rxq /\ b.rx = wa.rx
    BY <1>0, <2>n DEF State
  <2> HIDE DEF b
  <2>3. Posted(b) BY <2>2 DEF RxInv, Posted
  <2>4. Quiet(b, wa') BY <2>1, <2>2, QuietPost DEF Signals
  <2> QED BY <2>3, <2>4, QuietKeeps DEF RxInv
<1>4. CASE esp_wifi_wps_disable
  <2> DEFINE b == [wa EXCEPT !.app = "disable", !.type = "DISABLE", !.armed = {}]
  <2>1. wa' = wps_post(b, "DISABLE")
    BY <1>4 DEF esp_wifi_wps_disable
  <2>2. b \in State /\ b.app = "disable" /\ b.task = wa.task /\ b.cur = wa.cur /\ b.cnt = wa.cnt
        /\ b.queue = wa.queue /\ b.rxq = wa.rxq /\ b.rx = wa.rx
    <3>1. {} \in SUBSET Timers OBVIOUS
    <3> QED BY <1>0, <3>1 DEF State
  <2> HIDE DEF b
  <2>3. Posted(b) BY <2>2 DEF RxInv, Posted
  <2>4. Quiet(b, wa') BY <2>1, <2>2, QuietPost DEF Signals
  <2> QED BY <2>3, <2>4, QuietKeeps DEF RxInv
<1>5. CASE DisableReturns
  <2> DEFINE e == <<>>
  <2>1. wa' = [wa EXCEPT !.app = "idle", !.enabled = FALSE, !.queue = e, !.rxq = e,
                         !.assoc = FALSE, !.ended = TRUE]
        /\ wa.app = "disabled"
    BY <1>5 DEF DisableReturns
  <2>e. e \in Seq(Signals) /\ e \in Seq(Frames)
    OBVIOUS
  <2> HIDE DEF e
  <2>2. wa.task = "none"
    BY <2>1 DEF RxInv, Posted
  <2>3. wa' \in State /\ wa'.task = wa.task
    BY <1>0, <2>1, <2>e DEF State
  <2> QED BY <2>2, <2>3 DEF RxInv, Posted
<1> QED BY <1>1, <1>2, <1>3, <1>4, <1>5

\* The three ways a scan can end (wifi_wps_scan_done).
LEMMA QuietScan ==
  ASSUME NEW c \in State
  PROVE  Quiet(c, Again(c)) /\ Quiet(c, Found(c)) /\ Quiet(c, Overlap(c))
<1> DEFINE any == c.type = "PIN" /\ c.scan_cnt > WPS_IGNORE_SEL_REG_MAX_CNT
           i == c.ignore \/ any
           w == c.war /\ ~any
           again == [c EXCEPT !.status = "SCANNING", !.ignore = i, !.war = w]
           found == [c EXCEPT !.status = "PENDING", !.assoc = FALSE]
           over == [c EXCEPT !.status = "DISABLE"]
<1>1. Again(c) = Arm(again, "scan") /\ Found(c) = Arm(found, "msg") /\ Overlap(c) = Event(over)
  BY DEF Again, Found, Overlap
<1>2. i \in BOOLEAN /\ w \in BOOLEAN
  OBVIOUS
<1> HIDE DEF i, w
<1>3. Quiet(c, again) BY <1>2, ZenonT(60) DEF Quiet, State
<1>4. Quiet(c, found) BY ZenonT(60) DEF Quiet, State
<1>5. Quiet(c, over) BY DEF Quiet, State
<1> HIDE DEF again, found, over
<1>6. Quiet(again, Arm(again, "scan")) BY <1>3, QuietArm, QuietState DEF Timers
<1>7. Quiet(found, Arm(found, "msg")) BY <1>4, QuietArm, QuietState DEF Timers
<1>8. Quiet(over, Event(over)) BY <1>5, QuietEvent, QuietState
<1> QED BY <1>1, <1>3, <1>4, <1>5, <1>6, <1>7, <1>8, QuietTrans

\* The driver and the timers; the driver queues a frame before it tells the
\* task.
LEMMA DriverKeeps ==
  ASSUME RxInv,
         \/ \E n \in 0..2 : wifi_wps_scan_done(n)
         \/ Associated
         \/ \E f \in Frames : FrameReceived(f)
         \/ FramePosted \/ FrameDropped
         \/ \E t \in Timers : TimerFires(t)
  PROVE  RxInv'
<1>0. wa \in State /\ wa.frames \in Nat /\ wa.rxq \in Seq(Frames) /\ wa.queue \in Seq(Signals)
      /\ wa.cnt \in [Signals -> {0, 1}]
  BY DEF RxInv, State
<1>a. ASSUME Quiet(wa, wa') PROVE RxInv'
  BY <1>a, QuietKeeps DEF RxInv
<1>1. CASE \E n \in 0..2 : wifi_wps_scan_done(n)
  <2>1. PICK n \in 0..2 : wifi_wps_scan_done(n)
    BY <1>1
  <2> DEFINE s == [wa EXCEPT !.scan = FALSE]
  <2>2. \/ wa' = s
        \/ \E c \in {s} \cup wps_parse_scan_result(s) : wa' \in {Again(c), Found(c), Overlap(c)}
    BY <2>1 DEF wifi_wps_scan_done
  <2>3. s \in State /\ Quiet(wa, s)
    BY <1>0 DEF Quiet, State
  <2> HIDE DEF s
  <2>4. ASSUME NEW c \in {s} \cup wps_parse_scan_result(s), wa' \in {Again(c), Found(c), Overlap(c)}
        PROVE  Quiet(s, wa')
    <3>1. c = s \/ c = [s EXCEPT !.ignore = FALSE] \/ c = [s EXCEPT !.war = TRUE]
      BY <2>4 DEF wps_parse_scan_result
    <3>2. Quiet(s, c)
      <4>1. Quiet(s, s) BY <2>3 DEF Quiet
      <4>2. Quiet(s, [s EXCEPT !.ignore = FALSE]) BY <2>3 DEF Quiet, State
      <4>3. Quiet(s, [s EXCEPT !.war = TRUE]) BY <2>3 DEF Quiet, State
      <4> QED BY <3>1, <4>1, <4>2, <4>3
    <3>3. c \in State BY <2>3, <3>2, QuietState
    <3>4. Quiet(c, wa') BY <2>4, <3>3, QuietScan
    <3> QED BY <3>2, <3>4, QuietTrans
  <2>5. Quiet(wa, wa')
    BY <2>2, <2>3, <2>4, QuietTrans
  <2> QED BY <1>a, <2>5
<1>2. CASE Associated
  <2> DEFINE b == [wa EXCEPT !.assoc = TRUE]
  <2>1. wa' = b \/ wa' = Arm(b, "eapol")
    BY <1>2 DEF Associated, wps_tx_start
  <2>2. Quiet(wa, b) BY <1>0 DEF Quiet, State
  <2> HIDE DEF b
  <2>3. Quiet(b, Arm(b, "eapol")) BY <2>2, QuietArm, QuietState DEF Timers
  <2>4. Quiet(wa, wa') BY <2>1, <2>2, <2>3, QuietTrans
  <2> QED BY <1>a, <2>4
<1>3. CASE \E f \in Frames : FrameReceived(f)
  <2>1. PICK f \in Frames : FrameReceived(f)
    BY <1>3
  <2> DEFINE q == Append(wa.rxq, f)
             x == <<f>>
             n == wa.frames + 1
  <2>2. wa' = [[wa EXCEPT !.rxq = q, !.rx = x] EXCEPT !.frames = n]
    BY <1>0, <2>1 DEF FrameReceived, wps_sm_rx_eapol, RxStep, State
  <2>3. q \in Seq(Frames) /\ x \in Seq(Frames) /\ x # <<>> /\ n \in Nat
    BY <1>0
  <2> HIDE DEF q, x, n
  <2>4. wa' \in State /\ wa'.rx = x /\ wa'.task = wa.task /\ wa'.cur = wa.cur /\ wa'.cnt = wa.cnt
        /\ wa'.queue = wa.queue /\ wa'.app = wa.app
    BY <1>0, <2>2, <2>3 DEF State
  <2> QED BY <2>3, <2>4 DEF RxInv, Posted
<1>4. CASE FramePosted
  <2> DEFINE e == <<>>
  <2>1. wa' = [wps_post(wa, "RX") EXCEPT !.rx = e] /\ wa.task # "none"
    BY <1>4 DEF FramePosted, wps_sm_rx_eapol, RxStep
  <2>e. e \in Seq(Frames)
    OBVIOUS
  <2> HIDE DEF e
  <2>2. CASE wa.cnt["RX"] # 0
    <3>1. wa' = [wa EXCEPT !.rx = e]
      BY <2>1, <2>2 DEF wps_post
    <3>2. wa' \in State /\ wa'.rxq = wa.rxq /\ wa'.task = wa.task /\ wa'.cur = wa.cur /\ wa'.cnt = wa.cnt
          /\ wa'.queue = wa.queue /\ wa'.app = wa.app
      BY <1>0, <2>e, <3>1 DEF State
    <3> QED BY <2>2, <3>2 DEF RxInv, Posted
  <2>3. CASE wa.cnt["RX"] = 0
    <3> DEFINE c == [wa.cnt EXCEPT !["RX"] = 1]
               q == Append(wa.queue, "RX")
    <3>1. wa' = [[wa EXCEPT !.cnt = c, !.queue = q] EXCEPT !.rx = e]
      BY <2>1, <2>3 DEF wps_post
    <3>2. c \in [Signals -> {0, 1}]
      BY <1>0 DEF Signals
    <3>3. q \in Seq(Signals) /\ InQueue(q)
      BY <1>0, QueueFacts DEF Signals
    <3> HIDE DEF c, q
    <3>4. wa' \in State /\ wa'.task = wa.task /\ wa'.cur = wa.cur /\ wa'.queue = q /\ wa'.app = wa.app
      BY <1>0, <2>e, <3>1, <3>2, <3>3 DEF State
    <3> QED BY <3>3, <3>4 DEF RxInv, Posted
  <2> QED BY <1>0, <2>2, <2>3 DEF Signals
<1>5. CASE FrameDropped
  <2> DEFINE e == <<>>
  <2>1. wa' = [wa EXCEPT !.rx = e, !.rxq = e] /\ wa.task = "none"
    BY <1>5 DEF FrameDropped
  <2>e. e \in Seq(Frames)
    OBVIOUS
  <2> HIDE DEF e
  <2>2. wa' \in State /\ wa'.task = "none"
    BY <1>0, <2>1, <2>e DEF State
  <2> QED BY <2>2 DEF RxInv, Posted
<1>6. CASE \E t \in Timers : TimerFires(t)
  <2>1. PICK t \in Timers : TimerFires(t)
    BY <1>6
  <2> DEFINE b == Disarm(wa, {t})
  <2>2. wa' = wps_post(b, t)
    BY <2>1 DEF TimerFires
  <2>3. Quiet(wa, b) BY <1>0, QuietDisarm
  <2> HIDE DEF b
  <2>4. t \in Signals /\ t # "RX" BY DEF Signals, Timers
  <2>5. Quiet(b, wps_post(b, t)) BY <2>3, <2>4, QuietPost, QuietState
  <2>6. Quiet(wa, wa') BY <2>2, <2>3, <2>5, QuietTrans
  <2> QED BY <1>a, <2>6
<1> QED BY <1>1, <1>2, <1>3, <1>4, <1>5, <1>6

\* No frame that reached the receive queue of wps_task is left there without a
\* signal when the task goes to sleep, for any number of frames and starts:
\* wps_post does not post a signal again while it is counted, and the count is
\* given back before the queue is drained (esp_wps.c wps_post, wps_task).
THEOREM FramesHandled == WpsSpec => []RxNotForgotten
<1>1. WpsInit => RxInv
  <2> SUFFICES ASSUME WpsInit PROVE RxInv
    OBVIOUS
  <2>1. wa = Off BY DEF WpsInit
  <2>2. Off \in State
    <3>1. [s \in Signals |-> 0] \in [Signals -> {0, 1}] /\ {} \in SUBSET Timers
      OBVIOUS
    <3> QED BY <3>1 DEF Off, State
  <2>3. Off.task = "none" BY DEF Off
  <2> QED BY <2>1, <2>2, <2>3 DEF RxInv, Posted
<1>2. RxInv /\ [WpsNext]_wa => RxInv'
  <2> SUFFICES ASSUME RxInv, [WpsNext]_wa PROVE RxInv'
    OBVIOUS
  <2>1. CASE UNCHANGED wa BY <2>1 DEF RxInv, Posted
  <2> QED BY <2>1, TaskKeeps, CallsKeep, DriverKeeps DEF WpsNext, TaskStep, Frames
<1>3. RxInv => RxNotForgotten
  BY DEF RxInv, Posted, RxNotForgotten, InQueue
<1> QED BY <1>1, <1>2, <1>3, PTL DEF WpsSpec
=============================================================================
