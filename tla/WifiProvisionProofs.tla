------------------------ MODULE WifiProvisionProofs ------------------------
(***************************************************************************)
(* Proofs, for every value of the constants, of type correctness, of the   *)
(* two invariants of WifiProvision that concern state shared by tasks (no  *)
(* use of a deleted event group, no use of credentials being written), and *)
(* of the services' being started once.                                    *)
(***************************************************************************)
EXTENDS WifiProvision, TLAPS, FiniteSetTheorems

\* A handler is registered only while handler_task is inside its session.
RegisteredInSession ==
  /\ "sc_wifi" \in regs => pc \in {"sc_reg_sc", "sc_start", "sc_wait", "sc_unreg_wifi"}
  /\ "sc_sc" \in regs => pc \in {"sc_start", "sc_wait", "sc_unreg_wifi", "sc_unreg_sc"}
  /\ "wifi_any" \in regs => pc \in {"cw_reg_ip", "cw_stop", "cw_config", "cw_start",
                                    "cw_wait", "cw_unreg_ip", "cw_unreg_any"}
  /\ "wifi_ip" \in regs => pc \in {"cw_stop", "cw_config", "cw_start", "cw_wait", "cw_unreg_ip"}

\* A session's event group lives from its creation to its deletion.
GroupsLive ==
  /\ pc \in ScPc \ {"sc_create"} => grp["sc"] = "live"
  /\ pc \in CwPc \ {"cw_create", "cw_return", "cw_posted"} => grp["wifi"] = "live"

\* The credentials are written by a registered handler only: the mutex keeps
\* it registered until it is done.
WriterRegistered ==
  epc \in {"zeroed", "copied"} => "sc_sc" \in regs /\ cur[1] = "GOT_SSID"

\* What the state machine of app_config says about the credentials.
StatusMatches ==
  /\ pc \in ScPc => status = "SELECT"
  /\ pc \in CwPc => status = "CONNECT"
  /\ status = "CONNECT" => cred \in Creds
  /\ MarkNeverSaved

\* The inductive invariant
IInv == TypeOK /\ RegisteredInSession /\ GroupsLive /\ WriterRegistered /\ StatusMatches
----------------------------------------------------------------------------
\* What the queue's two operations do to a sequence of events.
LEMMA QueueOps ==
  ASSUME NEW q \in Seq(Event), Len(q) <= QueueSize
  PROVE  /\ Len(q) + 1 <= QueueSize =>
              \A e \in Event : Append(q, e) \in Seq(Event) /\ Len(Append(q, e)) <= QueueSize
         /\ q # <<>> => Head(q) \in Event /\ Tail(q) \in Seq(Event) /\ Len(Tail(q)) <= QueueSize
<1>1. QueueSize \in Nat
  BY ConstantsAssumption
<1> QED BY <1>1

\* Only GOT_SSID carries credentials, and it carries real ones.
LEMMA EventData ==
  ASSUME NEW e \in Event
  PROVE  e[1] = "GOT_SSID" => e[2] \in Creds
BY DEF Event, Ev, GotSsid

LEMMA EventsAre ==
  /\ \A id \in {"STA_START", "DISCONNECTED", "GOT_IP", "ACK_DONE", "WIFI_CONNECTTED"} : Ev(id) \in Event
  /\ \A c \in Creds : GotSsid(c) \in Event
BY DEF Event

LEMMA PostType ==
  ASSUME TypeOK, NEW e \in Event, Post(e)
  PROVE  evq' \in Seq(Event) /\ Len(evq') <= QueueSize
BY QueueOps DEF TypeOK, Post, Room
----------------------------------------------------------------------------
LEMMA TypeInit == Init => TypeOK
<1> SUFFICES ASSUME Init PROVE TypeOK
  OBVIOUS
<1> USE ConstantsAssumption DEF Init
<1>1. evq \in Seq(Event) /\ Len(evq) <= QueueSize
  OBVIOUS
<1>2. cur \in Event
  BY EventsAre
<1>3. /\ grp \in [Groups -> {"none", "live", "deleted"}]
      /\ bits \in [Groups -> SUBSET {"CONNECTED", "FAIL", "DONE"}]
  OBVIOUS
<1>4. retry \in 0..TimeErr /\ services \in 0..2 /\ attempts \in 0..(TimeErr + 2)
  OBVIOUS
<1>5. /\ status \in {"SELECT", "CONNECT", "NORMAL"} /\ sta \in 0..1 /\ blockInit \in 0..1
      /\ result \in {"none", "OK", "FAIL"} /\ regs \subseteq Handlers
      /\ pc \in {"poll"} \cup ScPc \cup CwPc /\ epc \in {"idle", "run", "zeroed", "copied"}
  OBVIOUS
<1>6. /\ cred \in Creds \cup {Empty, SsidErr} /\ nvs \in Creds \cup {Empty, SsidErr}
      /\ link \in {"idle", "connecting", "assoc", "up"} /\ sc \in {"off", "listening", "acking", "done"}
  BY DEF TypeOK
<1>7. inited \in BOOLEAN /\ started \in BOOLEAN /\ hadIp \in BOOLEAN
  OBVIOUS
<1> QED BY <1>1, <1>2, <1>3, <1>4, <1>5, <1>6, <1>7 DEF TypeOK

LEMMA TypeRestart == TypeOK /\ Restart => TypeOK'
<1> SUFFICES ASSUME TypeOK, Restart PROVE TypeOK'
  OBVIOUS
<1> USE ConstantsAssumption DEF Restart
<1>1. evq' \in Seq(Event) /\ Len(evq') <= QueueSize
  OBVIOUS
<1>2. cur' \in Event
  BY EventsAre
<1>3. /\ grp' \in [Groups -> {"none", "live", "deleted"}]
      /\ bits' \in [Groups -> SUBSET {"CONNECTED", "FAIL", "DONE"}]
  OBVIOUS
<1>4. retry' \in 0..TimeErr /\ services' \in 0..2 /\ attempts' \in 0..(TimeErr + 2)
  OBVIOUS
<1>5. /\ status' \in {"SELECT", "CONNECT", "NORMAL"} /\ sta' \in 0..1 /\ blockInit' \in 0..1
      /\ result' \in {"none", "OK", "FAIL"} /\ regs' \subseteq Handlers
      /\ pc' \in {"poll"} \cup ScPc \cup CwPc /\ epc' \in {"idle", "run", "zeroed", "copied"}
  OBVIOUS
<1>6. /\ cred' \in Creds \cup {Empty, SsidErr} /\ nvs' \in Creds \cup {Empty, SsidErr}
      /\ link' \in {"idle", "connecting", "assoc", "up"} /\ sc' \in {"off", "listening", "acking", "done"}
  BY DEF TypeOK
<1>7. inited' \in BOOLEAN /\ started' \in BOOLEAN /\ hadIp' \in BOOLEAN
  OBVIOUS
<1> QED BY <1>1, <1>2, <1>3, <1>4, <1>5, <1>6, <1>7 DEF TypeOK

LEMMA TypeHandlerTask == TypeOK /\ HandlerTask => TypeOK'
<1> SUFFICES ASSUME TypeOK, HandlerTask PROVE TypeOK'
  OBVIOUS
<1>0. ASSUME NEW h \in Handlers, NEW from, NEW to \in ScPc \cup CwPc,
             Register(h, from, to) \/ Unregister(h, from, to)
      PROVE  TypeOK'
  BY <1>0 DEF TypeOK, Register, Unregister, appVars, grpVars, drvVars, histVars
<1> USE ConstantsAssumption DEF TypeOK, ScPc, CwPc, Groups, appVars, taskVars, loopVars, grpVars, drvVars, histVars
<1>1. CASE AppConfig
  <2>1. blockInit' \in 0..1 /\ cred' \in Creds \cup {Empty, SsidErr}
    BY <1>1 DEF AppConfig, WifiInit
  <2>3. inited' \in BOOLEAN
    BY <1>1, Zenon DEF AppConfig, WifiInit
  <2>2. sta' \in 0..1 /\ status' \in {"SELECT", "CONNECT", "NORMAL"} /\ pc' \in {"poll"} \cup ScPc \cup CwPc
    BY <1>1 DEF AppConfig
  <2> QED BY <1>1, <2>1, <2>2, <2>3 DEF AppConfig
<1>2. CASE ConnectWifi BY <1>2 DEF ConnectWifi
<1>3. CASE ConnectWifiPost
  <2>1. Ev("WIFI_CONNECTTED") \in Event BY EventsAre
  <2>2. evq' \in Seq(Event) /\ Len(evq') <= QueueSize BY <1>3, <2>1, PostType DEF ConnectWifiPost
  <2> QED BY <1>3, <2>2 DEF ConnectWifiPost
<1>4. CASE ConnectWifiNormal BY <1>4 DEF ConnectWifiNormal
<1>5. CASE ConnectWifiFailed BY <1>5 DEF ConnectWifiFailed
<1>6. CASE ScCreate BY <1>6 DEF ScCreate, CreateGroup
<1>7. CASE ScRegister BY <1>0, <1>7 DEF ScRegister, Handlers
<1>8. ASSUME NEW from, NEW to \in {"sc_wait", "cw_wait"}, EspWifiStart(from, to) PROVE TypeOK'
  <2>1. Ev("STA_START") \in Event BY EventsAre
  <2>2. evq' \in Seq(Event) /\ Len(evq') <= QueueSize BY <1>8, <2>1, PostType DEF EspWifiStart
  <2> QED BY <1>8, <2>2 DEF EspWifiStart
<1>9. CASE ScStart BY <1>8, <1>9 DEF ScStart
<1>10. CASE ScStartAbort BY <1>10, TypeRestart DEF ScStartAbort
<1>11. CASE ScWait BY <1>11 DEF ScWait
<1>12. CASE ScUnregister BY <1>0, <1>12 DEF ScUnregister, Handlers
<1>13. CASE ScDelete BY <1>13 DEF ScDelete, DeleteGroup
<1>14. CASE CwCreate BY <1>14 DEF CwCreate, CreateGroup
<1>15. CASE CwRegister BY <1>0, <1>15 DEF CwRegister, Handlers
<1>16. CASE CwStop
  <2>1. Ev("DISCONNECTED") \in Event BY EventsAre
  <2>2. evq' \in Seq(Event) /\ Len(evq') <= QueueSize BY <1>16, <2>1, PostType DEF CwStop
  <2>3. started' \in BOOLEAN BY <1>16 DEF CwStop
  <2> QED BY <1>16, <2>2, <2>3 DEF CwStop
<1>17. CASE CwConfig BY <1>17 DEF CwConfig
<1>18. CASE CwStart BY <1>8, <1>18 DEF CwStart
<1>19. CASE CwWait BY <1>19 DEF CwWait
<1>20. CASE CwUnregister BY <1>0, <1>20 DEF CwUnregister, Handlers
<1>21. CASE CwDelete BY <1>21 DEF CwDelete, DeleteGroup
<1> QED BY <1>1, <1>2, <1>3, <1>4, <1>5, <1>6, <1>7, <1>9, <1>10, <1>11, <1>12, <1>13, <1>14, <1>15, <1>16, <1>17, <1>18, <1>19, <1>20, <1>21 DEF HandlerTask

LEMMA TypeEventTask == TypeOK /\ WriterRegistered /\ EventTask => TypeOK'
<1> SUFFICES ASSUME TypeOK, WriterRegistered, EventTask PROVE TypeOK'
  OBVIOUS
<1> USE ConstantsAssumption DEF TypeOK, Groups, appVars, taskVars, loopVars, grpVars, drvVars, histVars, Handling
<1>1. CASE EvTake
  <2>1. /\ Head(evq) \in Event /\ Tail(evq) \in Seq(Event) /\ Len(Tail(evq)) <= QueueSize
    BY <1>1, QueueOps DEF EvTake
  <2> QED BY <1>1, <2>1 DEF EvTake
<1>2. CASE EvDrop BY <1>2 DEF EvDrop
<1>3. CASE OnWifiConnected BY <1>3 DEF OnWifiConnected
<1>4. CASE WifiOnStart
  <2>1. Ev("DISCONNECTED") \in Event BY EventsAre
  <2>2. evq' \in Seq(Event) /\ Len(evq') <= QueueSize BY <1>4, <2>1, PostType DEF WifiOnStart
  <2> QED BY <1>4, <2>2 DEF WifiOnStart, CountAttempt
<1>5. CASE WifiOnDisconnected BY <1>5 DEF WifiOnDisconnected, MayRetry, GiveUp, CountAttempt, SetBit
<1>6. CASE WifiOnGotIp BY <1>6 DEF WifiOnGotIp, SetBit
<1>7. CASE ScOnStart BY <1>7 DEF ScOnStart
<1>8. CASE ScOnGotSsidStep
  <2>1. epc' \in {"zeroed", "copied", "idle"} BY <1>8 DEF ScOnGotSsidStep, ScOnGotSsid
  <2>2. bits' \in [Groups -> SUBSET {"CONNECTED", "FAIL", "DONE"}]
    BY <1>8 DEF ScOnGotSsidStep, ScOnGotSsid, SetBit
  <2>3. cred' \in Creds \cup {Empty, SsidErr}
    BY <1>8, EventData DEF ScOnGotSsidStep, ScOnGotSsid, WriterRegistered
  <2> QED BY <1>8, <2>1, <2>2, <2>3 DEF ScOnGotSsidStep
<1>9. CASE ScOnAckDone BY <1>9 DEF ScOnAckDone, SetBit
<1> QED BY <1>1, <1>2, <1>3, <1>4, <1>5, <1>6, <1>7, <1>8, <1>9 DEF EventTask

LEMMA TypeDriver == TypeOK /\ Driver => TypeOK'
<1> SUFFICES ASSUME TypeOK, Driver PROVE TypeOK'
  OBVIOUS
<1> USE ConstantsAssumption DEF TypeOK, appVars, taskVars, loopVars, grpVars, drvVars, histVars
<1>1. CASE Associate BY <1>1 DEF Associate
<1>2. CASE DhcpBound
  <2>1. evq' \in Seq(Event) /\ Len(evq') <= QueueSize BY <1>2, EventsAre, PostType DEF DhcpBound
  <2> QED BY <1>2, <2>1 DEF DhcpBound
<1>3. CASE LinkDown
  <2>1. evq' \in Seq(Event) /\ Len(evq') <= QueueSize BY <1>3, EventsAre, PostType DEF LinkDown
  <2> QED BY <1>3, <2>1 DEF LinkDown
<1>4. ASSUME NEW c \in Creds, PhoneSends(c) PROVE TypeOK'
  <2>1. evq' \in Seq(Event) /\ Len(evq') <= QueueSize BY <1>4, EventsAre, PostType DEF PhoneSends
  <2> QED BY <1>4, <2>1 DEF PhoneSends
<1>5. CASE AckSent
  <2>1. evq' \in Seq(Event) /\ Len(evq') <= QueueSize BY <1>5, EventsAre, PostType DEF AckSent
  <2> QED BY <1>5, <2>1 DEF AckSent
<1> QED BY <1>1, <1>2, <1>3, <1>4, <1>5 DEF Driver
----------------------------------------------------------------------------
LEMMA InductiveInit == Init => IInv
<1> SUFFICES ASSUME Init PROVE IInv
  OBVIOUS
<1>1. TypeOK BY TypeInit
<1>2. /\ RegisteredInSession /\ GroupsLive /\ WriterRegistered
  BY DEF Init, RegisteredInSession, GroupsLive, WriterRegistered, ScPc, CwPc
<1>3. StatusMatches
  BY ConstantsAssumption DEF Init, StatusMatches, MarkNeverSaved, ScPc, CwPc, Empty, SsidErr
<1> QED BY <1>1, <1>2, <1>3 DEF IInv

\* Restart forgets everything except the credentials in flash.
LEMMA InductiveRestart == IInv /\ Restart => IInv'
<1> SUFFICES ASSUME IInv, Restart PROVE IInv'
  OBVIOUS
<1>1. TypeOK' BY TypeRestart DEF IInv
<1>2. RegisteredInSession' /\ GroupsLive' /\ WriterRegistered'
  BY DEF Restart, RegisteredInSession, GroupsLive, WriterRegistered, ScPc, CwPc
<1>3. StatusMatches'
  BY DEF IInv, Restart, StatusMatches, MarkNeverSaved, ScPc, CwPc
<1> QED BY <1>1, <1>2, <1>3 DEF IInv

\* The driver only posts events and moves the link.
LEMMA InductiveDriver == IInv /\ Driver => IInv'
<1> SUFFICES ASSUME IInv, Driver PROVE IInv'
  OBVIOUS
<1>1. TypeOK' BY TypeDriver DEF IInv
<1>2. UNCHANGED <<appVars, taskVars, regs, epc, cur, grp>>
  BY DEF Driver, Associate, DhcpBound, LinkDown, PhoneSends, AckSent, loopVars, grpVars
<1> QED BY <1>1, <1>2 DEF IInv, RegisteredInSession, GroupsLive, WriterRegistered, StatusMatches,
                          MarkNeverSaved, appVars, taskVars

\* The event task changes the credentials only from a registered handler.
LEMMA InductiveEventTask == IInv /\ EventTask => IInv'
<1> SUFFICES ASSUME IInv, EventTask PROVE IInv'
  OBVIOUS
<1>1. TypeOK' BY TypeEventTask DEF IInv
<1>2. UNCHANGED <<status, sta, blockInit, nvs, pc, regs, grp>>
  BY DEF EventTask, EvTake, EvDrop, OnWifiConnected, WifiOnStart, WifiOnDisconnected, WifiOnGotIp,
         ScOnStart, ScOnGotSsidStep, ScOnAckDone, appVars, taskVars, grpVars
<1>3. RegisteredInSession' /\ GroupsLive' /\ MarkNeverSaved'
  BY <1>2 DEF IInv, RegisteredInSession, GroupsLive, StatusMatches, MarkNeverSaved
<1>4. CASE ScOnGotSsidStep
  <2>1. "sc_sc" \in regs /\ cur' = cur /\ (epc' \in {"zeroed", "copied"} => cur[1] = "GOT_SSID")
    BY <1>4 DEF IInv, WriterRegistered, ScOnGotSsidStep, ScOnGotSsid, Handling
  <2>2. status # "CONNECT"
    BY <2>1 DEF IInv, RegisteredInSession, StatusMatches, ScPc
  <2> QED BY <1>1, <1>2, <1>3, <2>1, <2>2 DEF IInv, WriterRegistered, StatusMatches
<1>5. CASE ~ScOnGotSsidStep
  <2>1. cred' = cred /\ epc' \notin {"zeroed", "copied"}
    BY <1>5 DEF EventTask, EvTake, EvDrop, OnWifiConnected, WifiOnStart, WifiOnDisconnected, WifiOnGotIp,
         ScOnStart, ScOnAckDone, appVars
  <2> QED BY <1>1, <1>2, <1>3, <2>1 DEF IInv, WriterRegistered, StatusMatches
<1> QED BY <1>4, <1>5

\* Each step of handler_task moves pc along its session.
LEMMA InductiveHandlerTask == IInv /\ HandlerTask => IInv'
<1> SUFFICES ASSUME IInv, HandlerTask PROVE IInv'
  OBVIOUS
<1>0. TypeOK' BY TypeHandlerTask DEF IInv
<1>a. ASSUME UNCHANGED <<regs, epc, cur>> PROVE WriterRegistered'
  BY <1>a DEF IInv, WriterRegistered
<1> USE DEF IInv, RegisteredInSession, GroupsLive, StatusMatches, MarkNeverSaved, ScPc, CwPc,
            appVars, taskVars, loopVars, grpVars, drvVars, histVars
<1>1. CASE AppConfig
  <2>1. RegisteredInSession' /\ GroupsLive' BY <1>1 DEF AppConfig
  <2>2. cred' \in Creds \cup {Empty, SsidErr} BY <1>0 DEF TypeOK
  <2>3. StatusMatches' BY <1>1, <2>2 DEF AppConfig, NotProvisioned
  <2> QED BY <1>0, <1>1, <1>a, <2>1, <2>3 DEF AppConfig
<1>2. CASE ConnectWifi BY <1>0, <1>2, <1>a DEF ConnectWifi
<1>3. CASE ConnectWifiPost BY <1>0, <1>3, <1>a DEF ConnectWifiPost
<1>4. CASE ConnectWifiNormal BY <1>0, <1>4, <1>a DEF ConnectWifiNormal
<1>5. CASE ConnectWifiFailed BY <1>0, <1>5, <1>a DEF ConnectWifiFailed
<1>6. CASE ScCreate BY <1>0, <1>6, <1>a DEF ScCreate, CreateGroup, TypeOK, Groups
<1>7. CASE ScRegister BY <1>0, <1>7 DEF ScRegister, Register, MutexFree, WriterRegistered
<1>8. CASE ScStart BY <1>0, <1>8, <1>a DEF ScStart, EspWifiStart
<1>9. CASE ScStartAbort BY <1>9, InductiveRestart DEF ScStartAbort
<1>10. CASE ScWait BY <1>0, <1>10, <1>a DEF ScWait
<1>11. CASE ScUnregister BY <1>0, <1>11 DEF ScUnregister, Unregister, MutexFree, WriterRegistered
<1>12. CASE ScDelete BY <1>0, <1>12, <1>a DEF ScDelete, DeleteGroup, TypeOK, Groups
<1>13. CASE CwCreate BY <1>0, <1>13, <1>a DEF CwCreate, CreateGroup, TypeOK, Groups
<1>14. CASE CwRegister BY <1>0, <1>14 DEF CwRegister, Register, MutexFree, WriterRegistered
<1>15. CASE CwStop BY <1>0, <1>15, <1>a DEF CwStop
<1>16. CASE CwConfig BY <1>0, <1>16, <1>a, ConstantsAssumption DEF CwConfig
<1>17. CASE CwStart BY <1>0, <1>17, <1>a DEF CwStart, EspWifiStart
<1>18. CASE CwWait BY <1>0, <1>18, <1>a DEF CwWait
<1>19. CASE CwUnregister BY <1>0, <1>19 DEF CwUnregister, Unregister, MutexFree, WriterRegistered
<1>20. CASE CwDelete BY <1>0, <1>20, <1>a DEF CwDelete, DeleteGroup, TypeOK, Groups
<1> QED BY <1>1, <1>2, <1>3, <1>4, <1>5, <1>6, <1>7, <1>8, <1>9, <1>10, <1>11, <1>12, <1>13, <1>14,
           <1>15, <1>16, <1>17, <1>18, <1>19, <1>20 DEF HandlerTask

LEMMA InductiveNext == IInv /\ [Next]_vars => IInv'
<1> SUFFICES ASSUME IInv, [Next]_vars PROVE IInv'
  OBVIOUS
<1>1. CASE HandlerTask BY <1>1, InductiveHandlerTask
<1>2. CASE EventTask BY <1>2, InductiveEventTask
<1>3. CASE Driver BY <1>3, InductiveDriver
<1>4. CASE Reboot BY <1>4, InductiveRestart DEF Reboot
<1>5. CASE UNCHANGED vars
  BY <1>5 DEF vars, appVars, taskVars, loopVars, grpVars, drvVars, histVars, IInv, TypeOK,
     RegisteredInSession, GroupsLive, WriterRegistered, StatusMatches, MarkNeverSaved
<1> QED BY <1>1, <1>2, <1>3, <1>4, <1>5 DEF Next

LEMMA Invariance == Spec => []IInv
<1>1. Init => IInv BY InductiveInit
<1>2. IInv /\ [Next]_vars => IInv' BY InductiveNext
<1> QED BY <1>1, <1>2, PTL DEF Spec
----------------------------------------------------------------------------
\* The queue never exceeds its length, and s_retry_num (a uint8_t) stays
\* within time_err whatever the order of link events.
THEOREM TypeCorrect == Spec => []TypeOK
<1>1. IInv => TypeOK BY DEF IInv
<1> QED BY <1>1, Invariance, PTL

\* No handler of wifi_iot.c or smart_config.c sets a bit of an event group
\* that does not exist, whatever events are still queued when a session ends.
THEOREM EventGroupsSafe == Spec => []NoUseAfterDelete
<1>1. IInv => NoUseAfterDelete
  BY DEF IInv, TypeOK, NoUseAfterDelete, SettingBits, Handling, RegisteredInSession, GroupsLive,
         WriterRegistered, Groups, ScPc, CwPc
<1> QED BY <1>1, Invariance, PTL

\* A connect session works on complete credentials that nobody is writing.
THEOREM CredentialsSafe == Spec => []CredentialsWhole
<1>1. IInv => CredentialsWhole
  BY DEF IInv, CredentialsWhole, WriterRegistered, RegisteredInSession, StatusMatches, ScPc, CwPc
<1> QED BY <1>1, Invariance, PTL

\* Flash never holds the mark "ssiderr", across reboots included.
THEOREM FlashSafe == Spec => []MarkNeverSaved
<1>1. IInv => MarkNeverSaved BY DEF IInv, StatusMatches
<1> QED BY <1>1, Invariance, PTL

----------------------------------------------------------------------------
(***************************************************************************)
(* Proof that the services of the application are started at most once per *)
(* boot, and only after a connection with credentials that are in flash.   *)
(*                                                                         *)
(* The event loop's queue outlives the sessions, so the proof has to show  *)
(* that no event of one session is left when the next one could mistake it *)
(* for its own.  What makes this true is that the station has one thing    *)
(* under way at a time: a STA_START on its way to the handler, an attempt, *)
(* a link, or the DISCONNECTED that reports its end.                       *)
(***************************************************************************)
IsAck(e) == e[1] \in {"GOT_SSID", "ACK_DONE"}
Queued(id) == \E i \in 1..Len(evq) : evq[i] = Ev(id)
InHand(id) == epc = "run" /\ cur = Ev(id)

\* The station is idle and no event is on its way ...
Silent == link = "idle" /\ evq = <<>> /\ epc = "idle"

\* ... or none but those of the smartconfig session.
AcksOnly ==
  /\ link = "idle"
  /\ \A i \in 1..Len(evq) : IsAck(evq[i])
  /\ epc # "idle" => IsAck(cur)

\* A smartconfig session begins with nothing under way, and with nothing a
\* connect session that failed ends.
SessionsSilent ==
  /\ pc # "sc_wait" => sc = "off"
  /\ pc \in {"sc_create", "sc_reg_wifi", "sc_reg_sc", "sc_start"} => Silent
  /\ pc = "poll" /\ status = "SELECT" /\ sta = 1 => Silent
  /\ pc \in {"cw_unreg_ip", "cw_unreg_any", "cw_delete", "cw_return"} /\ result = "FAIL" => Silent
  /\ pc \in {"sc_reg_wifi", "sc_reg_sc", "sc_start"} => bits["sc"] = {}
  /\ pc \in ScPc => sta = 0

\* STA_START is handled before smartconfig hears anything.
StartComesFirst ==
  pc = "sc_wait" =>
    \/ AcksOnly
    \/ /\ link = "idle" /\ sc = "off" /\ bits["sc"] = {}
       /\ \/ evq = <<Ev("STA_START")>> /\ epc = "idle"
          \/ evq = <<>> /\ InHand("STA_START")

\* Until esp_wifi_start of a connect session nothing is under way.
NoJoinYet ==
  /\ \/ pc \in {"sc_unreg_wifi", "sc_unreg_sc", "sc_delete", "cw_create", "cw_reg_any",
                "cw_reg_ip", "cw_stop", "cw_config", "cw_start"}
     \/ pc = "poll" /\ status # "NORMAL"
     => AcksOnly
  /\ pc \in {"cw_reg_any", "cw_reg_ip", "cw_stop", "cw_config", "cw_start"} => bits["wifi"] = {}
  /\ pc \in {"cw_config", "cw_start"} => ~started

\* The two stages of cw_wait: STA_START is on its way ...
Starting ==
  /\ link = "idle" /\ bits["wifi"] = {}
  /\ \/ /\ evq # <<>> /\ evq[Len(evq)] = Ev("STA_START")
        /\ \A i \in 1..(Len(evq) - 1) : IsAck(evq[i])
        /\ epc # "idle" => IsAck(cur)
     \/ evq = <<>> /\ InHand("STA_START")

\* An address was obtained with the credentials in flash.
Proven == hadIp /\ nvs \in GoodCreds

\* ... or it was handled, and at most one attempt or link is under way.
Joining ==
  /\ epc = "idle" \/ InHand("DISCONNECTED") \/ InHand("GOT_IP")
  /\ \A i \in 1..Len(evq) :
       \/ evq[i] = Ev("GOT_IP")
       \/ evq[i] = Ev("DISCONNECTED") /\ i = Len(evq) /\ link = "idle"
  /\ InHand("DISCONNECTED") => evq = <<>> /\ link = "idle"
  /\ Queued("GOT_IP") => link = "up" \/ Queued("DISCONNECTED")
  /\ Queued("GOT_IP") \/ InHand("GOT_IP") \/ "CONNECTED" \in bits["wifi"] \/ link = "up" => Proven
  /\ link = "assoc" => nvs \in GoodCreds
  /\ "FAIL" \in bits["wifi"] => Silent
  /\ bits["wifi"] \subseteq {"CONNECTED", "FAIL"}

OneJoin == pc = "cw_wait" => Starting \/ Joining

\* What wifi_connect_iot returned is still true when it is acted upon.
Outcome ==
  pc \in {"cw_unreg_ip", "cw_unreg_any", "cw_delete", "cw_return", "cw_posted"} =>
    /\ result \in {"OK", "FAIL"}
    /\ result = "OK" => Proven
    /\ pc = "cw_posted" => result = "OK"

\* WIFI_CONNECTTED is posted once: it is queued, in hand or handled.
QueuedOnce ==
  \E k \in 1..Len(evq) : \A i \in 1..Len(evq) : evq[i] = Ev("WIFI_CONNECTTED") <=> i = k
PostedOnce ==
  \/ /\ status # "NORMAL" /\ pc # "cw_posted"
     /\ services = 0 /\ ~Queued("WIFI_CONNECTTED") /\ ~InHand("WIFI_CONNECTTED")
  \/ /\ status = "NORMAL" \/ pc = "cw_posted"
     /\ Proven
     /\ \/ services = 1 /\ ~Queued("WIFI_CONNECTTED") /\ ~InHand("WIFI_CONNECTTED")
        \/ services = 0 /\ ~Queued("WIFI_CONNECTTED") /\ InHand("WIFI_CONNECTTED")
        \/ services = 0 /\ QueuedOnce /\ ~InHand("WIFI_CONNECTTED")

NormalPolls == status = "NORMAL" => pc = "poll"

\* The inductive invariant
Phases == SessionsSilent /\ StartComesFirst /\ NoJoinYet /\ OneJoin /\ Outcome /\ NormalPolls
SInv == IInv /\ Phases /\ PostedOnce
----------------------------------------------------------------------------
\* Events are told apart by their identifiers.
LEMMA EventKinds ==
  /\ \A id : Ev(id)[1] = id
  /\ \A id1, id2 : Ev(id1) = Ev(id2) => id1 = id2
  /\ \A id \in {"STA_START", "DISCONNECTED", "GOT_IP", "WIFI_CONNECTTED"} : ~IsAck(Ev(id))
  /\ IsAck(Ev("ACK_DONE"))
  /\ \A c : IsAck(GotSsid(c)) /\ \A id \in {"STA_START", "DISCONNECTED", "GOT_IP", "WIFI_CONNECTTED"} : GotSsid(c) # Ev(id)
  /\ \A e \in Event : ~IsAck(e) => e = Ev(e[1])
BY DEF Ev, GotSsid, IsAck, Event

\* The elements of a queue after its two operations.
LEMMA QueueIndex ==
  ASSUME NEW q \in Seq(Event)
  PROVE  /\ Len(q) \in Nat
         /\ \A e : /\ Len(Append(q, e)) = Len(q) + 1
                   /\ Append(q, e)[Len(q) + 1] = e
                   /\ \A i \in 1..Len(q) : Append(q, e)[i] = q[i]
         /\ q # <<>> => /\ Head(q) = q[1] /\ 1 \in 1..Len(q)
                        /\ Len(Tail(q)) = Len(q) - 1
                        /\ \A i \in 1..(Len(q) - 1) : Tail(q)[i] = q[i + 1]
         /\ Len(q) = 0 <=> q = <<>>
         /\ \A i \in 1..Len(q) : q[i] \in Event
OBVIOUS

\* With nothing under way neither the event task nor the driver has a step.
LEMMA SilentStays ==
  ASSUME Silent, sc = "off"
  PROVE  ~EventTask /\ ~Driver
<1>1. ~EventTask
  BY DEF Silent, EventTask, EvTake, EvDrop, OnWifiConnected, WifiOnStart, WifiOnDisconnected,
         WifiOnGotIp, ScOnStart, ScOnGotSsidStep, ScOnGotSsid, ScOnAckDone, Handling
<1>2. ~Driver
  BY DEF Silent, Driver, Associate, DhcpBound, LinkDown, PhoneSends, AckSent
<1> QED BY <1>1, <1>2

\* An idle station and a driver that does not listen to phones post nothing.
LEMMA IdleDriver ==
  ASSUME link = "idle", sc = "off"
  PROVE  ~Driver
BY DEF Driver, Associate, DhcpBound, LinkDown, PhoneSends, AckSent

\* The event task leaves the position of handler_task alone.
LEMMA EventTaskKeeps ==
  ASSUME EventTask
  PROVE  UNCHANGED <<status, sta, pc, result, nvs, hadIp, started, regs>>
BY DEF EventTask, EvTake, EvDrop, OnWifiConnected, WifiOnStart, WifiOnDisconnected, WifiOnGotIp,
       ScOnStart, ScOnGotSsidStep, ScOnGotSsid, ScOnAckDone, appVars, taskVars, drvVars, histVars

\* Smartconfig's events start nothing.
LEMMA AcksStay ==
  ASSUME IInv, AcksOnly, EventTask
  PROVE  AcksOnly' /\ bits'["wifi"] = bits["wifi"] /\ sc' = sc
<1> USE EventKinds DEF AcksOnly
<1>0. evq \in Seq(Event) /\ cur \in Event /\ bits \in [Groups -> SUBSET {"CONNECTED", "FAIL", "DONE"}]
  BY DEF IInv, TypeOK
<1>1. CASE EvTake
  BY <1>0, <1>1, QueueIndex DEF EvTake, grpVars, drvVars
<1>2. CASE EvDrop
  BY <1>2 DEF EvDrop, grpVars, drvVars
<1>3. epc # "idle" => cur[1] \in {"GOT_SSID", "ACK_DONE"}
  BY DEF IsAck
<1>4. CASE ScOnGotSsidStep
  BY <1>0, <1>4 DEF ScOnGotSsidStep, ScOnGotSsid, SetBit, Groups, drvVars, Handling
<1>5. CASE ScOnAckDone
  BY <1>0, <1>5 DEF ScOnAckDone, SetBit, Groups, drvVars
<1>6. ~OnWifiConnected /\ ~WifiOnStart /\ ~WifiOnDisconnected /\ ~WifiOnGotIp /\ ~ScOnStart
  BY <1>3 DEF OnWifiConnected, WifiOnStart, WifiOnDisconnected, WifiOnGotIp, ScOnStart, Handling
<1> QED BY <1>1, <1>2, <1>4, <1>5, <1>6 DEF EventTask

\* STA_START reaches the handler behind smartconfig's events.
LEMMA StartingStep ==
  ASSUME IInv, pc = "cw_wait", Starting, EventTask
  PROVE  Starting' \/ Joining'
<1> USE EventKinds
<1>0. /\ evq \in Seq(Event) /\ cur \in Event /\ bits \in [Groups -> SUBSET {"CONNECTED", "FAIL", "DONE"}]
      /\ "sc_wifi" \notin regs /\ "sc_sc" \notin regs /\ epc \in {"idle", "run"}
  BY DEF IInv, TypeOK, RegisteredInSession, WriterRegistered
<1>1. CASE EvTake
  <2>1. evq' = Tail(evq) /\ cur' = Head(evq) /\ epc' = "run" /\ link' = link /\ bits' = bits /\ evq # <<>> /\ epc = "idle"
    BY <1>1 DEF EvTake, grpVars, drvVars
  <2>2. CASE Len(evq) = 1
    <3>1. evq' = <<>> /\ cur' = Ev("STA_START")
      BY <1>0, <2>1, <2>2, QueueIndex DEF Starting, InHand
    <3> QED BY <2>1, <3>1 DEF Starting, InHand
  <2>3. CASE Len(evq) # 1
    <3>1. /\ Len(evq') = Len(evq) - 1 /\ Len(evq) > 1 /\ Len(evq) \in Nat
          /\ \A i \in 1..(Len(evq) - 1) : evq'[i] = evq[i + 1]
          /\ cur' = evq[1]
      <4>1. Len(evq) \in Nat /\ 1 \in 1..Len(evq)
        BY <1>0, <2>1, QueueIndex
      <4>2. Len(evq') = Len(evq) - 1 /\ \A i \in 1..(Len(evq) - 1) : evq'[i] = evq[i + 1]
        BY <1>0, <2>1, QueueIndex
      <4>3. cur' = evq[1]
        BY <1>0, <2>1, QueueIndex
      <4> QED BY <2>3, <4>1, <4>2, <4>3
    <3>2. evq' # <<>> /\ evq'[Len(evq')] = Ev("STA_START") /\ IsAck(cur')
      BY <2>1, <3>1, SMTT(30) DEF Starting, InHand
    <3>3. \A i \in 1..(Len(evq') - 1) : IsAck(evq'[i])
      BY <2>1, <3>1 DEF Starting, InHand
    <3> QED BY <2>1, <3>2, <3>3 DEF Starting
  <2> QED BY <2>2, <2>3
<1>2. CASE epc = "run" /\ IsAck(cur)
  <2>1. EvDrop
    BY <1>0, <1>2 DEF EventTask, EvTake, OnWifiConnected, WifiOnStart, WifiOnDisconnected, WifiOnGotIp,
                      ScOnStart, ScOnGotSsidStep, ScOnGotSsid, ScOnAckDone, Handling, IsAck
  <2> QED BY <1>2, <2>1 DEF EvDrop, Starting, InHand, grpVars, drvVars
<1>3. CASE InHand("STA_START")
  <2>1. evq = <<>> /\ link = "idle" /\ bits["wifi"] = {}
    BY <1>3 DEF Starting, InHand
  <2>2. EvDrop \/ WifiOnStart
    BY <1>0, <1>3 DEF EventTask, EvTake, OnWifiConnected, WifiOnDisconnected, WifiOnGotIp,
                      ScOnStart, ScOnGotSsidStep, ScOnGotSsid, ScOnAckDone, Handling, InHand
  <2>3. evq' = <<>> /\ epc' = "idle" /\ link' \in {"idle", "connecting"} /\ bits'["wifi"] = {}
    BY <2>1, <2>2 DEF EvDrop, WifiOnStart, grpVars, drvVars
  <2> QED BY <2>3 DEF Joining, InHand, Queued
<1>4. epc = "run" => IsAck(cur) \/ InHand("STA_START")
  BY DEF Starting, InHand
<1>5. EvTake \/ epc # "idle"
  BY DEF EventTask, EvDrop, OnWifiConnected, WifiOnStart, WifiOnDisconnected, WifiOnGotIp,
         ScOnStart, ScOnGotSsidStep, ScOnGotSsid, ScOnAckDone, Handling
<1> QED BY <1>0, <1>1, <1>2, <1>3, <1>4, <1>5

\* The events of the one attempt or link, in their order.
LEMMA JoiningStep ==
  ASSUME IInv, pc = "cw_wait", Joining, EventTask
  PROVE  Joining'
<1> USE EventKinds
<1>0. /\ evq \in Seq(Event) /\ cur \in Event /\ bits \in [Groups -> SUBSET {"CONNECTED", "FAIL", "DONE"}]
      /\ epc \in {"idle", "run"}
  BY DEF IInv, TypeOK, RegisteredInSession, WriterRegistered
<1>1. CASE EvTake
  <2>1. evq' = Tail(evq) /\ cur' = Head(evq) /\ epc' = "run" /\ link' = link /\ bits' = bits /\ evq # <<>> /\ epc = "idle"
    BY <1>1 DEF EvTake, grpVars, drvVars
  <2>2. hadIp' = hadIp /\ nvs' = nvs
    BY <1>1 DEF EvTake, histVars, appVars
  <2>3. /\ Len(evq') = Len(evq) - 1 /\ Len(evq) \in Nat /\ Len(evq) > 0
        /\ \A i \in 1..(Len(evq) - 1) : evq'[i] = evq[i + 1]
        /\ cur' = evq[1]
        /\ Len(evq) = 1 => evq' = <<>>
    BY <1>0, <2>1, QueueIndex
  <2>4. /\ InHand("DISCONNECTED")' \/ InHand("GOT_IP")'
        /\ InHand("DISCONNECTED")' => evq' = <<>> /\ link' = "idle"
        /\ InHand("GOT_IP")' => Proven'
    <3>1. \/ evq[1] = Ev("GOT_IP")
          \/ evq[1] = Ev("DISCONNECTED") /\ 1 = Len(evq) /\ link = "idle"
      BY <2>3 DEF Joining
    <3>2. evq[1] = Ev("GOT_IP") => Proven
      BY <2>3 DEF Joining, Queued
    <3>3. "GOT_IP" # "DISCONNECTED"
      OBVIOUS
    <3> QED BY <2>1, <2>2, <2>3, <3>1, <3>2, <3>3 DEF InHand, Proven
  <2>5. \A i \in 1..Len(evq') :
           \/ evq'[i] = Ev("GOT_IP")
           \/ evq'[i] = Ev("DISCONNECTED") /\ i = Len(evq') /\ link' = "idle"
    <3> SUFFICES ASSUME NEW i \in 1..Len(evq')
                 PROVE  \/ evq'[i] = Ev("GOT_IP")
                        \/ evq'[i] = Ev("DISCONNECTED") /\ i = Len(evq') /\ link' = "idle"
      OBVIOUS
    <3>1. i + 1 \in 1..Len(evq) /\ evq'[i] = evq[i + 1] /\ (i + 1 = Len(evq) <=> i = Len(evq'))
      BY <2>3
    <3>2. \/ evq[i + 1] = Ev("GOT_IP")
          \/ evq[i + 1] = Ev("DISCONNECTED") /\ i + 1 = Len(evq) /\ link = "idle"
      BY <3>1 DEF Joining
    <3> QED BY <2>1, <3>1, <3>2
  <2>6. Queued("GOT_IP")' => Proven' /\ (link' = "up" \/ Queued("DISCONNECTED")')
    <3> SUFFICES ASSUME NEW i \in 1..Len(evq'), evq'[i] = Ev("GOT_IP")
                 PROVE  Proven' /\ (link' = "up" \/ Queued("DISCONNECTED")')
      BY DEF Queued
    <3>1. i + 1 \in 1..Len(evq) /\ evq[i + 1] = Ev("GOT_IP")
      BY <2>3
    <3>2. Proven /\ (link = "up" \/ Queued("DISCONNECTED"))
      BY <3>1 DEF Joining, Queued
    <3>3. ASSUME NEW j \in 1..Len(evq), evq[j] = Ev("DISCONNECTED") PROVE Queued("DISCONNECTED")'
      <4>1. j = Len(evq) BY <3>3 DEF Joining
      <4>2. j - 1 \in 1..Len(evq') /\ evq'[j - 1] = Ev("DISCONNECTED") BY <2>3, <3>1, <3>3, <4>1
      <4> QED BY <4>2 DEF Queued
    <3> QED BY <2>1, <2>2, <3>2, <3>3 DEF Queued, Proven
  <2>7. "FAIL" \notin bits["wifi"]
    BY <2>1 DEF Joining, Silent
  <2> QED BY <2>1, <2>2, <2>4, <2>5, <2>6, <2>7 DEF Joining, Proven
<1>2. CASE InHand("DISCONNECTED")
  <2>1. evq = <<>> /\ link = "idle" /\ "FAIL" \notin bits["wifi"]
    BY <1>2 DEF Joining, Silent, InHand
  <2>2. EvDrop \/ WifiOnDisconnected
    BY <1>0, <1>2 DEF EventTask, EvTake, OnWifiConnected, WifiOnStart, WifiOnGotIp,
                      ScOnStart, ScOnGotSsidStep, ScOnGotSsid, ScOnAckDone, Handling, InHand
  <2>3. /\ evq' = <<>> /\ epc' = "idle" /\ hadIp' = hadIp /\ nvs' = nvs
        /\ \/ link' \in {"idle", "connecting"} /\ bits' = bits
           \/ link' = "idle" /\ bits'["wifi"] = bits["wifi"] \cup {"FAIL"}
    BY <1>0, <2>1, <2>2 DEF EvDrop, WifiOnDisconnected, GiveUp, SetBit, Groups, grpVars, drvVars, appVars, histVars
  <2> QED BY <2>1, <2>3 DEF Joining, InHand, Queued, Silent, Proven
<1>3. CASE InHand("GOT_IP")
  <2>1. EvDrop \/ WifiOnGotIp
    BY <1>0, <1>3 DEF EventTask, EvTake, OnWifiConnected, WifiOnStart, WifiOnDisconnected,
                      ScOnStart, ScOnGotSsidStep, ScOnGotSsid, ScOnAckDone, Handling, InHand
  <2>2. /\ evq' = evq /\ epc' = "idle" /\ link' = link /\ hadIp' = hadIp /\ nvs' = nvs
        /\ bits'["wifi"] \in {bits["wifi"], bits["wifi"] \cup {"CONNECTED"}}
    BY <1>0, <2>1 DEF EvDrop, WifiOnGotIp, SetBit, Groups, grpVars, drvVars, appVars, histVars
  <2>3. Proven /\ "FAIL" \notin bits["wifi"]
    BY <1>3 DEF Joining, Silent, InHand
  <2> QED BY <2>2, <2>3 DEF Joining, InHand, Queued, Silent, Proven
<1>4. EvTake \/ epc # "idle"
  BY DEF EventTask, EvDrop, OnWifiConnected, WifiOnStart, WifiOnDisconnected, WifiOnGotIp,
         ScOnStart, ScOnGotSsidStep, ScOnGotSsid, ScOnAckDone, Handling
<1> QED BY <1>1, <1>2, <1>3, <1>4 DEF Joining

\* The access point's part: one link comes up, or goes down.
LEMMA JoiningDriver ==
  ASSUME IInv, Joining, sc = "off", Driver
  PROVE  Joining'
<1> USE EventKinds
<1>0. evq \in Seq(Event) /\ Len(evq) \in Nat
  BY DEF IInv, TypeOK
<1>1. link # "idle" /\ "FAIL" \notin bits["wifi"]
  BY DEF Joining, Silent, Driver, Associate, DhcpBound, LinkDown, PhoneSends, AckSent
<1>2. CASE Associate
  <2>1. link' = "assoc" /\ nvs \in GoodCreds /\ UNCHANGED <<evq, epc, cur, bits, nvs, hadIp>> /\ link = "connecting"
    BY <1>2 DEF Associate, loopVars, grpVars, appVars, histVars
  <2> QED BY <1>1, <2>1 DEF Joining, InHand, Queued, Proven
<1>3. CASE DhcpBound
  <2>1. link = "assoc" /\ link' = "up" /\ hadIp' /\ UNCHANGED <<epc, cur, bits, nvs>> /\ evq' = Append(evq, Ev("GOT_IP"))
    BY <1>3 DEF DhcpBound, Post, grpVars, appVars
  <2>2. Proven'
    BY <2>1 DEF Joining, Proven
  <2>3. \A i \in 1..Len(evq') : evq'[i] = Ev("GOT_IP")
    BY <1>0, <1>1, <2>1, QueueIndex DEF Joining
  <2> QED BY <1>1, <2>1, <2>2, <2>3 DEF Joining, InHand, Queued
<1>4. CASE LinkDown
  <2>1. link' = "idle" /\ UNCHANGED <<epc, cur, bits, nvs, hadIp>> /\ evq' = Append(evq, Ev("DISCONNECTED"))
    BY <1>4 DEF LinkDown, Post, grpVars, appVars, histVars
  <2>2. Len(evq') = Len(evq) + 1 /\ evq'[Len(evq) + 1] = Ev("DISCONNECTED") /\ \A i \in 1..Len(evq) : evq'[i] = evq[i]
    BY <1>0, <2>1, QueueIndex
  <2>3. \A i \in 1..Len(evq) : evq[i] = Ev("GOT_IP")
    BY <1>1 DEF Joining
  <2>4. \A i \in 1..Len(evq') : evq'[i] = Ev("GOT_IP") \/ (evq'[i] = Ev("DISCONNECTED") /\ i = Len(evq'))
    BY <1>0, <2>2, <2>3
  <2>5. Queued("GOT_IP")' => Queued("GOT_IP") /\ Queued("DISCONNECTED")'
    BY <1>0, <2>2 DEF Queued
  <2> QED BY <1>1, <2>1, <2>4, <2>5 DEF Joining, InHand, Proven
<1> QED BY <1>2, <1>3, <1>4 DEF Driver, PhoneSends, AckSent
----------------------------------------------------------------------------
\* Smartconfig's session handles STA_START before it listens.
LEMMA StartComesFirstStep ==
  ASSUME IInv, StartComesFirst, pc = "sc_wait", EventTask
  PROVE  StartComesFirst'
<1> USE EventKinds
<1>0. /\ "wifi_any" \notin regs /\ "wifi_ip" \notin regs /\ pc' = pc /\ evq \in Seq(Event)
  BY EventTaskKeeps DEF IInv, TypeOK, RegisteredInSession
<1>1. CASE AcksOnly
  BY <1>1, AcksStay DEF StartComesFirst
<1>2. CASE link = "idle" /\ sc = "off" /\ bits["sc"] = {} /\ evq = <<Ev("STA_START")>> /\ epc = "idle"
  <2>1. EvTake
    BY <1>2 DEF EventTask, EvDrop, OnWifiConnected, WifiOnStart, WifiOnDisconnected, WifiOnGotIp,
                ScOnStart, ScOnGotSsidStep, ScOnGotSsid, ScOnAckDone, Handling
  <2>2. cur' = Ev("STA_START") /\ evq' = <<>> /\ epc' = "run" /\ UNCHANGED <<link, sc, bits>>
    BY <1>0, <1>2, <2>1, QueueIndex DEF EvTake, grpVars, drvVars
  <2> QED BY <1>2, <2>2 DEF StartComesFirst, InHand
<1>3. CASE link = "idle" /\ evq = <<>> /\ InHand("STA_START")
  <2>1. EvDrop \/ ScOnStart
    BY <1>0, <1>3 DEF EventTask, EvTake, OnWifiConnected, WifiOnStart, WifiOnDisconnected, WifiOnGotIp,
                ScOnGotSsidStep, ScOnGotSsid, ScOnAckDone, Handling, InHand
  <2>2. evq' = <<>> /\ epc' = "idle" /\ link' = "idle"
    BY <1>3, <2>1 DEF EvDrop, ScOnStart, drvVars
  <2> QED BY <2>2 DEF StartComesFirst, AcksOnly
<1> QED BY <1>1, <1>2, <1>3 DEF StartComesFirst

LEMMA PhasesEventTask ==
  ASSUME IInv, Phases, EventTask
  PROVE  Phases'
<1>1. UNCHANGED <<status, sta, pc, result, nvs, hadIp, started, regs>>
  BY EventTaskKeeps
<1>2. NormalPolls'
  BY <1>1 DEF Phases, NormalPolls
<1>3. Outcome'
  BY <1>1 DEF Phases, Outcome, Proven
<1>4. ~(Silent /\ sc = "off")
  BY SilentStays
<1>5. CASE pc = "sc_wait"
  <2>1. StartComesFirst'
    BY <1>5, StartComesFirstStep DEF Phases
  <2> QED BY <1>1, <1>2, <1>3, <1>5, <2>1 DEF Phases, SessionsSilent, NoJoinYet, OneJoin
<1>6. CASE AcksOnly /\ pc # "sc_wait" /\ pc # "cw_wait"
  <2>1. AcksOnly' /\ bits'["wifi"] = bits["wifi"] /\ sc' = sc
    BY <1>6, AcksStay
  <2>2. SessionsSilent'
    BY <1>1, <1>4, <1>6, <2>1 DEF Phases, SessionsSilent
  <2>3. StartComesFirst' /\ NoJoinYet' /\ OneJoin'
    BY <1>1, <1>6, <2>1 DEF Phases, StartComesFirst, NoJoinYet, OneJoin
  <2> QED BY <1>2, <1>3, <2>2, <2>3 DEF Phases
<1>7. CASE ~AcksOnly /\ pc # "sc_wait" /\ pc # "cw_wait"
  <2>1. "sc_wifi" \notin regs
    BY <1>4, <1>7 DEF IInv, RegisteredInSession, Phases, SessionsSilent, NoJoinYet
  <2>2. sc' = sc
    BY <2>1 DEF EventTask, EvTake, EvDrop, OnWifiConnected, WifiOnStart, WifiOnDisconnected,
                WifiOnGotIp, ScOnStart, ScOnGotSsidStep, ScOnAckDone, Handling, drvVars
  <2>3. SessionsSilent' /\ StartComesFirst' /\ NoJoinYet' /\ OneJoin'
    BY <1>1, <1>4, <1>7, <2>2 DEF Phases, SessionsSilent, StartComesFirst, NoJoinYet, OneJoin
  <2> QED BY <1>2, <1>3, <2>3 DEF Phases
<1>8. CASE pc = "cw_wait"
  <2>1. OneJoin'
    BY <1>1, <1>8, StartingStep, JoiningStep DEF Phases, OneJoin
  <2>2. "sc_wifi" \notin regs
    BY <1>8 DEF IInv, RegisteredInSession
  <2>3. sc' = sc
    BY <2>2 DEF EventTask, EvTake, EvDrop, OnWifiConnected, WifiOnStart, WifiOnDisconnected,
                WifiOnGotIp, ScOnStart, ScOnGotSsidStep, ScOnAckDone, Handling, drvVars
  <2> QED BY <1>1, <1>2, <1>3, <1>8, <2>1, <2>3 DEF Phases, SessionsSilent, StartComesFirst, NoJoinYet
<1> QED BY <1>5, <1>6, <1>7, <1>8

\* The driver posts only what the one thing under way calls for.
LEMMA PhasesDriver ==
  ASSUME IInv, Phases, Driver
  PROVE  Phases'
<1> USE EventKinds
<1>1. UNCHANGED <<status, sta, pc, result, nvs, started, epc, cur, bits>>
  BY DEF Driver, Associate, DhcpBound, LinkDown, PhoneSends, AckSent, appVars, taskVars, loopVars, grpVars
<1>2. hadIp => hadIp'
  BY DEF Driver, Associate, DhcpBound, LinkDown, PhoneSends, AckSent, histVars
<1>3. NormalPolls' /\ Outcome'
  BY <1>1, <1>2 DEF Phases, NormalPolls, Outcome, Proven
<1>4. sc # "off" \/ link # "idle"
  BY IdleDriver
<1>5. sc = "off" => sc' = "off"
  BY DEF Driver, Associate, DhcpBound, LinkDown, PhoneSends, AckSent
<1>6. CASE pc = "sc_wait"
  <2>1. link = "idle" /\ evq \in Seq(Event)
    BY <1>6 DEF IInv, TypeOK, Phases, StartComesFirst, AcksOnly
  <2>2. AcksOnly
    BY <1>4, <1>6, <2>1 DEF Phases, StartComesFirst
  <2>3. link' = "idle" /\ \E e : IsAck(e) /\ evq' = Append(evq, e)
    BY <2>1 DEF Driver, Associate, DhcpBound, LinkDown, PhoneSends, AckSent, Post
  <2>4. AcksOnly'
    BY <1>1, <2>1, <2>2, <2>3, QueueIndex DEF AcksOnly
  <2> QED BY <1>1, <1>3, <1>6, <2>4 DEF Phases, SessionsSilent, StartComesFirst, NoJoinYet, OneJoin
<1>7. CASE pc = "cw_wait"
  <2>1. Joining /\ sc = "off"
    BY <1>4, <1>7 DEF Phases, SessionsSilent, OneJoin, Starting
  <2>2. Joining'
    BY <2>1, JoiningDriver
  <2> QED BY <1>1, <1>3, <1>5, <1>7, <2>1, <2>2 DEF Phases, SessionsSilent, StartComesFirst, NoJoinYet, OneJoin
<1>8. CASE pc # "sc_wait" /\ pc # "cw_wait"
  <2>1. sc = "off" /\ link # "idle"
    BY <1>4, <1>8 DEF Phases, SessionsSilent
  <2>2. ~Silent /\ ~AcksOnly
    BY <2>1 DEF Silent, AcksOnly
  <2>3. SessionsSilent' /\ StartComesFirst' /\ NoJoinYet' /\ OneJoin'
    BY <1>1, <1>5, <1>8, <2>1, <2>2 DEF Phases, SessionsSilent, StartComesFirst, NoJoinYet, OneJoin
  <2> QED BY <1>3, <2>3 DEF Phases
<1> QED BY <1>6, <1>7, <1>8

\* A restart begins with nothing under way.
LEMMA PhasesStart ==
  /\ Init => Phases
  /\ Restart => Phases'
BY DEF Init, Restart, Phases, SessionsSilent, StartComesFirst, NoJoinYet, OneJoin, Outcome, NormalPolls,
       Silent, AcksOnly, ScPc

\* Each step of handler_task leads from one phase to the next.
LEMMA PhasesHandlerTask ==
  ASSUME IInv, Phases, HandlerTask
  PROVE  Phases'
<1> USE EventKinds DEF Phases, SessionsSilent, StartComesFirst, NoJoinYet, OneJoin, Outcome, NormalPolls,
        appVars, taskVars, loopVars, grpVars, drvVars, histVars, ScPc
<1>0. /\ pc \in CwPc => status = "CONNECT"
      /\ pc \in ScPc => status = "SELECT"
      /\ evq \in Seq(Event) /\ bits \in [Groups -> SUBSET {"CONNECTED", "FAIL", "DONE"}]
      /\ "sc" \in Groups /\ "wifi" \in Groups
  BY DEF IInv, TypeOK, StatusMatches, Groups
<1>a. ASSUME UNCHANGED <<evq, epc, cur, link>>
      PROVE  (Silent => Silent') /\ (AcksOnly => AcksOnly')
  BY <1>a DEF Silent, AcksOnly
<1>b. Silent => AcksOnly
  BY DEF Silent, AcksOnly
<1>1. CASE AppConfig
  <2>1. UNCHANGED <<evq, epc, cur, link, sc, bits, nvs, hadIp, result, started>>
    BY <1>1 DEF AppConfig
  <2>2. \/ pc = "poll" /\ pc' = "sc_create" /\ Silent
        \/ pc = "poll" /\ pc' = "poll" /\ status' = "CONNECT" /\ AcksOnly
    BY <1>1 DEF AppConfig
  <2> QED BY <1>1, <1>a, <1>b, <2>1, <2>2 DEF AppConfig
<1>2. CASE ConnectWifi
  BY <1>2, <1>a DEF ConnectWifi
<1>3. CASE ConnectWifiPost
  BY <1>3, <1>0 DEF ConnectWifiPost, CwPc, Proven
<1>4. CASE ConnectWifiNormal
  BY <1>4, <1>0 DEF ConnectWifiNormal, CwPc
<1>5. CASE ConnectWifiFailed
  <2>1. UNCHANGED <<evq, epc, cur, link, sc, bits, nvs, hadIp, result, started>> /\ Silent
    BY <1>5 DEF ConnectWifiFailed
  <2> QED BY <1>5, <1>a, <1>b, <2>1 DEF ConnectWifiFailed
<1>6. CASE ScCreate
  <2>1. UNCHANGED <<evq, epc, cur, link, sc, nvs, hadIp, result, started, status>> /\ Silent /\ bits'["sc"] = {}
    BY <1>0, <1>6 DEF ScCreate, CreateGroup
  <2> QED BY <1>6, <1>0, <1>a, <2>1 DEF ScCreate, CreateGroup, ScPc
<1>7. CASE ScRegister
  BY <1>7, <1>0, <1>a DEF ScRegister, Register, ScPc
<1>8. CASE ScStart
  <2>1. /\ pc = "sc_start" /\ pc' = "sc_wait" /\ Silent /\ sc = "off" /\ bits["sc"] = {}
        /\ UNCHANGED <<epc, cur, link, sc, bits, status, sta>>
        /\ evq' = evq \/ evq' = Append(evq, Ev("STA_START"))
    BY <1>8 DEF ScStart, EspWifiStart, Post
  <2>2. AcksOnly' \/ evq' = <<Ev("STA_START")>>
    BY <2>1, <1>a, <1>b DEF Silent
  <2>3. StartComesFirst'
    BY <2>1, <2>2 DEF Silent
  <2> QED BY <1>0, <2>1, <2>3 DEF ScPc
<1>9. CASE ScStartAbort
  BY <1>9, PhasesStart DEF ScStartAbort
<1>10. CASE ScWait
  <2>1. AcksOnly /\ UNCHANGED <<evq, epc, cur, link, status>> /\ pc' = "sc_unreg_wifi" /\ sc' = "off"
    BY <1>10 DEF ScWait
  <2> QED BY <1>0, <1>10, <1>a, <2>1 DEF ScWait, ScPc
<1>11. CASE ScUnregister
  BY <1>11, <1>0, <1>a DEF ScUnregister, Unregister, ScPc
<1>12. CASE ScDelete
  <2>1. sta # 1
    BY <1>12 DEF ScDelete, DeleteGroup, ScPc
  <2> QED BY <1>12, <1>0, <1>a, <2>1 DEF ScDelete, DeleteGroup, ScPc
<1>13. CASE CwCreate
  <2>1. bits'["wifi"] = {} /\ AcksOnly /\ UNCHANGED <<evq, epc, cur, link, sc, status, result, started>>
    BY <1>0, <1>13 DEF CwCreate, CreateGroup
  <2> QED BY <1>13, <1>0, <1>a, <2>1 DEF CwCreate, CreateGroup, CwPc
<1>14. CASE CwRegister
  BY <1>14, <1>0, <1>a DEF CwRegister, Register, CwPc
<1>15. CASE CwStop
  <2>1. /\ AcksOnly /\ link = "idle" /\ link' = "idle" /\ evq' = evq /\ pc' = "cw_config" /\ ~started'
        /\ UNCHANGED <<epc, cur, sc, bits, status, result>> /\ bits["wifi"] = {} /\ sc = "off"
    BY <1>15 DEF CwStop, AcksOnly
  <2> QED BY <1>0, <1>15, <1>a, <2>1 DEF CwStop, CwPc
<1>16. CASE CwConfig
  BY <1>16, <1>0, <1>a DEF CwConfig, CwPc
<1>17. CASE CwStart
  <2>1. /\ pc = "cw_start" /\ pc' = "cw_wait" /\ AcksOnly /\ sc = "off" /\ bits["wifi"] = {} /\ ~started
        /\ UNCHANGED <<epc, cur, link, sc, bits, status>>
        /\ evq' = Append(evq, Ev("STA_START"))
    BY <1>17 DEF CwStart, EspWifiStart, Post
  <2>2. Len(evq') = Len(evq) + 1 /\ Len(evq) \in Nat /\ evq' # <<>> /\ evq'[Len(evq')] = Ev("STA_START")
        /\ \A i \in 1..(Len(evq') - 1) : evq'[i] = evq[i]
    BY <1>0, <2>1, QueueIndex
  <2>3. Starting'
    BY <2>1, <2>2 DEF Starting, AcksOnly
  <2> QED BY <1>0, <2>1, <2>3 DEF CwPc
<1>18. CASE CwWait
  <2>1. Joining /\ UNCHANGED <<evq, epc, cur, link, sc, status, hadIp, nvs>> /\ pc' = "cw_unreg_ip"
    BY <1>18 DEF CwWait, Starting
  <2>2. "CONNECTED" \in bits["wifi"] => result' = "OK" /\ Proven'
    BY <1>18, <2>1 DEF CwWait, Joining, Proven
  <2>3. "CONNECTED" \notin bits["wifi"] => result' = "FAIL" /\ Silent
    BY <1>18, <2>1 DEF CwWait, Joining
  <2> QED BY <1>0, <1>18, <1>a, <2>1, <2>2, <2>3 DEF CwWait, CwPc
<1>19. CASE CwUnregister
  BY <1>19, <1>0, <1>a DEF CwUnregister, Unregister, CwPc, Proven
<1>20. CASE CwDelete
  BY <1>20, <1>0, <1>a DEF CwDelete, DeleteGroup, CwPc, Proven
<1> QED BY <1>1, <1>2, <1>3, <1>4, <1>5, <1>6, <1>7, <1>8, <1>9, <1>10, <1>11, <1>12, <1>13, <1>14,
           <1>15, <1>16, <1>17, <1>18, <1>19, <1>20 DEF HandlerTask

\* Another event behind it leaves WIFI_CONNECTTED where it is.
LEMMA AppendOther ==
  ASSUME evq \in Seq(Event),
         evq' = evq \/ \E e : e # Ev("WIFI_CONNECTTED") /\ evq' = Append(evq, e),
         QueuedOnce
  PROVE  QueuedOnce'
<1>1. PICK k \in 1..Len(evq) : \A i \in 1..Len(evq) : evq[i] = Ev("WIFI_CONNECTTED") <=> i = k
  BY DEF QueuedOnce
<1>2. Len(evq) \in Nat /\ k \in 1..Len(evq')
  BY QueueIndex
<1>3. \A i \in 1..Len(evq') : evq'[i] = Ev("WIFI_CONNECTTED") <=> i = k
  BY <1>1, <1>2, QueueIndex
<1> QED BY <1>2, <1>3 DEF QueuedOnce

\* Only connect_wifi posts WIFI_CONNECTTED, and only otadrive_event_handler
\* takes it.
LEMMA PostedOnceStep ==
  ASSUME IInv, Phases, PostedOnce, [Next]_vars
  PROVE  PostedOnce'
<1> USE EventKinds
<1> DEFINE W == Ev("WIFI_CONNECTTED")
<1>0. /\ evq \in Seq(Event) /\ Len(evq) \in Nat
      /\ pc \in CwPc => status = "CONNECT"
      /\ pc \in ScPc => status = "SELECT"
  BY DEF IInv, TypeOK, StatusMatches
\* Steps that leave queue, event in hand and count alone, or append another event.
<1>a. ASSUME UNCHANGED <<epc, cur, services>>, evq' = evq \/ \E e : e # W /\ evq' = Append(evq, e),
             Proven => Proven',
             (status = "NORMAL" \/ pc = "cw_posted") <=> (status' = "NORMAL" \/ pc' = "cw_posted")
      PROVE  PostedOnce'
  <2>1. InHand("WIFI_CONNECTTED")' <=> InHand("WIFI_CONNECTTED")
    BY <1>a DEF InHand
  <2>2. Queued("WIFI_CONNECTTED")' <=> Queued("WIFI_CONNECTTED")
    BY <1>0, <1>a, QueueIndex, SMTT(30) DEF Queued
  <2>3. QueuedOnce => QueuedOnce'
    BY <1>0, <1>a, AppendOther
  <2> QED BY <1>a, <2>1, <2>2, <2>3 DEF PostedOnce
<1>1. CASE EvTake
  <2>1. /\ evq # <<>> /\ cur' = evq[1] /\ epc' = "run" /\ epc = "idle"
        /\ UNCHANGED <<services, status, pc, hadIp, nvs>>
        /\ Len(evq') = Len(evq) - 1 /\ 1 \in 1..Len(evq)
        /\ \A i \in 1..(Len(evq) - 1) : evq'[i] = evq[i + 1]
    BY <1>0, <1>1, QueueIndex DEF EvTake, appVars, taskVars, histVars
  <2>2. ~InHand("WIFI_CONNECTTED") /\ (InHand("WIFI_CONNECTTED")' <=> evq[1] = W)
    BY <2>1 DEF InHand
  <2>3. ~Queued("WIFI_CONNECTTED") => evq[1] # W /\ ~Queued("WIFI_CONNECTTED")'
    BY <1>0, <2>1 DEF Queued
  <2>4. QueuedOnce =>
          \/ evq[1] = W /\ ~Queued("WIFI_CONNECTTED")'
          \/ evq[1] # W /\ QueuedOnce'
    <3> SUFFICES ASSUME NEW k \in 1..Len(evq), \A i \in 1..Len(evq) : evq[i] = W <=> i = k
                 PROVE  \/ evq[1] = W /\ ~Queued("WIFI_CONNECTTED")'
                        \/ evq[1] # W /\ QueuedOnce'
      BY DEF QueuedOnce
    <3>1. CASE k = 1
      BY <1>0, <2>1, <3>1 DEF Queued
    <3>2. CASE k # 1
      <4>1. k - 1 \in 1..Len(evq') /\ evq[1] # W
        BY <1>0, <2>1, <3>2
      <4>2. \A i \in 1..Len(evq') : evq'[i] = W <=> i = k - 1
        BY <1>0, <2>1, <4>1
      <4> QED BY <4>1, <4>2 DEF QueuedOnce
    <3> QED BY <3>1, <3>2
  <2> QED BY <2>1, <2>2, <2>3, <2>4 DEF PostedOnce, Proven
<1>2. CASE OnWifiConnected
  <2>1. InHand("WIFI_CONNECTTED") /\ epc' = "idle" /\ UNCHANGED <<evq, status, pc, hadIp, nvs>>
    BY <1>2 DEF OnWifiConnected, InHand, appVars, taskVars, IInv, TypeOK, IsAck
  <2>2. services = 0 /\ ~Queued("WIFI_CONNECTTED") /\ (status = "NORMAL" \/ pc = "cw_posted") /\ Proven
    BY <2>1 DEF PostedOnce
  <2>3. services' = 1
    BY <1>2, <2>2 DEF OnWifiConnected
  <2> QED BY <2>1, <2>2, <2>3 DEF PostedOnce, Queued, InHand, Proven
<1>3. CASE EventTask /\ ~EvTake /\ ~OnWifiConnected
  <2>1. UNCHANGED <<status, pc, nvs, hadIp>>
    BY <1>3, EventTaskKeeps
  <2>2. ~InHand("WIFI_CONNECTTED") /\ services' = services
    BY <1>3 DEF EventTask, EvDrop, WifiOnStart, WifiOnDisconnected, WifiOnGotIp, ScOnStart, ScOnGotSsidStep,
                ScOnGotSsid, ScOnAckDone, Handling, InHand, histVars
  <2>3. evq' = evq \/ evq' = Append(evq, Ev("DISCONNECTED"))
    BY <1>3 DEF EventTask, EvDrop, WifiOnStart, WifiOnDisconnected, WifiOnGotIp, ScOnStart, ScOnGotSsidStep,
                ScOnAckDone, Post
  <2>4. ~InHand("WIFI_CONNECTTED")'
    BY <1>3 DEF EventTask, EvDrop, WifiOnStart, WifiOnDisconnected, WifiOnGotIp, ScOnStart, ScOnGotSsidStep,
                ScOnGotSsid, ScOnAckDone, InHand
  <2>5. Queued("WIFI_CONNECTTED")' <=> Queued("WIFI_CONNECTTED")
    <3>1. CASE evq' = evq
      BY <3>1 DEF Queued
    <3>2. CASE evq' = Append(evq, Ev("DISCONNECTED"))
      <4>1. PICK d : d = Ev("DISCONNECTED") /\ d # W
        BY DEF Ev
      <4>2. /\ Len(evq) \in Nat /\ Len(evq') = Len(evq) + 1 /\ evq'[Len(evq) + 1] = d
            /\ \A i \in 1..Len(evq) : evq'[i] = evq[i]
        BY <1>0, <3>2, <4>1, QueueIndex
      <4>3. \A i \in 1..Len(evq') : evq'[i] = W <=> i \in 1..Len(evq) /\ evq[i] = W
        BY <4>1, <4>2
      <4> QED BY <4>2, <4>3 DEF Queued
    <3> QED BY <2>3, <3>1, <3>2
  <2>6. QueuedOnce => QueuedOnce'
    BY <1>0, <2>3, AppendOther
  <2> QED BY <2>1, <2>2, <2>4, <2>5, <2>6 DEF PostedOnce, Proven
<1>4. CASE Driver
  <2>1. UNCHANGED <<status, pc, nvs, services, epc, cur>> /\ (hadIp => hadIp')
    BY <1>4 DEF Driver, Associate, DhcpBound, LinkDown, PhoneSends, AckSent, appVars, taskVars, loopVars, histVars
  <2>2. evq' = evq \/ \E e : e # W /\ evq' = Append(evq, e)
    BY <1>4 DEF Driver, Associate, DhcpBound, LinkDown, PhoneSends, AckSent, Post, loopVars
  <2> QED BY <1>a, <2>1, <2>2 DEF Proven
<1>5. CASE Restart
  BY <1>5 DEF Restart, PostedOnce, Queued, InHand
<1>6. CASE ConnectWifiPost
  <2>1. /\ evq' = Append(evq, W) /\ pc = "cw_return" /\ pc' = "cw_posted" /\ Proven
        /\ UNCHANGED <<epc, cur, services, nvs, hadIp, status>>
    BY <1>6 DEF ConnectWifiPost, Post, Phases, Outcome, appVars, histVars
  <2>2. status = "CONNECT"
    BY <1>0, <2>1 DEF CwPc
  <2>3. services = 0 /\ ~Queued("WIFI_CONNECTTED") /\ ~InHand("WIFI_CONNECTTED")
    BY <2>1, <2>2 DEF PostedOnce
  <2>4. QueuedOnce'
    <3>1. Len(evq) + 1 \in 1..Len(evq') /\ \A i \in 1..Len(evq') : evq'[i] = W <=> i = Len(evq) + 1
      BY <1>0, <2>1, <2>3, QueueIndex DEF Queued
    <3> QED BY <3>1 DEF QueuedOnce
  <2> QED BY <2>1, <2>3, <2>4 DEF PostedOnce, InHand, Proven
<1>7. CASE HandlerTask /\ ~ConnectWifiPost /\ ~Restart
  <2> USE DEF HandlerTask, AppConfig, ConnectWifi, ConnectWifiNormal, ConnectWifiFailed, ScCreate, CreateGroup,
          ScRegister, Register, ScStart, EspWifiStart, ScStartAbort, ScWait, ScUnregister, Unregister, ScDelete,
          DeleteGroup, CwCreate, CwRegister, CwStop, CwConfig, CwStart, CwWait, CwUnregister, CwDelete,
          appVars, taskVars, loopVars, grpVars, drvVars, histVars
  <2>1. UNCHANGED <<services, epc, cur>> /\ hadIp' = hadIp
    BY <1>7
  <2>2. evq' = evq \/ \E e : e # W /\ evq' = Append(evq, e)
    BY <1>7 DEF Post
  <2>3. nvs' = nvs \/ (CwConfig /\ status = "CONNECT" /\ pc # "cw_posted")
    BY <1>0, <1>7 DEF CwPc
  <2>4. (status = "NORMAL" \/ pc = "cw_posted") <=> (status' = "NORMAL" \/ pc' = "cw_posted")
    BY <1>0, <1>7 DEF CwPc, ScPc
  <2>5. CASE nvs' = nvs
    BY <1>a, <2>1, <2>2, <2>4, <2>5 DEF Proven
  <2>6. CASE CwConfig /\ status = "CONNECT" /\ pc # "cw_posted"
    BY <2>1, <2>4, <2>6 DEF PostedOnce, Queued, InHand
  <2> QED BY <2>3, <2>5, <2>6
<1>8. CASE UNCHANGED vars
  BY <1>8, <1>a DEF vars, appVars, taskVars, loopVars, histVars, Proven
<1> QED BY <1>1, <1>2, <1>3, <1>4, <1>5, <1>6, <1>7, <1>8 DEF Next, Reboot

LEMMA ServicesInvariance == Spec => []SInv
<1>1. Init => SInv
  BY InductiveInit, PhasesStart DEF Init, SInv, PostedOnce, Queued, InHand
<1>2. SInv /\ [Next]_vars => SInv'
  <2> SUFFICES ASSUME SInv, [Next]_vars PROVE SInv'
    OBVIOUS
  <2>1. IInv' BY InductiveNext DEF SInv
  <2>2. PostedOnce' BY PostedOnceStep DEF SInv
  <2>3. CASE HandlerTask BY <2>1, <2>2, <2>3, PhasesHandlerTask DEF SInv
  <2>4. CASE EventTask BY <2>1, <2>2, <2>4, PhasesEventTask DEF SInv
  <2>5. CASE Driver BY <2>1, <2>2, <2>5, PhasesDriver DEF SInv
  <2>6. CASE Reboot BY <2>1, <2>2, <2>6, PhasesStart DEF SInv, Reboot
  <2>7. CASE UNCHANGED vars
    BY <2>1, <2>2, <2>7 DEF SInv, vars, appVars, taskVars, loopVars, grpVars, drvVars, histVars, Phases,
       SessionsSilent, StartComesFirst, NoJoinYet, OneJoin, Outcome, NormalPolls, Silent, AcksOnly, Starting,
       Joining, Proven, Queued, InHand
  <2> QED BY <2>3, <2>4, <2>5, <2>6, <2>7 DEF Next
<1> QED BY <1>1, <1>2, PTL DEF Spec
----------------------------------------------------------------------------
\* otadrive_event_handler creates the OTA task and the MQTT client at most once
\* per boot, and only once the station had an address with the credentials in
\* flash, whatever events of earlier sessions are still queued.
THEOREM ServicesOnce == Spec => []ServicesStartOnce
<1> DEFINE Set == {i \in 1..Len(evq) : evq[i] = Ev("WIFI_CONNECTTED")}
<1>1. ASSUME SInv PROVE ServicesStartOnce
  <2>1. Announced = Cardinality(Set) + (IF InHand("WIFI_CONNECTTED") THEN 1 ELSE 0)
    BY DEF Announced, InHand
  <2>2. ~Queued("WIFI_CONNECTTED") => Cardinality(Set) = 0
    <3>1. ~Queued("WIFI_CONNECTTED") => Set = {} BY DEF Queued
    <3> QED BY <3>1, FS_EmptySet
  <2>3. QueuedOnce => Cardinality(Set) = 1
    <3>1. ASSUME QueuedOnce PROVE \E k : Set = {k}
      <4>1. PICK k \in 1..Len(evq) : \A i \in 1..Len(evq) : evq[i] = Ev("WIFI_CONNECTTED") <=> i = k
        BY <3>1 DEF QueuedOnce
      <4>2. Set = {k} BY <4>1
      <4> QED BY <4>2
    <3> QED BY <3>1, FS_Singleton
  <2> QED BY <1>1, <2>1, <2>2, <2>3 DEF SInv, PostedOnce, ServicesStartOnce, Proven
<1> QED BY <1>1, ServicesInvariance, PTL
=============================================================================
