--------------------------- MODULE WifiProvision ---------------------------
(***************************************************************************)
(* Bringing the device onto a Wi-Fi network: main/blynk.c's handler_task   *)
(* polling common/app_config, which runs a smartconfig session             *)
(* (common/smart_config) to learn credentials and a connect session        *)
(* (common/connec_wifi) to use them.                                       *)
(*                                                                         *)
(* Three parties run concurrently:                                         *)
(*   - handler_task, at program counter pc;                                *)
(*   - the task of the default event loop, at epc, which calls the         *)
(*     registered handlers one event at a time.  The loop's mutex is held  *)
(*     for the whole dispatch and is needed to (un)register a handler;     *)
(*   - the Wi-Fi driver with the radio, the phone and the access point     *)
(*     behind it.  The driver is not part of the repository: it is         *)
(*     modelled from how the code uses it.                                 *)
(* provision_type is PROVISITION_SMARTCONFIG, the one app_config_init sets.*)
(* Events no handler has a branch for (STA_STOP, STA_CONNECTED, SCAN_DONE, *)
(* FOUND_CHANNEL) are left out.                                            *)
(*                                                                         *)
(* A definition A_B stands before the definition A it is a wrong version   *)
(* of; no action uses it.  TLC must reject the specification with A_B in   *)
(* the place of A, which shows that the properties can tell them apart.    *)
(***************************************************************************)
EXTENDS Naturals, Sequences, FiniteSets

CONSTANTS
  Creds,         \* the credentials a phone may send
  GoodCreds,     \* those of them the access point accepts
  TimeErr,       \* wifi_connect_iot's time_out (3 in connect_wifi)
  QueueSize,     \* length of the default event loop's queue
  RestartPosts,  \* may esp_wifi_start post STA_START when already started?
  Faults         \* are power cycles and a failing esp_wifi_init considered?

Empty   == "empty"    \* ssid[0] == 0
SsidErr == "ssiderr"  \* sample_err

ASSUME ConstantsAssumption ==
  /\ GoodCreds \subseteq Creds
  /\ Empty \notin Creds /\ SsidErr \notin Creds
  /\ TimeErr \in 0..255
  /\ QueueSize \in Nat \ {0}
  /\ RestartPosts \in SUBSET BOOLEAN /\ RestartPosts # {}
  /\ Faults \in BOOLEAN

VARIABLES
  \* app_config: info_config_wifi and the copy of it the driver keeps in flash
  status, sta, blockInit, cred, nvs,
  \* handler_task, and what wifi_connect_iot's wait returned
  pc, result,
  \* event loop: queue, registered handlers, its task and the event in hand
  evq, regs, epc, cur,
  \* event groups of smart_config ("sc") and wifi_iot ("wifi")
  grp, bits,
  \* wifi_iot's s_retry_num
  retry,
  \* driver
  inited, started, link, sc,
  \* otadrive_event_handler: how often the services were started (at most 2 counted)
  services,
  \* history: connection attempts of this connect session, an IP was obtained
  attempts, hadIp

appVars == <<status, sta, blockInit, cred, nvs>>
taskVars == <<pc, result>>
loopVars == <<evq, regs, epc, cur>>
grpVars == <<grp, bits>>
drvVars == <<inited, started, link, sc>>
histVars == <<services, attempts, hadIp>>
vars == <<appVars, taskVars, loopVars, grpVars, retry, drvVars, histVars>>

Groups == {"sc", "wifi"}
Handlers == {"sc_wifi", "sc_sc", "wifi_any", "wifi_ip"}

\* Events of the default loop; only GOT_SSID carries data.
Ev(id) == <<id, Empty>>
GotSsid(c) == <<"GOT_SSID", c>>
Event == {Ev(id) : id \in {"STA_START", "DISCONNECTED", "GOT_IP", "ACK_DONE",
                           "WIFI_CONNECTTED"}}
         \cup {GotSsid(c) : c \in Creds}

ScPc == {"sc_create", "sc_reg_wifi", "sc_reg_sc", "sc_start", "sc_wait",
         "sc_unreg_wifi", "sc_unreg_sc", "sc_delete"}
CwPc == {"cw_create", "cw_reg_any", "cw_reg_ip", "cw_stop", "cw_config", "cw_start",
         "cw_wait", "cw_unreg_ip", "cw_unreg_any", "cw_delete", "cw_return", "cw_posted"}
----------------------------------------------------------------------------
(* The event loop's queue.  A post waits (portMAX_DELAY) for room.         *)

Room(n) == Len(evq) + n <= QueueSize
Post(e) == Room(1) /\ evq' = Append(evq, e)

\* The loop's mutex is free between dispatches.
MutexFree == epc = "idle"

Init ==
  /\ status = "SELECT" /\ sta = 1 /\ blockInit = 1 /\ cred = Empty
  /\ nvs \in Creds \cup {Empty}
  /\ pc = "poll" /\ result = "none"
  /\ evq = <<>> /\ regs = {} /\ epc = "idle" /\ cur = Ev("STA_START")
  /\ grp = [g \in Groups |-> "none"] /\ bits = [g \in Groups |-> {}]
  /\ retry = 0
  /\ inited = FALSE /\ started = FALSE /\ link = "idle" /\ sc = "off"
  /\ services = 0 /\ attempts = 0 /\ hadIp = FALSE

\* Power cycle, esp_restart, or a failed ESP_ERROR_CHECK: only flash survives.
Restart ==
  /\ status' = "SELECT" /\ sta' = 1 /\ blockInit' = 1 /\ cred' = Empty /\ nvs' = nvs
  /\ pc' = "poll" /\ result' = "none"
  /\ evq' = <<>> /\ regs' = {} /\ epc' = "idle" /\ cur' = Ev("STA_START")
  /\ grp' = [g \in Groups |-> "none"] /\ bits' = [g \in Groups |-> {}]
  /\ retry' = 0
  /\ inited' = FALSE /\ started' = FALSE /\ link' = "idle" /\ sc' = "off"
  /\ services' = 0 /\ attempts' = 0 /\ hadIp' = FALSE

Reboot == Faults /\ Restart
----------------------------------------------------------------------------
(* app_config.c, called by handler_task every 200 ms                       *)

NotProvisioned_EmptyOnly(c) == c = Empty
NotProvisioned(c) == c \in {Empty, SsidErr}

\* The outcome of is_provisioned's first call of wifi_init: the credentials
\* found in flash, or nothing when esp_wifi_init fails.
WifiInit ==
  \/ blockInit = 0 /\ UNCHANGED <<blockInit, cred, inited>>
  \/ blockInit = 1 /\ blockInit' = 0 /\ cred' = nvs /\ inited' = TRUE
  \/ blockInit = 1 /\ blockInit' = 0 /\ cred' = cred /\ inited' = FALSE /\ Faults

\* handle_connect_wifi in SELECTTION_MODE_CONNECT: app_config
AppConfig ==
  /\ pc = "poll" /\ status = "SELECT"
  /\ WifiInit
  /\ IF NotProvisioned(cred')
       THEN /\ sta = 1 /\ sta' = 0
            /\ pc' = "sc_create" /\ status' = status
       ELSE /\ status' = "CONNECT"
            /\ UNCHANGED <<sta, pc>>
  /\ UNCHANGED <<nvs, result, loopVars, grpVars, retry, started, link, sc, histVars>>

\* handle_connect_wifi in CONNECT_WIFI: connect_wifi calls wifi_connect_iot
ConnectWifi ==
  /\ pc = "poll" /\ status = "CONNECT"
  /\ pc' = "cw_create"
  /\ UNCHANGED <<appVars, result, loopVars, grpVars, retry, drvVars, histVars>>

\* connect_wifi after ESP_OK: post WIFI_CONNECTTED, then become NORMAL ...
ConnectWifiPost ==
  /\ pc = "cw_return" /\ result = "OK"
  /\ Post(Ev("WIFI_CONNECTTED"))
  /\ pc' = "cw_posted"
  /\ UNCHANGED <<appVars, result, regs, epc, cur, grpVars, retry, drvVars, histVars>>

ConnectWifiNormal_StaysConnect ==
  /\ pc = "cw_posted" /\ pc' = "poll"
  /\ UNCHANGED <<appVars, result, loopVars, grpVars, retry, drvVars, histVars>>

ConnectWifiNormal ==
  /\ pc = "cw_posted"
  /\ status' = "NORMAL" /\ pc' = "poll"
  /\ UNCHANGED <<sta, blockInit, cred, nvs, result, loopVars, grpVars, retry, drvVars, histVars>>

\* ... after ESP_FAIL: mark the credentials as wrong, ask for new ones.
ConnectWifiFailed_KeepsStatus ==
  /\ pc = "cw_return" /\ result = "FAIL"
  /\ cred' = SsidErr /\ sta' = 1
  /\ pc' = "poll"
  /\ UNCHANGED <<status, blockInit, nvs, result, loopVars, grpVars, retry, drvVars, histVars>>

ConnectWifiFailed_KeepsSta ==
  /\ pc = "cw_return" /\ result = "FAIL"
  /\ cred' = SsidErr /\ status' = "SELECT"
  /\ pc' = "poll"
  /\ UNCHANGED <<sta, blockInit, nvs, result, loopVars, grpVars, retry, drvVars, histVars>>

ConnectWifiFailed ==
  /\ pc = "cw_return" /\ result = "FAIL"
  /\ cred' = SsidErr /\ status' = "SELECT" /\ sta' = 1
  /\ pc' = "poll"
  /\ UNCHANGED <<blockInit, nvs, result, loopVars, grpVars, retry, drvVars, histVars>>
----------------------------------------------------------------------------
(* Steps that initialise_wifi and wifi_connect_iot have in common          *)

CreateGroup(g, from, to) ==
  /\ pc = from /\ pc' = to
  /\ grp' = [grp EXCEPT ![g] = "live"] /\ bits' = [bits EXCEPT ![g] = {}]

Register(h, from, to) ==
  /\ pc = from /\ MutexFree /\ pc' = to
  /\ regs' = regs \cup {h}
  /\ UNCHANGED <<appVars, result, evq, epc, cur, grpVars, retry, drvVars, histVars>>

Unregister(h, from, to) ==
  /\ pc = from /\ MutexFree /\ pc' = to
  /\ regs' = regs \ {h}
  /\ UNCHANGED <<appVars, result, evq, epc, cur, grpVars, retry, drvVars, histVars>>

DeleteGroup(g, from, to) ==
  /\ pc = from /\ pc' = to
  /\ grp' = [grp EXCEPT ![g] = "deleted"]
  /\ UNCHANGED <<appVars, result, loopVars, bits, retry, drvVars, histVars>>

\* esp_wifi_start (external): the first start posts STA_START; whether a start
\* of a started driver does is left to RestartPosts.
EspWifiStart(from, to) ==
  /\ pc = from /\ pc' = to
  /\ inited /\ started' = TRUE
  /\ \E again \in RestartPosts :
       IF ~started \/ again THEN Post(Ev("STA_START")) ELSE evq' = evq
  /\ UNCHANGED <<appVars, result, regs, epc, cur, grpVars, retry, inited, link, sc, histVars>>
----------------------------------------------------------------------------
(* smart_config.c: initialise_wifi                                         *)

ScCreate ==
  /\ CreateGroup("sc", "sc_create", "sc_reg_wifi")
  /\ UNCHANGED <<appVars, result, loopVars, retry, drvVars, histVars>>

ScRegister == \/ Register("sc_wifi", "sc_reg_wifi", "sc_reg_sc")
              \/ Register("sc_sc", "sc_reg_sc", "sc_start")

ScStart == EspWifiStart("sc_start", "sc_wait")

\* set_mode or start of a driver that never initialised: ESP_ERROR_CHECK aborts
ScStartAbort == pc = "sc_start" /\ ~inited /\ Restart

\* xEventGroupWaitBits(ESPTOUCH_DONE_BIT), clearing it, then esp_smartconfig_stop
ScWait ==
  /\ pc = "sc_wait" /\ "DONE" \in bits["sc"]
  /\ bits' = [bits EXCEPT !["sc"] = @ \ {"DONE"}]
  /\ sc' = "off"
  /\ pc' = "sc_unreg_wifi"
  /\ UNCHANGED <<appVars, result, loopVars, grp, retry, inited, started, link, histVars>>

ScUnregister == \/ Unregister("sc_wifi", "sc_unreg_wifi", "sc_unreg_sc")
                \/ Unregister("sc_sc", "sc_unreg_sc", "sc_delete")

ScDelete == DeleteGroup("sc", "sc_delete", "poll")
----------------------------------------------------------------------------
(* wifi_iot.c: wifi_connect_iot                                            *)

CwCreate ==
  /\ CreateGroup("wifi", "cw_create", "cw_reg_any")
  /\ attempts' = 0
  /\ UNCHANGED <<appVars, result, loopVars, retry, drvVars, services, hadIp>>

CwRegister == \/ Register("wifi_any", "cw_reg_any", "cw_reg_ip")
              \/ Register("wifi_ip", "cw_reg_ip", "cw_stop")

\* esp_wifi_stop: the driver leaves the network it is on
CwStop ==
  /\ pc = "cw_stop" /\ pc' = "cw_config"
  /\ started' = FALSE /\ link' = "idle"
  /\ IF link = "idle" THEN evq' = evq ELSE Post(Ev("DISCONNECTED"))
  /\ UNCHANGED <<appVars, result, regs, epc, cur, grpVars, retry, inited, sc, histVars>>

\* esp_wifi_set_mode, esp_wifi_set_config: the driver saves the credentials
CwConfig ==
  /\ pc = "cw_config" /\ pc' = "cw_start"
  /\ nvs' = cred
  /\ UNCHANGED <<status, sta, blockInit, cred, result, loopVars, grpVars, retry, drvVars, histVars>>

CwStart == EspWifiStart("cw_start", "cw_wait")

\* xEventGroupWaitBits(CONNECTED | FAIL) with clear-on-exit; CONNECTED is tested first
CwWait ==
  /\ pc = "cw_wait" /\ bits["wifi"] # {}
  /\ result' = IF "CONNECTED" \in bits["wifi"] THEN "OK" ELSE "FAIL"
  /\ bits' = [bits EXCEPT !["wifi"] = {}]
  /\ pc' = "cw_unreg_ip"
  /\ UNCHANGED <<appVars, loopVars, grp, retry, drvVars, histVars>>

CwUnregister_IpOnly == Unregister("wifi_ip", "cw_unreg_ip", "cw_delete")

CwUnregister == \/ Unregister("wifi_ip", "cw_unreg_ip", "cw_unreg_any")
                \/ Unregister("wifi_any", "cw_unreg_any", "cw_delete")

CwDelete == DeleteGroup("wifi", "cw_delete", "cw_return")

HandlerTask ==
  \/ AppConfig \/ ConnectWifi \/ ConnectWifiPost \/ ConnectWifiNormal \/ ConnectWifiFailed
  \/ ScCreate \/ ScRegister \/ ScStart \/ ScStartAbort \/ ScWait \/ ScUnregister \/ ScDelete
  \/ CwCreate \/ CwRegister \/ CwStop \/ CwConfig \/ CwStart \/ CwWait \/ CwUnregister \/ CwDelete
----------------------------------------------------------------------------
(* The event loop's task                                                   *)

EvTake ==
  /\ epc = "idle" /\ evq # <<>>
  /\ cur' = Head(evq) /\ evq' = Tail(evq) /\ epc' = "run"
  /\ UNCHANGED <<appVars, taskVars, regs, grpVars, retry, drvVars, histVars>>

Handling(id, h) == epc = "run" /\ cur[1] = id /\ h \in regs

SetBit(g, b) == bits' = [bits EXCEPT ![g] = @ \cup {b}]

\* esp_wifi_connect (external): begins an attempt when the station is idle
Connects == started /\ link = "idle"
CountAttempt == attempts' = IF attempts <= TimeErr + 1 THEN attempts + 1 ELSE attempts

\* wifi_iot event_handler, STA_START: esp_wifi_disconnect, esp_wifi_connect
WifiOnStart ==
  /\ Handling("STA_START", "wifi_any") /\ epc' = "idle"
  /\ IF link = "idle" THEN evq' = evq ELSE Post(Ev("DISCONNECTED"))
  /\ link' = IF started THEN "connecting" ELSE "idle"
  /\ CountAttempt
  /\ UNCHANGED <<appVars, taskVars, regs, cur, grpVars, retry, inited, started, sc, services, hadIp>>

\* wifi_iot event_handler, STA_DISCONNECTED: retry, or give up
MayRetry_OneMore == retry <= TimeErr
MayRetry == retry < TimeErr

GiveUp_Silent == UNCHANGED <<bits, link, retry, attempts>>
GiveUp == SetBit("wifi", "FAIL") /\ UNCHANGED <<link, retry, attempts>>

WifiOnDisconnected ==
  /\ Handling("DISCONNECTED", "wifi_any") /\ epc' = "idle"
  /\ \/ /\ MayRetry
        /\ link' = IF Connects THEN "connecting" ELSE link
        /\ retry' = retry + 1
        /\ CountAttempt
        /\ bits' = bits
     \/ ~MayRetry /\ GiveUp
  /\ UNCHANGED <<appVars, taskVars, evq, regs, cur, grp, inited, started, sc, services, hadIp>>

\* wifi_iot event_handler, GOT_IP
WifiOnGotIp ==
  /\ Handling("GOT_IP", "wifi_ip") /\ epc' = "idle"
  /\ retry' = 0
  /\ SetBit("wifi", "CONNECTED")
  /\ UNCHANGED <<appVars, taskVars, evq, regs, cur, grp, drvVars, histVars>>

\* smart_config event_handler, STA_START: esp_smartconfig_start
ScOnStart ==
  /\ Handling("STA_START", "sc_wifi") /\ sc = "off" /\ epc' = "idle"
  /\ sc' = "listening"
  /\ UNCHANGED <<appVars, taskVars, evq, regs, cur, grpVars, retry, inited, started, link, histVars>>

\* smart_config event_handler, GOT_SSID_PSWD: bzero the configuration, copy
\* the credentials into it, set the bit
ScOnGotSsid ==
  \/ /\ Handling("GOT_SSID", "sc_sc") /\ epc' = "zeroed"
     /\ cred' = Empty
     /\ UNCHANGED bits
  \/ /\ epc = "zeroed" /\ epc' = "copied"
     /\ cred' = cur[2]
     /\ UNCHANGED bits
  \/ /\ epc = "copied" /\ epc' = "idle"
     /\ SetBit("sc", "DONE")
     /\ UNCHANGED cred

ScOnGotSsidStep ==
  /\ ScOnGotSsid
  /\ UNCHANGED <<status, sta, blockInit, nvs, taskVars, evq, regs, cur, grp, retry, drvVars, histVars>>

\* smart_config event_handler, SEND_ACK_DONE
ScOnAckDone ==
  /\ Handling("ACK_DONE", "sc_sc") /\ epc' = "idle"
  /\ SetBit("sc", "DONE")
  /\ UNCHANGED <<appVars, taskVars, evq, regs, cur, grp, retry, drvVars, histVars>>

\* otadrive_event_handler, WIFI_CONNECTTED: create the OTA task, mqtt_app_init
OnWifiConnected ==
  /\ epc = "run" /\ cur[1] = "WIFI_CONNECTTED" /\ epc' = "idle"
  /\ services' = IF services < 2 THEN services + 1 ELSE services
  /\ UNCHANGED <<appVars, taskVars, evq, regs, cur, grpVars, retry, drvVars, attempts, hadIp>>

\* An event none of whose handlers is registered is dropped.
HandlersOf(id) ==
  CASE id = "STA_START" -> {"sc_wifi", "wifi_any"}
    [] id = "DISCONNECTED" -> {"wifi_any"}
    [] id = "GOT_IP" -> {"wifi_ip"}
    [] OTHER -> {"sc_sc"}

EvDrop ==
  /\ epc = "run" /\ cur[1] # "WIFI_CONNECTTED" /\ HandlersOf(cur[1]) \cap regs = {}
  /\ epc' = "idle"
  /\ UNCHANGED <<appVars, taskVars, evq, regs, cur, grpVars, retry, drvVars, histVars>>

EventTask ==
  \/ EvTake \/ EvDrop \/ OnWifiConnected
  \/ WifiOnStart \/ WifiOnDisconnected \/ WifiOnGotIp
  \/ ScOnStart \/ ScOnGotSsidStep \/ ScOnAckDone
----------------------------------------------------------------------------
(* The driver (external)                                                   *)

\* The access point accepts the station (only with good credentials) ...
Associate ==
  /\ link = "connecting" /\ nvs \in GoodCreds
  /\ link' = "assoc"
  /\ UNCHANGED <<appVars, taskVars, loopVars, grpVars, retry, inited, started, sc, histVars>>

\* ... and DHCP gives it an address;
DhcpBound ==
  /\ link = "assoc" /\ Post(Ev("GOT_IP"))
  /\ link' = "up" /\ hadIp' = TRUE
  /\ UNCHANGED <<appVars, taskVars, regs, epc, cur, grpVars, retry, inited, started, sc, services, attempts>>

\* or the attempt fails, or an established link is lost.
LinkDown ==
  /\ link # "idle" /\ Post(Ev("DISCONNECTED"))
  /\ link' = "idle"
  /\ UNCHANGED <<appVars, taskVars, regs, epc, cur, grpVars, retry, inited, started, sc, histVars>>

\* smartconfig hears the phone, then acknowledges to it.
PhoneSends(c) ==
  /\ sc = "listening" /\ Post(GotSsid(c))
  /\ sc' = "acking"
  /\ UNCHANGED <<appVars, taskVars, regs, epc, cur, grpVars, retry, inited, started, link, histVars>>

AckSent ==
  /\ sc = "acking" /\ Post(Ev("ACK_DONE"))
  /\ sc' = "done"
  /\ UNCHANGED <<appVars, taskVars, regs, epc, cur, grpVars, retry, inited, started, link, histVars>>

Driver == Associate \/ DhcpBound \/ LinkDown \/ (\E c \in Creds : PhoneSends(c)) \/ AckSent

Next == HandlerTask \/ EventTask \/ Driver \/ Reboot

Spec == Init /\ [][Next]_vars
----------------------------------------------------------------------------
\* Every variable has its type: the event queue stays within its length and
\* s_retry_num within time_err.
TypeOK ==
  /\ status \in {"SELECT", "CONNECT", "NORMAL"} /\ sta \in 0..1 /\ blockInit \in 0..1
  /\ cred \in Creds \cup {Empty, SsidErr} /\ nvs \in Creds \cup {Empty, SsidErr}
  /\ pc \in {"poll"} \cup ScPc \cup CwPc /\ result \in {"none", "OK", "FAIL"}
  /\ evq \in Seq(Event) /\ Len(evq) <= QueueSize
  /\ regs \subseteq Handlers /\ cur \in Event
  /\ epc \in {"idle", "run", "zeroed", "copied"}
  /\ grp \in [Groups -> {"none", "live", "deleted"}]
  /\ bits \in [Groups -> SUBSET {"CONNECTED", "FAIL", "DONE"}]
  /\ retry \in 0..TimeErr
  /\ inited \in BOOLEAN /\ started \in BOOLEAN
  /\ link \in {"idle", "connecting", "assoc", "up"}
  /\ sc \in {"off", "listening", "acking", "done"}
  /\ services \in 0..2 /\ attempts \in 0..(TimeErr + 2) /\ hadIp \in BOOLEAN

(***************************************************************************)
(* Safety                                                                  *)
(***************************************************************************)
\* The event task is inside a handler that ends by setting a bit of group g.
SettingBits(g) ==
  CASE g = "wifi" -> Handling("DISCONNECTED", "wifi_any") \/ Handling("GOT_IP", "wifi_ip")
    [] g = "sc"   -> \/ Handling("ACK_DONE", "sc_sc") \/ Handling("GOT_SSID", "sc_sc")
                     \/ epc \in {"zeroed", "copied"}

\* No event handler touches an event group that its session has deleted or not
\* yet created: s_wifi_event_group dangles between two sessions (wifi_iot.c:108,
\* smart_config.c:104), and what keeps a late event off it is that both
\* handlers are gone, and not running, before vEventGroupDelete.
NoUseAfterDelete == \A g \in Groups : SettingBits(g) => grp[g] = "live"

\* During a whole connect session the credentials are complete, real ones and
\* nobody is writing them: wifi_connect_iot reads info_config_wifi unlocked
\* (wifi_iot.c:88) while the smartconfig handler writes it from another task.
CredentialsWhole ==
  pc \in CwPc => cred \in Creds /\ epc \notin {"zeroed", "copied"}

\* "ssiderr" is only a mark in RAM: it is never saved as the network to join
\* after the next boot (esp_wifi_set_config, wifi_iot.c:88).
MarkNeverSaved == nvs # SsidErr

\* WIFI_CONNECTTED events not yet handled
Announced == Cardinality({i \in 1..Len(evq) : evq[i] = Ev("WIFI_CONNECTTED")})
             + (IF epc = "run" /\ cur = Ev("WIFI_CONNECTTED") THEN 1 ELSE 0)

\* The OTA task and the MQTT client are created at most once per boot
\* (main/blynk.c:63-67 has no guard of its own), and only after the station
\* obtained an address with credentials that are in flash.
ServicesStartOnce ==
  /\ services + Announced <= 1
  /\ services + Announced = 1 => hadIp /\ nvs \in GoodCreds

\* wifi_iot.c:19-21 and 93-94: the fail bit means that the connection failed
\* after the maximum number of retries.
FailAfterMaxRetries ==
  (pc = "cw_wait" /\ bits["wifi"] = {"FAIL"}) => attempts > TimeErr

(***************************************************************************)
(* Liveness.  The two tasks are scheduled (handler_task every 200 ms, the  *)
(* event task whenever its queue is not empty); handler_task gets the      *)
(* loop's mutex in one of the long gaps between events (hence strong       *)
(* fairness); an attempt ends; DHCP                                        *)
(* answers or the link drops; the phone keeps sending, sometimes good      *)
(* credentials, and good credentials sometimes get through.                *)
(***************************************************************************)
TaskFairness == SF_vars(HandlerTask) /\ WF_vars(EventTask)
LinkFairness == WF_vars(Associate \/ DhcpBound \/ LinkDown)
LuckyFairness ==
  /\ SF_vars(\E c \in GoodCreds : PhoneSends(c))
  /\ SF_vars(Associate) /\ SF_vars(DhcpBound)

FairSpec == Spec /\ TaskFairness /\ LinkFairness
LuckySpec == FairSpec /\ LuckyFairness

\* wifi_connect_iot's wait without time-out (wifi_iot.c:95-99) always ends.
ConnectSessionEnds == pc = "cw_wait" ~> pc = "poll"

\* handler_task waits for a smartconfig that no event will start any more: the
\* driver did not announce that it was started a second time.
Unannounced == pc = "sc_wait" /\ sc = "off" /\ evq = <<>> /\ epc = "idle"

\* Wrong credentials are not the end: unless the device is restarted again and
\* again, or the driver keeps a second start to itself (smart_config.c:39 calls
\* esp_smartconfig_start only on STA_START), it comes back for new ones
\* (app_config.c:44-50) until its services run, and they stay.
EventuallyServes ==
  []<><<Restart>>_vars \/ <>[](services = 1) \/ <>[]Unannounced
=============================================================================
