# Verification of control_fan

The repository is the firmware of an ESP32 device on ESP-IDF and FreeRTOS. `main/blynk.c` starts a
task that brings the device onto a Wi-Fi network; once it has an address an event starts an OTA
client, which looks for new firmware every 15 minutes, and an MQTT client, whose messages switch an
output. `common/` holds the components this is made of, and some that are not used yet. A few are
the project's own code, others are copies of ESP-IDF components, two of them large: `nvs_flash` and
`wpa_supplicant`.

This directory models the parts in which several tasks, events, time and failures meet: TLA+
modules, TLC configurations for small instances, and TLAPS proofs for every instance.
`PROJECT.json` lists components, runs, hazards and theorems, and maps each definition to the source
lines it models.

## Inventory

### The parts app_main uses

| Part | State | Operations | Interacts with |
|---|---|---|---|
| `app_config` | `info_config_wifi` (status, `sta`, `block_init`, credentials) | `handle_connect_wifi` and below it `app_config`, `connect_wifi`, `wifi_init` | called by `handler_task` every 200 ms; calls the two session functions below; posts `WIFI_CONNECTTED` |
| `connec_wifi` | event group, `s_retry_num`, `time_err` | `wifi_connect_iot` (handler task), `event_handler` (event task) | Wi-Fi driver, default event loop |
| `smart_config` | event group, pointer to the credentials | `initialise_wifi` (handler task), `event_handler` (event task) | esp_smartconfig, default event loop; writes app_config's credentials |
| `main` | none of its own | `handler_task`, `otadrive_test` (tasks), `otadrive_event_handler`, `mqtt_even` (event task), `url_data` (MQTT task) | everything |
| `ota_driver` | `otadrv_lock`, static `size` and `lock`, loop counters | check, update | HTTP server, `esp_https_ota`, event loop |
| `esp_https_ota` | handle: state, `binary_file_len`, buffer | begin, get_img_desc, perform, finish | HTTP client, `app_update` |
| `app_update` | two slots and two otadata sectors in flash | begin, write, end, set_boot_partition | flash, bootloader |
| `mqtt_app` | client handle, data callback | `mqtt_event_handler`, subscribe, publish | esp-mqtt, event loop |
| `esp-mqtt` | state, `api_lock`, outbox, `pending_msg_count`, ping flag, input buffer | `esp_mqtt_task`, subscribe, publish | broker; calls `mqtt_event_handler` with the lock held |
| `output_iot` | GPIO level | set, toggle | called by `url_data` |

Four tasks run: `handler_task`, the task of the default event loop, `otadrive_test` and the MQTT
task. They meet in the default event loop: every one of them posts to it with `portMAX_DELAY`, and
what its task does while it runs a handler (wait for `api_lock`, for instance) holds up all of them.

### The parts underneath

The Wi-Fi driver calls `wpa_supplicant`, and it keeps its configuration in `nvs_flash`.

| Part | State | Operations | Interacts with |
|---|---|---|---|
| `nvs_flash` | pages of entries in flash, list of pages, hash lists | set, erase, erase all, init after a loss of power | flash; every component that saves something |
| 4-way handshake (`rsn_supp/wpa.c`, `ap/wpa_auth.c`) | the station's and the authenticator's state machine, keys, replay counters, timers | EAPOL frames, transmit callbacks, time-outs, associations, Michael errors | driver, the other side |
| WPS task (`esp_wps.c`) | signals with a count each, receive queue, five timers | enable, start, disable, the task's signals | application, driver, the enrollee below |
| WPS registration (`wps_enrollee.c`, `wps_registrar.c`) | session of each side, PINs with locks, push-button monitor | M1 to Done, PINs, push button, probes | EAP transport, the other side |
| WPS messages (`wps_attr_*.c`, `wps_validate.c`) | none | build, parse, validate | both sides of the registration |
| DPP (`dpp.c`) | bootstrap table, authentication, configurators | three exchanges, connectors, introduction | a caller outside of this tree |
| TLS, X.509 (`tls/`) | connection of client and server, keys, partial input | handshake, data, alerts, tickets, path validation | EAP peer |
| EAP peer (`esp_wpa2.c`, `eap_peer/`) | EAP state machine, method data, fragments, PACs | request, success, failure, new password | wpa2 task, driver |
| SAE, PMKSA cache (`sae.c`, `esp_wpa3.c`, `pmksa_cache.c`) | exchange, token, cached keys, current key | commit, confirm, association, expiry | driver, handshake |
| big numbers (`tls/libtommath.h`, `bignum.c`, `rsa.c`) | numbers with their allocation | arithmetic up to RSA | TLS, without mbedTLS |

### The parts app_main does not use

`blynk` is a complete client with a task, a request queue, timers and reconnects, whose use in
`app_main` is commented out; it is the largest piece of the project's own code and is modelled.
Not modelled: `init_sofap` and `http_sever_sta` (provisioning through an access point and a
form, dead in this build because `provision_type` is always smartconfig), `app_ota`, `app_nvs`,
`input_iot`, `uart_iot`, `dht_iot`, `ws2812b`, `led_strip`, `ledc_app`, `touch_pad_app`,
`timer_tick`, `jSON_APP`, and the vendored `esp_http_client` and `log`.

### What is hard here, and what makes each part correct

- **Provisioning.** Handlers run in another task than the session they belong to, and events outlive
  sessions. Correct: no handler touches a deleted event group, a session reads credentials nobody is
  writing, the mark of wrong credentials never reaches flash, a session ends, the services start
  exactly once, and wrong credentials are not the end.
- **Update.** Power may fail between any two flash operations, every call may fail, and RAM state
  survives a failed attempt. Correct: always bootable, the running image untouched, the update atomic,
  the lock always returned, and the server's version reached in the end.
- **MQTT.** Three tasks share a lock that is held across blocking posts; connections are lost at any
  moment, peers fall silent, ids are random. Correct: nothing leaves the outbox unacknowledged, the
  event task always gets on, and both topics end up subscribed.
- **Blynk.** Queue and wake-up are separate objects, a check and its act are separated, ids wrap,
  queues fill up. Correct: callbacks at most once, no lost wake-up, no message before the login but
  what was already under way, logins and requests decided.

- **NVS.** A call is many flash operations, and power may fail before, between and within any two.
  Correct: a start finds the old value or the new one, everything else as it was, each item once, and
  a page free to move items into.
- **Handshakes.** Both sides have timers and retry; frames are lost, transmit callbacks come late, and
  keys change while others are in use. Correct: finished sides hold the same key, no key is
  installed for sending twice, a handshake ends.
- **WPS.** Signals are counted apart from the queue they announce; two enrollees and two methods
  compete. Correct: no frame forgotten, every start reported, one push admits one enrollee, a PIN is
  tried once, a reported success is one, and each message built is one that is accepted.
- **DPP, TLS, EAP, SAE.** Exchanges with state across messages that are lost, repeated, late or
  altered. Correct: sides that say they are done agree on what they agreed on, and each has checked
  the other.

The list `hazards` of `PROJECT.json` gives each of these with its line, and says which property
covers it or why none does.

## Modules

| Module | Models | Checked by | Proved in |
|---|---|---|---|
| `WifiProvision` | app_config, connec_wifi, smart_config, handler_task, otadrive_event_handler | `MCWifiProvision` | `WifiProvisionProofs` |
| `OtaUpdate` | otadrive_test, ota_driver, esp_https_ota, app_update; implements `AtomicUpdate` | `MCOtaUpdate` | `OtaUpdateProofs` |
| `AtomicUpdate` | what an update promises: one whole firmware installed at any time, replaced in one step | through `OtaUpdate` | `OtaUpdateProofs` |
| `MqttApp` | mqtt_app, mqtt_even, esp_mqtt_task with its lock and outbox | `MCMqttApp` | `MqttAppProofs` |
| `Downlink` | deliver_publish's buffer, url_data, the output | itself | |
| `BlynkClient` | the Blynk client task and its callers | `MCBlynkClient` | `BlynkClientProofs` |
| `NvsStorage` | pages, page manager and storage of nvs_flash; implements `KvStore` | `MCNvsStorage` | |
| `KvStore` | what NVS promises: pairs changed in one step each, kept through a loss of power | through `NvsStorage` | |
| `WpaHandshake` | the 4-way and the group handshake, both sides | `MCLink` | `WpaHandshakeProofs` |
| `WpsTask` | wps_task, its queues, timers and API | `MCLink` | `WpsTaskProofs` |
| `WpsRegistration` | enrollee and registrar, M1 to Done, push button and PINs | `MCWps` | `WpsRegistrationProofs` |
| `WpsMessages` | builders, parser and validators of WPS messages | `MCWps` | |
| `BigNum` | libtommath, bignum, RSA | `MCWps` | |
| `DppConnector`, `DppExchange` | data of DPP, and its exchanges | `MCSupplicant` | `DppExchangeProofs` |
| `TlsHandshake`, `X509Chain` | TLS client and server, and certificate paths | `MCSupplicant` | |
| `EapPeer` | EAP state machine and the methods TLS, PEAP, TTLS, FAST | `MCSupplicant` | |
| `SaeAuth`, `PmksaCache` | WPA3 authentication and the cache of its keys | `MCSupplicant` | |

`MCLink`, `MCWps` and `MCSupplicant` put several components into one run. They do not interact in the
code: a behaviour is about the one the variable `method` names, and the others stand still.

A definition named `A_B` stands before the definition `A` it is a wrong version of, and no action
uses it. With `A_B` in the place of `A`, TLC must find the property named in `mutants` violated:
every property is known to be able to fail.

### WifiProvision

`pc` is where `handler_task` is (`poll`, or inside one of the two session functions), `epc` where
the event task is. `evq` is the default loop's queue and `regs` the handlers registered with it. A
dispatch holds the loop's mutex, which registering and unregistering need, and which is what makes
deletion after unregistering safe. `status`, `sta`, `blockInit`, `cred` are the fields of
`info_config_wifi`; `nvs` is what the driver saved. smartconfig's handler clears and copies the
credentials in two steps (`zeroed`, `copied`). The driver (`link`, `sc`, `started`) is external:
attempts succeed only with good credentials, links go down at any time, the phone sends any
credentials. Whether `esp_wifi_start` posts `STA_START` when already started is left open
(`RestartPosts`): the run checks both. `Reboot` may happen at any step.

### OtaUpdate

One task, the flash, the server and the power. `pc` follows `otadrive_updateFirmware`: `perform` is a
call of `esp_https_ota_perform`, `book` the rest of the loop's body. Flash is the contents of two
slots (which version, how many units of it, intact or not) and the `ota_seq` of two sectors, 0 when
erased; erase and write are separate steps and power may fail between any two. `calm` starts FALSE:
anything outside may fail. `Settle` ends that, so that "once nothing fails any more" can be said.

The model keeps what the code really does: the header is counted twice in `binary_file_len`, the
length is read once per boot into a static variable, a length of 0 makes the progress computation
trap (the device restarts, and recovers), a failed write of otadata is not reported.

### MqttApp and Downlink

Three tasks: the MQTT task, the event task running `mqtt_even`, and a task that publishes once. An
operation under `api_lock` is one step, but it is cut at each post to the event loop, where it may
block with the lock held. `mpc`/`ev`/`cont` is where the MQTT task is, the event it is about to post
and where it goes on. The broker is external: a packet written to a live connection arrives and is
answered, or the connection is lost with it; a dead peer takes packets until its buffers are full; a
reset one fails every read and write. Retransmissions and pings are actions whose conditions are the
order of time-outs in the code: an item is written again every second and each write postpones the
ping by half of the keep-alive time, so a ping is due only when no item waits or a write has just
failed.

A message is `msg_read_len` and `msg_total_len` in `MqttApp`; every read of up to `BufferSize` bytes
posts an event. A read error is -1 in a `size_t` (`mqtt_client.c:954`): the test for `<= 0` does not
see it, it is posted like a part and takes one from `msg_read_len`, until that wraps below 0, the
message counts as complete and the write of the PUBACK ends the connection. `SizeMax` stands for the
largest `size_t`. `Wedged` names the deadlock of a long delivery: the MQTT task holds `api_lock` and
waits for a place in a queue full of data events, while the event task waits for `api_lock` in
`mqtt_even`. `mqtt_wedge` shows that it happens, `EventTaskProceeds` that there is no other way for
`mqtt_even` not to end, and the other liveness properties are about the behaviours without it. What
the bytes of a message do is in `Downlink`: the payload bytes the buffer holds, what earlier messages
left there, and the level `atoi` of them gives the output.

### BlynkClient

The client task at `tpc`, other tasks calling `blynk_start` and `blynk_send_with_callback` (split
into check, queue, wake, as in the code), the control queue and the control socket, the table of
awaited answers with the wrap of the 16-bit id (`MaxId` stands for 65535) and the entries filled with
9 it produces. Time is abstract: a timer that was set may expire at any later moment. The server may
answer any id with any status, or fall silent. Messages are whole; parsing is left out. So is the
public `blynk_send_response` (`blynk_iot.c:1246-1251`), which queues a response in any state and which
nothing in the tree calls.

### NvsStorage

A page is a state and a list of entries, each empty, written or erased, with the item that starts
there; a key's value may take one entry, several, or be a blob in chunks on several pages with an
index. A call runs under the library's lock and depends on the flash alone, so it is computed when
it starts as the list of its flash operations, which are then steps of their own: power may fail
before, between and within them, and the next start runs `Page::load`, `PageManager::load` and the
clean-ups of `Storage::init` over what is there. A torn erase of a page is taken to leave it
corrupt.

A blob whose update fails for lack of space is a weak spot of the code. The comment at
`nvs_storage.cpp:248` says that the written chunks are erased, but line 251 erases those numbered from
0 although the call wrote those of the version that starts at 128: chunks stay behind (`residue`), and
with the version the other way round those of the old value are gone. A start of the device erases
what stayed behind. When the application instead sets the same blob again, as
`test_nvs.cpp:2236-2239` goes on writing, the left-over chunk is found before the new one and the set
returns `ESP_OK` although another value, or none, is read back (`spoilt`). `KvStore` promises nothing of
such a blob (`void`), and `Acknowledged` excepts it; both say that every other pair stays right beside
it, through further sets, moved pages and losses of power. Without the exception TLC finds the case
with four sets and no loss of power. Namespaces, handles, iterators and encryption are left out.

### WpaHandshake

`sta` is the `gWpaSm` of the station with the keys of its driver, `ap` the authenticator's state
machine for it, `gtk` the generation of the group key. A PTK is the record of what it is derived
from and a MIC the PTK it was made with, so keys are equal exactly when both nonces and the PMK are.
Frames carry replay counter, key information and MIC; both directions lose frames, and the transmit
callbacks of the station come when they like. The authenticator retries and gives up as in
`wpa_auth.c`, with the window of replay counters it remembers. Configurations include a wrong
passphrase, an information element that differs from the one of the beacon, and one in 2/4 that
differs from the one of the association (`wpa_auth.c:739-752`). The rejection for lack of entropy
(`:709`) cannot happen in this build: `random_pool_ready()` is 1 (`crypto/random.h:25`).

The code does three more things the model shows and no property speaks of. A Michael error report
while the group handshake is open leaves the authenticator in `REKEYNEGOTIATING` without a timer
(`wpa_auth.c:2036`); the timer of the countermeasures overwrites the state of a later handshake
(`wpa.c:2309`); the callback of a 2/4 that comes late runs the remainder of 4/4 early
(`wpa.c:2388`). `HandshakeEnds` names the first as its exception.

### WpsTask

The task takes a signal, lowers its count and handles it, in steps of their own; the API calls wait
for it, the timers post to it, and the driver hands a frame over in two steps (queue it, post the
signal unless one is counted). The protocol is only as fine as the timers tell apart; a repeated
identifier, a fragment and a message to be ignored are results of their own (`NotTaken`). The results
of a scan are taken when it ends (`wps_parse_scan_result`). Left as they
are: `esp_wifi_wps_disable` leaves timers armed (`esp_wps.c:2159`, although `esp_wps.h:101` promises
to release everything); such a timer that fires on a freed session is followed no further.

### WpsRegistration, WpsMessages, BigNum

In `WpsRegistration` two enrollees each have an EAP exchange with the registrar of one access point.
Keys and hashes are symbolic; the PIN is its two halves, each known, guessed or not. The registrar
keeps PINs with their locks, the push-button monitor with the enrollees heard of, and the selected
method; its user presses, types and cancels at any time. Both lists are sets in the model: a new PIN goes
to the head of its list, which is the order of the ids, and a session that is added or seen again to the
head of the other, whose stale sessions are its tail. The registrar has no caller in this tree
and is driven through its public functions; the EAP server is external. Authorized MACs
(`wps_registrar.c:223`) and UPnP are left out. Two things the code does: the walk time after a
push is never armed when the timer's comment says so (`wps_registrar.c:979` against `:996`), and an
enrollee that was not configured and whose `WSC_Done` is lost holds a key the network does not accept
(`DoneMeansConfigured` is about a Done that arrives).

The keys are those of `wps_build_cred` branch by branch. An unconfigured access point makes a key for
the network; `wps_process_wsc_done` only tells the application (`cred_cb`), which installs it at a time of
its own (`CredentialInstalled`, external). A configured one hands out the network key, if it has one.
The other two branches send no key: where `psk_set` holds, an enrollee without a display is given a buffer
of 64 zeros instead of the PSK (`wps_registrar.c:1654`), and where there is no network key the random
key made for the station is registered through `new_psk_cb`, but the buffer copied into its credential is
never written (`:1664`, `:1678`), although `wps.h:659` says "If %NULL, Registrar will generate per-device PSK".
The second also happens between the first `WSC_Done` and the installation of its key. `Zeros` and
`Residue` stand for the two buffers, and `DoneMeansConfigured` names them as the only ways a success is
not usable.

`WpsMessages` is what goes into each message: sets of attributes with their lengths and the values a
validator looks at, as the builders write them, and what parser and validator make of them, in the
strict and in the default build, whose validators are stubs. `BigNum` is libtommath digit by digit,
with the digits above `used` that a number leaves behind, and RSA by the Chinese remainder theorem;
the digit `fast_s_mp_mul_digs` copies without having set it (`libtommath.h:2513`) is `junk`, any
digit. `mp_cmp_d` reads digit 0 of a number without digits, and X = 0 with P = 1 is left out.

### DppExchange and DppConnector

`dpp.c` has no caller in this tree, so the caller is the weakest its interface allows: it starts and
drops authentications, hands over every frame, scans codes, and asks for configurations; a frame that
was sent arrives at any time, any number of times, or never. `DppConnector` is the data: URIs, the
configurator's command and objects, connectors and the introduction of two devices. The model keeps
what the code does also where it looks unintended: a second Authentication Response overwrites key
and nonce before it is checked (`dpp.c:3079`), `response_pending` is never cleared (2642), so that a code scanned again makes another response or,
after a success, replaces the responder's protocol key before that response fails (2177), the second
object's length is that of the first (4098), `dpp_configuration_parse` searches the whole command
(3731), `dpp_bootstrap_del` frees an entry in use (6029), the own connector's expiry is not looked
at, and the result of the signature check is read the other way round than `crypto.h:922` defines it
(5085). Of a command for both roles only the access point's half takes the parameters (3593-3613): the
station's object has no SSID and no credentials. `ConfigUsable` excepts these objects (`LeftBare`) and
the run has such a command. `Init` takes only commands that parse: after one whose second object does
not, the halves are freed twice (3739-3743 and 3814-3817), and no behaviour is defined after that.
PKEX, channel lists and the parsing of attributes are left out.

### TlsHandshake and X509Chain

Client and server with all their states, joined by two streams of records; a stream is handed over a
few records at a time, and to the client also a part of one. An adversary in the middle may alter a
hello once. Secrets are symbolic. Configurations vary in versions, suites, certificates, anchors,
tickets and client authentication. `X509Chain` is the path validation against a declarative
definition of a valid path. As in the code: a second application record behind the server's Finished
overwrites the first (`tlsv1_client_read.c:955`), a record cut in two is an error to the server
(`tlsv1_server.c:138`), of two anchors with one name only the first is tried (`x509v3.c:1890`), and
after a shutdown the alert of the old connection is still there (`tls.h:229` against
`tlsv1_client.c:654`; the constant `ReuseFailed` leaves such a reuse out). ASN.1 and PEM are not
modelled, and session ids are not resumed.

### EapPeer

The EAP state machine with its methods against a server that keeps to the protocols, over a link that
loses requests and responses; TLS is its flights, cut into fragments, as the internal TLS of
`tls_internal.c` makes them. The default build has `crypto/tls_mbedtls.c` in its place, whose
`tls_connection_get_failed` always returns 0 (738-741): a failed handshake is no error there, and the
conversation ends by the server's failure or a timeout; that build is not modelled. The state outlives a connection
where the code's does: PACs, the allowed methods, the password to use next. As in the code: a
new password's length goes into `g_wpa_password_len` (`esp_wpa2.c:1138` against `esp_wpa2.h:119`),
PEAP takes phase 2 for successful after a failure TLV (`eap_peap.c:654`), a notification gets no
answer (`esp_wpa2.c:438`), a lost EAP-Success leaves the old method in place (`:663`), and a binary
PAC is never stored (`eap_fast_pac.c:767`).

### SaeAuth and PmksaCache

The station's exchange as the driver calls it, against access points that use the functions of
`sae.c` as its tests do: commit, token, confirm, late and repeated frames, a reflected commit. An
element is a vector over the password elements and hashes are injective. `PmksaCache` is the list of
cached keys with its timer and the current key of the state machine. As in the code: a late confirm
frees the exchange that runs (`esp_wpa3.c:218`), and the current key may be another access point's
(`wpa.c:2172`).

`g_sae_token` is a variable of its own: `wpa3_parse_token` only stores it, and the driver asks for the
commit that uses it in a later step (`CommitAgain`). When the exchange ends in between, by a timeout or
because a late commit is taken instead, `esp_wpa3_free_sae_data` (`esp_wpa3.c:119-131`) frees the data
and not the token. Every later `wpa3_build_sae_commit` then skips the preparation, `sae_write_commit`
finds `tmp` NULL (`sae.c:859`) and fails, until a restart. `TokenLeft` names that state and `Reconnects`
excepts it; without the exception TLC finds the station that never connects again.

The expiry callback runs in the timer's task and takes no lock (`pmksa_cache.c:507-516`). The model
splits it where another task can see a difference: an entry taken out of the list (`ExpireTakes`), freed
(`ExpireFrees`), the timer armed again (`ExpireEnds`), and the Wi-Fi task's calls come between these.
Each of those calls is one step: a race inside one walk over the list is not modelled. The branch of
`MakeRoom` for a current entry at the head of the list (`:181-190`) is not reached by these runs: the
station authenticates only when no entry is current, so none is when an entry is added.

## Runs

| Run | Shows | States |
|---|---|---|
| `wifi` | handlers, credentials and services safe under all interleavings, reboots and both kinds of driver; a connect session ends; a device given wrong credentials ends up serving | 7,637 |
| `wifi_retries` | *violated*: every session after a failed one has no retries | |
| `ota_update` | bootability, atomicity, the lock, progress | 83,704 |
| `mqtt_app` | outbox soundness; unless a long delivery fills the event queue, `mqtt_even` ends, both topics are subscribed, the message is delivered | 351,586 |
| `mqtt_wedge` | *violated*: a long message blocks the MQTT task and the event task for ever | |
| `downlink_off` | *violated*: "0" after "11" leaves the output on | |
| `blynk_safety` | callbacks, ids, sessions | 3,352,906 |
| `blynk_liveness` | wake-ups, logins, requests, stuck writes | 171,319 |
| `nvs_storage` | acknowledged values kept, `KvStore` implemented, blobs set again after a failed set excepted | 1,507,046 |
| `link` | keys agree and are installed once, handshakes end; WPS frames and starts | 1,081,357 |
| `wps` | push button and PINs, messages of 168 pairs of configurations, arithmetic | 1,820,100 |
| `supplicant` | DPP, TLS, EAP and SAE each agree | 1,000,479 |

The violated runs check what a comment or a document of the repository says, and `findings` quotes
the line.

### Disagreements met and not kept as runs

- `blynk_start` reports `DISCONNECTED` from its caller's task (`blynk_iot.c:1090`), while the comments
  at 164, 178 and 1113 say that the client task reports.
- `esp_https_ota_finish` returns `ESP_OK` when otadata could not be written (`esp_https_ota.c:360`
  against `esp_https_ota.h:130`).
- `deliver_publish` means to give up on a failed read (`mqtt_client.c:957`) but takes the error for
  data, once for every byte it has read before, as described above.
- Those named with their modules above: NVS's clean-up, the walk time, DPP's signature check, the
  stale alert of TLS, the keys of WPS that are not sent.

### Bounds, and why they are enough

- *Wi-Fi.* One good and one bad pair of credentials, since the code tells credentials apart only as
  empty, marked or real, and the access point as accepted or not. `TimeErr` = 3 is the code's value.
  The queue has 4 places: sessions post few events, and a shorter queue makes posts block more often.
  Reboots and sessions are not bounded.
- *OTA.* Two versions of different lengths and three changes of offer, so that both slots are
  written, overwritten and returned to, and otadata goes through empty, first and second sector and
  back. A read brings up to 150 units and an image takes two or four. Power failures, retries and
  failed attempts are not bounded.
- *MQTT.* One fault, one message from the broker in two or four parts, two ids (so that collisions
  happen), one packet in flight before a retransmission waits, an event queue of 6: four parts, or
  two and the read errors that follow them, fill it together with what else is posted, and without
  two data events in it the tasks never block each other. `mqtt_wedge` has no fault and a message of
  seven parts. The one fault may be any:
  a lost or silent connection, a failed write or connect, an expired item, at any step; after the
  reconnect the client is in a state the first connection also reaches, except for what its outbox
  still holds. Combinations of two faults are covered by the proofs, for safety only.
- *Blynk.* One caller, a queue of 2, two slots in the table, ids up to 3 so that they wrap within a
  session, a control socket that holds 2 datagrams. `blynk_liveness` uses one slot and no
  hardware messages.
- *NVS.* Three pages of four entries: two in use and the free one. Values of one entry and of two, and
  blobs over two pages, so that items move and blobs are split; four sets and one loss of power, or
  three and two, the second of which may hit the recovery from the first.
- *Handshake.* The counts of retries and the window are 2, the first value at which the first, a
  middle and the last attempt differ; two associations of an RSN pair, one of a WPA pair, two lost
  frames and two error reports.
- *WPS task.* One start, two frames and one scan that ignores the selected registrar. The task's state
  after a disable is the initial one, apart from timers; `FramesHandled` is for any number of starts.
- *WPS.* Two enrollees, one with a display, whose PINs share the first half, one try, push and PIN each;
  an access point with no key yet, configured or not. Further tries, pushes and PINs are the proofs'.
  `wps_registrar_unlock_pin` is called by M7 only: an application that unlocks a PIN asks for it to be
  tried again. Messages: all combinations of the flags a device's description depends on with one
  network, and of those a network's depends on, over six kinds of security, with one pair of devices;
  the two fill different attributes. Numbers: digits of 3 bits in words of 8, operands at the edges of their digits, in every combination.
- *DPP.* Three authentications, two scans, one request for a configuration, time 0 to 2; every pair of
  roles, curves and commands of each kind, one for both roles included.
- *TLS.* Two connections in a row, configurations that differ from a plain one in every pair of 20
  settings, chains of up to three of 12 certificates.
- *EAP.* 13 pairings of a station and a server, of every method, that fit or do not; two lost or
  repeated frames, two retransmissions, two conversations in a row.
- *SAE.* One station and three access points in nine settings (groups, passwords, identifiers, token,
  cached keys), with up to two faults, over a small curve and a small field; a cache of two
  entries, so that the third access point's makes one go.

`CHECK_DEADLOCK FALSE` is given where the system may stop: the Blynk task ends without options; a
long MQTT message may stop the MQTT task and the event task; without faults a provisioned
device has nothing left to do in `wifi_retries`; exchanges of `link`, `wps` and `supplicant` end.

### Fairness, and why the code justifies it

- Tasks are scheduled (weak fairness of each): FreeRTOS is preemptive and none of them spins, except
  where the model shows it.
- `handler_task` gets the loop's mutex between dispatches (strong fairness): events come in bursts
  with long gaps.
- The event task has priority 20 and the MQTT task 5, and a FreeRTOS mutex is handed to the waiter of
  highest priority, so the event task gets `api_lock` when it is released again and again (strong
  fairness of `Subscribe`).
- Retransmissions and pings come due (strong fairness): their deadlines pass.
- In `wifi` an attempt ends, DHCP answers or the link drops, and the phone now and then sends
  good credentials that get through. Without the last two no code could serve.
- In `ota_update` every call returns: the HTTP client has time-outs. The loop over the image header is
  the exception noted in the hazards.
- In `blynk_liveness` nothing is assumed of the server; what each property assumes of the network
  stands in the property.
- In `link` timers fire, frames in the air arrive or are lost, transmit callbacks come, and the WPS
  task and the driver's hand-over go on. Only finitely many frames are lost.

## Proofs

TLAPS proves the following for every value of the constants that satisfies the modules' assumptions,
which only say what type a constant has and that sizes are not 0.

**WifiProvisionProofs**: `TypeOK`, `NoUseAfterDelete`, `CredentialsWhole`, `MarkNeverSaved`, for any
credentials, queue length and retry limit. The invariant adds to `TypeOK`: handlers are registered
only within their session (`RegisteredInSession`), a session's group is live between creation and
deletion (`GroupsLive`), the event task writes credentials only while smartconfig's handler is
registered (`WriterRegistered`), and status, credentials and `pc` agree (`StatusMatches`). The
last is what keeps the mark out of flash: a connect session is entered only with real credentials.

The second half proves `ServicesStartOnce`. That one event was posted is not inductive: it follows
from there being one thing at a time on the way to `NORMAL`. The invariant `SInv` adds to the one above the
phases of a boot (`Phases`: which status, session, registrations and pending events go together) and
that the event is in at most one place (`PostedOnce`: not yet posted, queued, being handled, or done).

**OtaUpdateProofs**: `TypeOK`, `AlwaysBootable`, `RunningIntact`, `LockReleased` and the refinement of
`AtomicUpdate`, for any versions, sizes and number of updates. The invariant `IInv` adds that the
running slot is the selected one until otadata has been rewritten, and that a verified image is in
the other slot from the verification on (`SelectedOrVerified`). Every step is one of three kinds:
harmless to what is selected and running, the switch, or a boot. Two lemmas carry the switch: erasing
the inactive sector changes nothing (`EraseKeepsSelected`), and the next sequence number written to
it selects the slot asked for (`WriteSelects`).

**MqttAppProofs**: `PendingCounts` and `PublishKept`, for any ids, faults, messages and parts. The
invariant adds that a PUBACK is on its way only when the broker has the message, without which the
acknowledgement that removes the message could be premature. Every action is shown to be a `BoxStep`
(the outbox stays counted and keeps the message) and a `NetStep` (no PUBACK out of nothing). Ids may
collide: what saves the message is that `outbox_delete` compares the type as well. A second invariant,
`TInv`, gives `TypeOK`: the connection's buffers and the outbox hold packets of their types, and a
subscription in the outbox names a topic of `mqtt_even`, without which resending it would leave the type.

**BlynkClientProofs**, for any number of callers, ids, slots and queue lengths:
- `ClientTypeCorrect`: types, queue and socket within their sizes, and the control socket read only when
  it holds something (`ControlReadable`).
- `CallbacksSafe`: `CallbacksSound`. The invariant `CallbackInv` says where a request is: with its caller,
  in the queue, in the table, or called back, and in one of these only; and that the ids in the table
  are below the next one until they wrap, at which point the table is refilled with entries whose
  callback is never called.
- `OnlyStaleBeforeLogin`: `UnauthenticatedOnlyStale`, with the invariant `StaleOnly`: what is queued or
  about to be was checked in an earlier session, or the session is logged in.
- `WakeupNotLost`: `NoLostWakeup` when the write to the control socket cannot fail. It is inductive given
  the types. When the write may fail, a message may wait for the next wake-up, as the code intends.

**WpsRegistrationProofs**, for any enrollees and PINs, any number of exchanges, pushes and PINs entered,
and lost frames. Assumed: `MaxPins` is a number, and the UUID of an enrollee is not the NULL that the push
of the button passes to `wps_registrar_pbc_overlap`. Each handler is one lemma about what it may do to the
session and the registrar.
- `SuccessIsUsable`: `DoneMeansConfigured`. The proof does not look into the registrar's lists: it follows
  the credential. The invariant `RegInv` says of each enrollee that its session makes no key before
  M8 and has one after it (`SessionOK`), that an M8 in the air carries the session's credential and a
  Done answers that M8 (`FrameOK`), and that after a success nothing is under way that could replace the
  stored key (`DoneOK`). Registrations of others may configure the access point between M8 and Done, and
  the application install that key: the invariant survives because a configured network keeps its key,
  installed or not (`KeysKept`), and an unconfigured one has reported no success. The zeros and the
  unwritten buffer are carried along as what the credential may be (`CredOK`).
- `PinUsedOnce`: `PinTriedOnce`. The invariant `PinInv` says that a PIN on the list that is not locked was
  never tried. M7 does unlock a PIN that was tried, and then invalidates one: the invariant survives
  because both searches find the newest PIN of that enrollee, hence the same one (`UnlockInvalidate`).
  That a search finds the newest rests on every set of numbers having a least one (`LeastNumber`).
- `ButtonServesOne`: `PbcExclusive`, an action property. The invariant `PbcInv` says that an exchange between
  M1 and M8 is a fresh push-button session, the only one unless `force_pbc_overlap` is set, and that while
  the button is active whoever was served still is a session. The second part is needed where a served
  enrollee's Done is lost: its session stays and keeps others out until the walk time is over.

**WpsTaskProofs**: `RxNotForgotten`, for any number of starts and frames. The invariant `RxInv` adds
that a counted RX signal is in the queue or has just been taken, and that a frame handed over has its
signal on the way. The proof follows the functions of the task: all but four leave receive queue, RX
count and RX signal alone (`Quiet`).

**WpaHandshakeProofs**, for any number of associations, losses and tries:
- `KeyInstalledOnce`: `NoTxReinstall`. Nothing is assumed of the access point: the frames it sends may
  have any contents, so the theorem also covers one that does not run this code. The invariant says when
  the key that is being negotiated has not been installed yet: a message 1/4 takes a new nonce whenever
  the last 3/4 was processed, and the installed flag is only cleared together with the key.
- `KeysAgreed`: `KeysAgree`, of both sides and the frames between them. The invariant `AgreeInv` (under the
  first one) tells two keys apart, the one the station has installed for sending and at most one it has
  derived since. The access point has none, the installed one, or the derived one, and the last only
  while it waits for 4/4 (`Core`); on the air a 2/4 with the derived key is followed by no 2/4 with
  another, and a 3/4 under it by nothing but its repetitions (`Ups`, `Downs`); a station that has taken
  this 3/4 and not yet sent 4/4 meets an access point that has its key (`Waiting`). Each is needed: a late
  2/4 would otherwise move the access point back to an old nonce, and a late 1/4 make the station derive
  anew, after 3/4. The access point's part goes through `wpa_sm_step`, pass by pass of its two machines
  (`Half`, `Whole`). The invariant stops at the second Michael failure, whose timer moves the station to
  DISCONNECTED in the middle of whatever it is doing.

**DppExchangeProofs**: all of `DppAgree`, for any number of exchanges, scans and requests, with frames
delivered in any order, any number of times or never.
- `PeersAgree`: `AuthAgree`, for any roles and commands. The invariant `AgreeInv` says that every frame
  tells what its sender did (`AirHonest`: a response or a confirm with status OK was made by a device that
  derived the key in it), and what a device that succeeded has (`IniSound`, `ResSound`). Two facts carry
  it. The roles are settled by what the devices were given, so that the responses to one request, or
  responses left over from another exchange, differ in keys but not in the role; and a success clears Mx,
  without which no later frame makes a device derive another key.
- `ConnectorsMatch`: `ConnectorMine`, for any commands. A connector is kept as good when it certifies the
  protocol key of that moment, and that key can change while older connectors stay in the table. The
  invariant `ConfInv` (on top of `AgreeInv`) says which keys can be certified: those the responses with
  status OK offered (`Offered`). The initiator never changes its key. The responder does when a code is
  scanned again, but after a success that response fails for want of Mx, so the new key is never offered
  and no connector for it can follow; and before its success it takes no configuration, because every
  answer goes back to a request made with a key that succeeded (`Asked`), and keys are not drawn twice.
- `ConfigurationsUsable`: `ConfigUsable`, for any commands, also those for both roles. A command that
  parses is complete in the half that takes the parameters, so an object is refused for its credentials
  only when it is made of the other half (`LeftBare`); what else is refused expired or is for another
  key. `CommandsTyped`, the type of a command, is the only assumption.
- `IntroductionsAgree`: `IntroAgree`, for neighbours that have been configured (`NeighboursConfigured`):
  each keeps with its connector the key that signed it.
- `DevicesAgree`: the four together. TLC evaluates the two assumptions
  (`CommandsTyped` and `NeighboursConfigured`) on the instance of `MCSupplicant`.

**Only model-checked**, and why:
- liveness, which TLAPS does not prove;
- `Acknowledged` and the refinement of `KvStore`: what NVS does is folds over lists of pages and
  entries, and facts about these need induction over data;
- TLS, EAP and SAE: no proof has been tried. Half of what they promise (`CompatibleSucceed`,
  `LossIsRepaired`, `Reconnects`) is that an exchange gets to its end;
- messages and `BigNum`: recursion over attributes and digits.

## Not modelled

- The access-point way of provisioning, which this build cannot reach.
- A link lost after provisioning: the code does nothing about it, `NORMAL` is never left
  (`app_config.c:118`).
- Memory: leaks of contexts and HTTP clients appear only as `begin` failing.
- HTTP, the MQTT encoding, QoS 0 and 2, the 4 KB limit of the outbox (never reached with QoS 1
  messages of this size), partial writes.
- The bytes of Blynk messages, and its list of handlers.
- Of `wpa_supplicant`: ciphers, hashes and curves (injective functions in the models), ASN.1, PEM,
  base64 and the parsing of TLVs, AVPs and JSON, FT, the registrar's UPnP side. The tree holds a second
  copy of `libtommath.h` under `crypto/`.
- Peripheral drivers without control logic (`ledc_app`, `touch_pad_app`, `timer_tick`), example code
  (`jSON_APP`), `app_nvs`, `input_iot`, `app_ota`, which nothing calls.
- Headers, build files and tests. Together with the data-processing code above these are most of the
  lines no definition stands for.
