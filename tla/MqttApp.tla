------------------------------ MODULE MqttApp ------------------------------
(***************************************************************************)
(* The MQTT application: mqtt_app.c, the handler mqtt_even of main/blynk.c *)
(* and what they use of the MQTT client: its task, its recursive mutex     *)
(* api_lock and its outbox.  What url_data does with a message is in       *)
(* module Downlink; here a message is the number of reads it takes.        *)
(*                                                                         *)
(* Three tasks: the MQTT task (esp_mqtt_task), the task of the default     *)
(* event loop, which runs mqtt_even, and an application task that calls    *)
(* app_mqtt_publish.  An operation under api_lock is one step, except that *)
(* it is cut where it may block: at every post to the event loop.          *)
(*                                                                         *)
(* Outside is the connection: peer is "up", "dead" (silent) or "reset"     *)
(* (every read and write fails).  At most MaxFaults things go wrong.       *)
(*                                                                         *)
(* A definition A_B stands before the definition A it is a wrong version   *)
(* of; no action uses it.                                                  *)
(***************************************************************************)
EXTENDS Naturals, SequencesExt

CONSTANTS
  QueueSize,    \* CONFIG_ESP_SYSTEM_EVENT_QUEUE_SIZE
  Ids,          \* message ids platform_random may return
  NetCap,       \* bound: packets a dead connection takes, packets resent to a live one
  MaxFaults,    \* bound: failures outside
  MaxMessages,  \* bound: messages the broker sends
  Fragments,    \* into how many reads a message may be split
  BufferSize,   \* in_buffer_length: the bytes of a read
  SizeMax       \* the largest size_t

ASSUME MqttAssumption ==
  /\ QueueSize \in Nat \ {0} /\ NetCap \in Nat \ {0} /\ MaxFaults \in Nat /\ MaxMessages \in Nat
  /\ Ids # {} /\ Ids \subseteq Nat /\ SizeMax \in Nat /\ BufferSize \in 1..SizeMax
  /\ \A n \in Fragments : n \in Nat \ {0} /\ n * BufferSize \in 1..SizeMax

VARIABLES
  mstate,     \* client->state: "INIT", "CONNECTED", "WAIT"
  lock,       \* the task that holds api_lock, or "none"
  mpc, ev, cont,  \* MQTT task: where it is; the event it posts and where it goes on
  evq,        \* queue of the default event loop
  epc,        \* event loop task: "idle", or about to subscribe the 1st or 2nd topic
  apc,        \* application task: "new", "post" (blocked in abort_connection), "done"
  outbox, pending,  \* client->outbox, pending_msg_count
  ping,       \* wait_for_ping_resp
  peer, sent, down, \* the connection, what a dead peer took, answers to read
  subs,       \* what the broker has subscribed for this connection
  msg,        \* deliver_publish: msg_read_len and msg_total_len of the message
  faults, messages,  \* what happened so far of what is bounded
  got,        \* history: the application's message reached the broker
  expired,    \* history: an outbox item was given up
  collided    \* history: an id was drawn that an item of the outbox had

task == <<mpc, ev, cont>>
conn == <<mstate, ping, peer, sent, down, subs>>
box == <<outbox, pending, expired, collided>>
network == <<peer, sent, down, subs>>
others == <<evq, epc, apc>>
env == <<faults, messages, got>>
vars == <<mstate, lock, mpc, ev, cont, evq, epc, apc, outbox, pending, ping, peer, sent, down, subs,
          msg, faults, messages, got, expired, collided>>

Topics == {"VP_ADC", "vw"}
TopicOf == [sub1 |-> "VP_ADC", sub2 |-> "vw"]

Event == {"CONNECTED", "DATA", "OTHER"}
Packet == {p \in [type : {"SUB", "PUB", "PING"}, id : Ids \cup {0}, what : Topics \cup {"none"}] :
             p.type = "SUB" => p.what \in Topics}
Ack == [type : {"SUBACK", "PUBACK", "PINGRESP"}, id : Ids \cup {0}]
Item == {i \in [type : {"SUB", "PUB"}, id : Ids, what : Topics \cup {"none"},
                st : {"QUEUED", "TRANSMITTED", "CONFIRMED"}] : i.type = "SUB" => i.what \in Topics}

PingReq == [type |-> "PING", id |-> 0, what |-> "none"]
PacketOf(i) == [type |-> i.type, id |-> i.id, what |-> i.what]
AckType == [SUB |-> "SUBACK", PUB |-> "PUBACK", PING |-> "PINGRESP"]
AckOf(p) == [type |-> AckType[p.type], id |-> p.id]

NoMessage == [read |-> 0, total |-> 0]

Init ==
  /\ mstate = "INIT" /\ lock = "none" /\ mpc = "top" /\ ev = "OTHER" /\ cont = "top"
  /\ evq = <<>> /\ epc = "idle" /\ apc = "new"
  /\ outbox = <<>> /\ pending = 0 /\ ping = FALSE
  /\ peer = "reset" /\ sent = 0 /\ down = <<>> /\ subs = {}
  /\ msg = NoMessage
  /\ faults = 0 /\ messages = 0 /\ got = FALSE
  /\ expired = FALSE /\ collided = FALSE
----------------------------------------------------------------------------
(* Outbox: every operation works on the first item that matches.           *)

\* outbox_set_pending
SetPending(b, id, st) ==
  [k \in DOMAIN b |-> IF b[k].id = id /\ \A j \in 1..(k - 1) : b[j].id # id
                        THEN [b[k] EXCEPT !.st = st] ELSE b[k]]

\* mqtt_enqueue with pending_msg_count++
Enqueue_PublishOnly(b, type, id, what) ==
  IF type = "SUB" THEN b ELSE Append(b, [type |-> type, id |-> id, what |-> what, st |-> "QUEUED"])
Enqueue(b, type, id, what) == Append(b, [type |-> type, id |-> id, what |-> what, st |-> "QUEUED"])

\* is_valid_mqtt_msg: the acknowledged item is deleted
Matches_AnyType(item, type, id) == item.id = id
Matches(item, type, id) == item.id = id /\ item.type = type
IsValid(type, id) == pending > 0 /\ \E i \in DOMAIN outbox : Matches(outbox[i], type, id)
Acknowledge(type, id) ==
  \E i \in DOMAIN outbox :
    /\ Matches(outbox[i], type, id) /\ \A j \in 1..(i - 1) : ~ Matches(outbox[j], type, id)
    /\ outbox' = IF type = "PUB" THEN SetPending(RemoveAt(outbox, i), id, "CONFIRMED")
                                 ELSE RemoveAt(outbox, i)
    /\ pending' = pending - 1

\* mqtt_delete_expired_messages (one item at a time)
Fault == faults < MaxFaults /\ faults' = faults + 1
ExpireOne_NotCounted(i) == outbox' = RemoveAt(outbox, i) /\ expired' = TRUE /\ UNCHANGED pending
ExpireOne(i) ==
  /\ outbox' = RemoveAt(outbox, i)
  /\ pending' = IF pending > 0 THEN pending - 1 ELSE 0
  /\ expired' = TRUE

(* mqtt_write_data, on the open connection or on the one just closed.  A   *)
(* packet arrives at the broker (external), which answers it, or the       *)
(* connection is lost with it.  A dead peer takes packets until the        *)
(* buffers are full.                                                       *)
Arrives(p) ==
  /\ down' = Append(down, AckOf(p))
  /\ subs' = IF p.type = "SUB" THEN subs \cup {p.what} ELSE subs
  /\ got' = (got \/ p.type = "PUB")
WriteOk(p) ==
  /\ mstate = "CONNECTED"
  /\ \/ peer = "up" /\ Arrives(p) /\ UNCHANGED <<peer, sent, faults>>
     \/ peer = "up" /\ Fault /\ peer' \in {"dead", "reset"} /\ UNCHANGED <<sent, down, subs, got>>
     \/ peer = "dead" /\ sent < NetCap /\ sent' = sent + 1 /\ UNCHANGED <<peer, down, subs, got, faults>>
WriteFails ==
  \/ (mstate # "CONNECTED" \/ peer = "reset" \/ (peer = "dead" /\ sent = NetCap)) /\ UNCHANGED faults
  \/ mstate = "CONNECTED" /\ Fault

\* where the MQTT task goes on, at once or after the post of an event
Goto(pc) == mpc' = pc /\ ev' = "OTHER" /\ cont' = "top"
PostThen(e, pc) == mpc' = "post" /\ ev' = e /\ cont' = pc

\* esp_mqtt_abort_connection, up to its event
Close ==
  /\ mstate' = "WAIT" /\ ping' = FALSE
  /\ peer' = "reset" /\ sent' = 0 /\ down' = <<>> /\ subs' = {}
Abort(pc) == Close /\ PostThen("OTHER", pc)

\* MQTT_API_UNLOCK, after which a task that is connected polls the connection
Released(state) == lock' = "none" /\ Goto(IF state = "CONNECTED" THEN "poll" ELSE "top")

Post ==
  /\ mpc = "post" /\ Len(evq) < QueueSize /\ evq' = Append(evq, ev)
  /\ IF cont = "unlock" THEN Released(mstate) ELSE Goto(cont) /\ UNCHANGED lock
  /\ UNCHANGED <<conn, box, msg, epc, apc, env>>
----------------------------------------------------------------------------
(* esp_mqtt_task                                                           *)

\* MQTT_API_LOCK at the head of the loop
Loop(state) == mpc \in {"top", "poll"} /\ lock = "none" /\ mstate = state

\* MQTT_STATE_WAIT_TIMEOUT: the mutex is held for a moment only
Reconnect ==
  /\ Loop("WAIT") /\ mstate' = "INIT" /\ Goto("top")
  /\ UNCHANGED <<lock, ping, peer, sent, down, subs, box, msg, others, env>>

ConnectOk ==
  /\ Loop("INIT") /\ lock' = "mqtt"
  /\ mstate' = "CONNECTED" /\ ping' = FALSE /\ peer' = "up" /\ UNCHANGED <<sent, down, subs>>
  /\ PostThen("CONNECTED", "unlock")
  /\ UNCHANGED <<box, msg, others, env>>

ConnectFails ==
  /\ Loop("INIT") /\ lock' = "mqtt" /\ Fault /\ Abort("unlock")
  /\ UNCHANGED <<box, msg, others, messages, got>>

\* mqtt_process_receive: nothing there, a read error, ...
ReceiveNothing ==
  /\ Loop("CONNECTED") /\ lock' = "mqtt" /\ down = <<>> /\ peer # "reset" /\ Goto("resend")
  /\ UNCHANGED <<conn, box, msg, others, env>>

ReceiveFails ==
  /\ Loop("CONNECTED") /\ lock' = "mqtt" /\ peer = "reset" /\ Abort("unlock")
  /\ UNCHANGED <<box, msg, others, env>>

\* ... or a packet:
Received(type) ==
  /\ Loop("CONNECTED") /\ lock' = "mqtt" /\ down # <<>> /\ peer # "reset"
  /\ Head(down).type = type /\ down' = Tail(down)

\* the answer to what is in the outbox, ...
ReceiveAck(type) ==
  /\ Received(AckType[type])
  /\ \/ /\ IsValid(type, Head(down).id) /\ Acknowledge(type, Head(down).id)
        /\ IF type = "SUB" THEN PostThen("OTHER", "resend") ELSE Goto("resend")
     \/ ~ IsValid(type, Head(down).id) /\ Goto("resend") /\ UNCHANGED <<outbox, pending>>
  /\ UNCHANGED <<mstate, ping, peer, sent, subs, expired, collided, msg, others, env>>

\* ... the answer to a ping, ...
ReceivePingResp ==
  /\ Received("PINGRESP") /\ ping' = FALSE /\ Goto("resend")
  /\ UNCHANGED <<mstate, peer, sent, subs, box, msg, others, env>>

\* ... or a message, before or after any answer: deliver_publish posts an event
\* for the first part of it
ReceiveMessage ==
  /\ Loop("CONNECTED") /\ lock' = "mqtt" /\ peer # "reset" /\ subs # {}
  /\ messages < MaxMessages /\ messages' = messages + 1
  /\ \E n \in Fragments : msg' = [read |-> BufferSize, total |-> n * BufferSize]
  /\ PostThen("DATA", "deliver")
  /\ UNCHANGED <<conn, box, others, faults, got>>

(* deliver_publish reads on.  A silent peer makes the read return 0, which *)
(* ends the delivery.  A read error is -1, which is not <= 0 in a size_t:  *)
(* it is posted like a part and added to msg_read_len, until that wraps    *)
(* below 0 and the message seems complete.                                 *)
ReadAs(len) ==
  /\ msg' = [msg EXCEPT !.read = (@ + len) % (SizeMax + 1)]
  /\ PostThen("DATA", "deliver") /\ UNCHANGED conn
NextFragment ==
  /\ mpc = "deliver" /\ msg.read < msg.total
  /\ \/ peer = "up" /\ ReadAs(BufferSize)
     \/ peer = "dead" /\ Abort("unlock") /\ msg' = NoMessage
     \/ peer = "reset" /\ ReadAs(SizeMax)
  /\ UNCHANGED <<lock, box, others, env>>

\* the PUBACK, which the broker does not answer
Puback ==
  /\ mpc = "deliver" /\ msg.read >= msg.total /\ msg' = NoMessage
  /\ \/ peer # "reset" /\ Goto("resend") /\ UNCHANGED <<conn, faults>>
     \/ WriteFails /\ Abort("unlock")
  /\ UNCHANGED <<lock, box, others, messages, got>>

Expire ==
  /\ mpc = "resend" /\ Fault /\ \E i \in DOMAIN outbox : ExpireOne(i)
  /\ UNCHANGED <<lock, task, conn, collided, msg, others, messages, got>>

\* bound: nothing is sent again while NetCap packets wait to be handled
Busy == peer = "up" /\ Len(down) >= NetCap

(* mqtt_resend_queued on the first item in state st.  A write postpones    *)
(* the ping; after a failed one the keep-alive check still follows.        *)
IsFirst(st, i) == outbox[i].st = st /\ \A j \in 1..(i - 1) : outbox[j].st # st
Resend(st) ==
  /\ mpc = "resend" /\ ~ Busy
  /\ \E i \in DOMAIN outbox :
       /\ IsFirst(st, i)
       /\ \/ /\ WriteOk(PacketOf(outbox[i])) /\ Released(mstate)
             /\ outbox' = IF st = "QUEUED" THEN SetPending(outbox, outbox[i].id, "TRANSMITTED") ELSE outbox
             /\ UNCHANGED <<mstate, ping>>
          \/ WriteFails /\ Abort("keep") /\ UNCHANGED <<lock, outbox, got>>
  /\ UNCHANGED <<pending, expired, collided, msg, others, messages>>

Queued == \E i \in DOMAIN outbox : outbox[i].st = "QUEUED"
ResendQueued == Resend("QUEUED")
Retransmit == ~ Queued /\ Resend("TRANSMITTED")
Unsent == mpc = "keep" \/ (mpc = "resend" /\ (Queued => Busy))

(* Keep-alive.  Every write postpones the ping by half of keepalive (45 s) *)
(* and an item of the outbox is written again every second, so a ping is   *)
(* due only when no item waits, or when the write has just failed.         *)
PingDue ==
  /\ Unsent /\ (mpc = "resend" => \A i \in DOMAIN outbox : outbox[i].st = "CONFIRMED")
  /\ \/ ping /\ (IF peer = "up" THEN Fault ELSE UNCHANGED faults) /\ Abort("unlock") /\ UNCHANGED <<lock, got>>
     \/ ~ ping /\ WriteOk(PingReq) /\ ping' = TRUE /\ Released(mstate) /\ UNCHANGED mstate
     \/ ~ ping /\ WriteFails /\ Abort("unlock") /\ UNCHANGED <<lock, got>>
  /\ UNCHANGED <<box, msg, others, messages>>

PingNotDue ==
  /\ Unsent /\ Released(mstate)
  /\ UNCHANGED <<conn, box, msg, others, env>>

\* esp_transport_poll_read finds an error outside the lock, perhaps the other task's abort
PollError ==
  /\ mpc = "poll" /\ lock = "none" /\ peer = "reset" /\ lock' = "mqtt" /\ Abort("unlock")
  /\ UNCHANGED <<box, msg, others, env>>

MqttTask ==
  \/ Post \/ Reconnect \/ ConnectOk \/ ConnectFails
  \/ ReceiveNothing \/ ReceiveFails \/ ReceiveAck("SUB") \/ ReceiveAck("PUB") \/ ReceivePingResp
  \/ ReceiveMessage \/ NextFragment \/ Puback \/ Expire
  \/ ResendQueued \/ Retransmit \/ PingDue \/ PingNotDue \/ PollError
----------------------------------------------------------------------------
(* The event loop task runs mqtt_even                                      *)

Dispatch ==
  /\ epc = "idle" /\ evq # <<>> /\ evq' = Tail(evq)
  /\ epc' = IF Head(evq) = "CONNECTED" THEN "sub1" ELSE "idle"
  /\ UNCHANGED <<lock, task, conn, box, msg, apc, env>>

(* A message id (append_message_id: platform_random).  Ids are             *)
(* interchangeable: of those nobody has, the least will do.                *)
Has(s, id) == \E i \in DOMAIN s : s[i].id = id
Drawn == {id \in Ids : \A j \in Ids : j < id => Has(outbox, j) \/ Has(down, j)}
Collides(id) == collided \/ Has(outbox, id)

\* esp_mqtt_client_subscribe: a write that fails is not retried here
Subscribe ==
  /\ epc # "idle" /\ lock = "none"
  /\ epc' = IF epc = "sub1" THEN "sub2" ELSE "idle"
  /\ \/ mstate # "CONNECTED" /\ UNCHANGED <<outbox, pending, collided, network, faults, got>>
     \/ /\ mstate = "CONNECTED"
        /\ \E id \in Drawn :
             /\ outbox' = SetPending(Enqueue(outbox, "SUB", id, TopicOf[epc]), id, "TRANSMITTED")
             /\ pending' = pending + 1 /\ collided' = Collides(id)
             /\ \/ WriteOk([type |-> "SUB", id |-> id, what |-> TopicOf[epc]])
                \/ WriteFails /\ UNCHANGED <<network, got>>
  /\ UNCHANGED <<lock, task, mstate, ping, expired, msg, evq, apc, messages>>

EventTask == Dispatch \/ Subscribe
----------------------------------------------------------------------------
(* A task that calls app_mqtt_publish (once)                               *)

PublishLater(id) ==
  /\ mstate # "CONNECTED" /\ apc' = "done"
  /\ \/ outbox' = Enqueue(outbox, "PUB", id, "none") /\ pending' = pending + 1 /\ UNCHANGED <<expired, faults>>
     \/ /\ Fault /\ expired' = TRUE /\ UNCHANGED pending
        /\ \E i \in DOMAIN outbox : outbox' = RemoveAt(Enqueue(outbox, "PUB", id, "none"), i)
  /\ UNCHANGED <<lock, conn, got>>

PublishNow(id) ==
  /\ WriteOk([type |-> "PUB", id |-> id, what |-> "none"]) /\ apc' = "done"
  /\ outbox' = SetPending(Enqueue(outbox, "PUB", id, "none"), id, "TRANSMITTED") /\ pending' = pending + 1
  /\ UNCHANGED <<lock, mstate, ping, expired>>

\* the write fails: the connection is aborted, which posts an event under the lock
PublishFails_Forgets(id) ==
  /\ mstate = "CONNECTED" /\ WriteFails /\ Close /\ lock' = "app" /\ apc' = "post"
  /\ UNCHANGED <<outbox, pending, expired, got>>
PublishFails(id) ==
  /\ mstate = "CONNECTED" /\ WriteFails /\ Close /\ lock' = "app" /\ apc' = "post"
  /\ outbox' = Enqueue(outbox, "PUB", id, "none") /\ pending' = pending + 1
  /\ UNCHANGED <<expired, got>>

Publish ==
  /\ apc = "new" /\ lock = "none"
  /\ \E id \in Drawn :
       /\ collided' = Collides(id)
       /\ PublishLater(id) \/ PublishNow(id) \/ PublishFails(id)
  /\ UNCHANGED <<task, msg, evq, epc, messages>>

AppPost_KeepsLock ==
  /\ apc = "post" /\ Len(evq) < QueueSize
  /\ evq' = Append(evq, "OTHER") /\ apc' = "done"
  /\ UNCHANGED <<lock, task, conn, box, msg, epc, env>>
AppPost ==
  /\ apc = "post" /\ Len(evq) < QueueSize
  /\ evq' = Append(evq, "OTHER") /\ apc' = "done" /\ lock' = "none"
  /\ UNCHANGED <<task, conn, box, msg, epc, env>>
----------------------------------------------------------------------------
(* Outside                                                                 *)

PeerFault ==
  /\ peer = "up" /\ Fault /\ peer' \in {"dead", "reset"}
  /\ UNCHANGED <<lock, task, mstate, ping, sent, down, subs, box, msg, others, messages, got>>

Next == MqttTask \/ EventTask \/ Publish \/ AppPost \/ PeerFault

Spec == Init /\ [][Next]_vars

(* The event loop task has priority 20 and the MQTT task 5: it gets the    *)
(* lock when it is released.  Retransmissions and pings come due.          *)
FairSpec ==
  /\ Spec /\ WF_vars(MqttTask) /\ WF_vars(Dispatch) /\ SF_vars(Subscribe)
  /\ WF_vars(AppPost) /\ SF_vars(Retransmit) /\ SF_vars(PingDue)
----------------------------------------------------------------------------
(* Every variable has its type, the event queue and the buffers of a dead  *)
(* connection are within their sizes, and every subscription that is in    *)
(* the outbox or at the broker is one of a topic of mqtt_even.             *)
TypeOK ==
  /\ mstate \in {"INIT", "CONNECTED", "WAIT"} /\ lock \in {"none", "mqtt", "app"}
  /\ ev \in Event /\ evq \in Seq(Event) /\ Len(evq) <= QueueSize
  /\ epc \in {"idle", "sub1", "sub2"} /\ apc \in {"new", "post", "done"}
  /\ outbox \in Seq(Item) /\ pending \in Nat /\ ping \in BOOLEAN
  /\ peer \in {"up", "dead", "reset"} /\ sent \in 0..NetCap /\ down \in Seq(Ack)
  /\ subs \subseteq Topics /\ msg \in [read : 0..SizeMax, total : 0..SizeMax]
  /\ faults \in 0..MaxFaults /\ messages \in 0..MaxMessages
  /\ {got, expired, collided} \subseteq BOOLEAN

(* pending_msg_count is the number of items in the outbox, so that         *)
(* is_valid_mqtt_msg, which answers without a look at the outbox when the  *)
(* count is 0, never drops an acknowledgement.                             *)
PendingCounts == pending = Len(outbox)

(* A message given to app_mqtt_publish stays in the outbox, whatever other *)
(* acknowledgements arrive and whichever ids were drawn, until the broker  *)
(* has it or it is too old.                                                *)
PublishKept ==
  apc # "new" => got \/ expired \/ \E i \in DOMAIN outbox : outbox[i].type = "PUB"

(* The deadlock of a long delivery: a task holds api_lock and waits for a  *)
(* place in the event queue, which data events have filled but for at most *)
(* four places; the event loop task, which alone empties the queue, waits  *)
(* for api_lock.                                                           *)
DataEvents == {i \in DOMAIN evq : evq[i] = "DATA"}
Wedged ==
  /\ epc # "idle" /\ Len(evq) = QueueSize /\ Cardinality(DataEvents) + 4 >= QueueSize
  /\ (lock = "mqtt" /\ mpc = "post") \/ (lock = "app" /\ apc = "post")

(* mqtt_even ends, unless the queue is filled with data events, by the     *)
(* parts of a long message or by the read errors that are taken for parts, *)
(* while it waits for api_lock.  No sequence of connections lost and made, *)
(* acknowledgements and events of the publisher brings the tasks to wait   *)
(* for each other.                                                         *)
EventTaskProceeds == (epc # "idle") ~> (epc = "idle" \/ Wedged)

(* Once nothing goes wrong any more the device has a connection that works *)
(* with both topics subscribed: whatever connection was lost before,       *)
(* between or after the two calls of app_mqtt_subscribe, and a silent      *)
(* broker is noticed by the ping it does not answer.                       *)
SubscribedEventually ==
  <>(Wedged \/ expired \/ collided) \/ <>[](mstate = "CONNECTED" /\ peer = "up" /\ subs = Topics)

(* A message given to app_mqtt_publish reaches the broker unless it        *)
(* becomes too old first, though only the first item is retransmitted.     *)
PublishDelivered == <>Wedged \/ ((apc # "new") ~> (got \/ expired))

(* esp_mqtt_client_subscribe returns: it "might block if a longer data     *)
(* receive operation is in progress", but no longer than that.             *)
SubscribeReturns == (epc # "idle") ~> (epc = "idle")
=============================================================================
