---------------------------- MODULE BlynkClient ----------------------------
(***************************************************************************)
(* The Blynk client of common/blynk: one client task (blynk_task, with     *)
(* blynk_loop inside) that owns the connection, and any number of other    *)
(* tasks that call blynk_start and blynk_send_with_callback.               *)
(*                                                                         *)
(* Messages are handled whole: parser and serializer are left out.  Time   *)
(* is abstract: a deadline is a timer that runs until it expires, at any   *)
(* moment after it was set; 0 is no timer.  A deadline that passes while   *)
(* its message is still queued is one that passes as soon as the message   *)
(* has its id: nothing looks at it before.  The server is the environment: *)
(* it may answer any id with any status at any time, or fall silent.       *)
(*                                                                         *)
(* A definition A_B stands before the definition A it is a wrong version   *)
(* of; no action uses it.                                                  *)
(***************************************************************************)
EXTENDS Naturals, Sequences, FiniteSets

CONSTANTS
  Requests,     \* calls of blynk_send_with_callback by other tasks
  QueueLen,     \* QUEUE_SIZE
  MaxAwaiting,  \* BLYNK_MAX_AWAITING
  MaxId,        \* largest uint16_t
  HardwareIds,  \* ids the server gives its own messages
  GarbageId,    \* the id of an entry filled with bytes of value 9 (0x0909)
  WakeCap,      \* datagrams the control socket can hold
  WakeMayFail   \* may the write that wakes the client task fail?

ASSUME ConstantsAssumption ==
  /\ QueueLen \in Nat \ {0} /\ MaxAwaiting \in Nat \ {0} /\ WakeCap \in Nat \ {0}
  /\ MaxId \in Nat \ {0, 1} /\ GarbageId \in 1..MaxId /\ HardwareIds \subseteq 0..MaxId
  /\ WakeMayFail \in BOOLEAN
  /\ "none" \notin Requests /\ "garbage" \notin Requests

VARIABLES
  state,      \* c->state.state
  optSet,     \* blynk_set_options was called
  tpc, sel,   \* client task: program counter, what select returned
  queue,      \* c->priv.ctl_queue
  wake,       \* datagrams waiting in the control socket
  awaiting,   \* c->priv.awaiting
  id,         \* c->priv.id, the next id
  buf,        \* the message being written (buf_total, buf_sent), or NoMsg
  ping,       \* timer of ping_deadline
  spc,        \* blynk_start: "idle", "created" (state handler not yet called), "done"
  req,        \* where each call of blynk_send_with_callback is
  stale,      \* history: calls that checked the state before the current session
  fired,      \* history: how often each call's callback, or garbage, was called (at most 2 counted)
  told        \* history: the state last reported to the state handler

vars == <<state, optSet, tpc, sel, queue, wake, awaiting, id, buf, ping, spc,
          req, stale, fired, told>>

Slots == 1..MaxAwaiting
Timer == {"none", "running", "expired"}
Callback == {"none", "auth", "ping", "user", "garbage"}

\* blynk_ctl_t; of is the call the message comes from.
Msg(cmd, i, cb, r) ==
  [cmd |-> cmd, id |-> i, cb |-> cb, of |-> r]
Message == [cmd : {"LOGIN", "PING", "USER", "RESPONSE"}, id : 0..MaxId, cb : Callback,
            of : Requests \cup {"none"}]

\* What the write buffer holds (blynk_serialize)
Outgoing(m) == [cmd |-> m.cmd, of |-> m.of]
NoMsg == [cmd |-> "NONE", of |-> "none"]

\* blynk_awaiting_t; an entry is free when its id is 0.
Entry(i, m) == [id |-> i, cb |-> m.cb, of |-> m.of, timer |-> "running"]
FreeEntry == [id |-> 0, cb |-> "none", of |-> "none", timer |-> "none"]
GarbageEntry == [id |-> GarbageId, cb |-> "garbage", of |-> "none", timer |-> "running"]
AwaitingEntry == [id : 0..MaxId, cb : Callback, of : Requests \cup {"none"}, timer : Timer]

Session == {"top", "select", "timers", "ping", "ctl", "read", "write"}

Init ==
  /\ state = "STOPPED" /\ optSet = FALSE
  /\ tpc = "none" /\ sel = {}
  /\ queue = <<>> /\ wake = 0
  /\ awaiting = [s \in Slots |-> FreeEntry] /\ id = 0
  /\ buf = NoMsg /\ ping = "none"
  /\ spc = "idle"
  /\ req = [r \in Requests |-> "new"] /\ stale = {}
  /\ fired = [r \in Requests \cup {"garbage"} |-> 0]
  /\ told = "STOPPED"
----------------------------------------------------------------------------
(* Calls made by other tasks                                               *)

SetOptions ==
  /\ ~optSet /\ optSet' = TRUE
  /\ UNCHANGED <<state, tpc, sel, queue, wake, awaiting, id, buf, ping, spc, req, stale, fired, told>>

\* blynk_start: create the task and become DISCONNECTED under the mutex ...
Start ==
  /\ state = "STOPPED" /\ spc = "idle"
  /\ tpc' = "open" /\ state' = "DISCONNECTED"
  /\ spc' = "created"
  /\ UNCHANGED <<optSet, sel, queue, wake, awaiting, id, buf, ping, req, stale, fired, told>>

\* ... then call the state handler, without it.
StartReport ==
  /\ spc = "created" /\ spc' = "done"
  /\ told' = "DISCONNECTED"
  /\ UNCHANGED <<state, optSet, tpc, sel, queue, wake, awaiting, id, buf, ping, req, stale, fired>>

\* blynk_send_with_callback_v goes on only when it reads AUTHENTICATED ...
SendAllowed_NotAuthenticated == state \notin {"STOPPED", "DISCONNECTED"}
SendAllowed == state = "AUTHENTICATED"

SendCheck(r) ==
  /\ req[r] = "new" /\ SendAllowed
  /\ req' = [req EXCEPT ![r] = "checked"]
  /\ UNCHANGED <<state, optSet, tpc, sel, queue, wake, awaiting, id, buf, ping, spc, stale, fired, told>>

\* ... and then, formatted, queues the message (or gives up when wait has
\* passed and the queue is still full), with a callback or without;
SendQueue(r) ==
  /\ req[r] = "checked"
  /\ \/ /\ Len(queue) < QueueLen
        /\ \E cb \in {"user", "none"} : queue' = Append(queue, Msg("USER", 0, cb, r))
        /\ req' = [req EXCEPT ![r] = "queued"]
     \/ /\ Len(queue) = QueueLen
        /\ req' = [req EXCEPT ![r] = "returned"]
        /\ UNCHANGED queue
  /\ UNCHANGED <<state, optSet, tpc, sel, wake, awaiting, id, buf, ping, spc, stale, fired, told>>

Woken == wake' = IF wake < WakeCap THEN wake + 1 ELSE wake
SendWake_Forgotten(r) ==
  /\ req[r] = "queued"
  /\ wake' = wake /\ req' = [req EXCEPT ![r] = "returned"]
  /\ UNCHANGED <<state, optSet, tpc, sel, queue, awaiting, id, buf, ping, spc, stale, fired, told>>
SendWake(r) ==
  /\ req[r] = "queued"
  /\ \/ Woken /\ req' = [req EXCEPT ![r] = "returned"]
     \/ WakeMayFail /\ wake' = wake /\ req' = [req EXCEPT ![r] = "returned"]
  /\ UNCHANGED <<state, optSet, tpc, sel, queue, awaiting, id, buf, ping, spc, stale, fired, told>>
----------------------------------------------------------------------------
(* The client task                                                         *)

\* set_disconnected, set_state: the state handler is called by the client task.
SetState(s) == state' = s /\ told' = s

\* blynk_send_internal with wait 0 from the client task: go on at pc, or
\* disconnect because the queue is full or the wake-up fails.
SendInternal(m, pc) ==
  \/ /\ Len(queue) < QueueLen /\ queue' = Append(queue, m)
     /\ Woken /\ tpc' = pc /\ UNCHANGED <<state, told>>
  \/ /\ Len(queue) < QueueLen /\ queue' = Append(queue, m) /\ WakeMayFail
     /\ UNCHANGED wake /\ tpc' = "close" /\ SetState("DISCONNECTED")
  \/ /\ Len(queue) = QueueLen
     /\ UNCHANGED <<queue, wake>> /\ tpc' = "close" /\ SetState("DISCONNECTED")

\* blynk_loop up to the connection: without options the task ends.
OpenInvalid ==
  /\ tpc = "open" /\ ~optSet /\ tpc' = "ended"
  /\ UNCHANGED <<state, optSet, sel, queue, wake, awaiting, id, buf, ping, spc, req, stale, fired, told>>

OpenFail ==
  /\ tpc = "open" /\ optSet
  /\ SetState("DISCONNECTED") /\ tpc' = "delay"
  /\ UNCHANGED <<optSet, sel, queue, wake, awaiting, id, buf, ping, spc, req, stale, fired>>

OpenOk ==
  /\ tpc = "open" /\ optSet
  /\ SetState("CONNECTED") /\ tpc' = "reset"
  /\ UNCHANGED <<optSet, sel, queue, wake, awaiting, id, buf, ping, spc, req, stale, fired>>

\* reset state, set ping timer
Reset ==
  /\ tpc = "reset" /\ tpc' = "login"
  /\ awaiting' = [s \in Slots |-> FreeEntry]
  /\ queue' = <<>> /\ id' = 1 /\ buf' = NoMsg
  /\ ping' = "running"
  /\ stale' = {r \in Requests : req[r] = "checked"}
  /\ UNCHANGED <<state, optSet, sel, wake, spc, req, fired, told>>

Login ==
  /\ tpc = "login"
  /\ SendInternal(Msg("LOGIN", 0, "auth", "none"), "top")
  /\ UNCHANGED <<optSet, sel, awaiting, id, buf, ping, spc, req, stale, fired>>

(* get_id: the id it returns and what it does to p->id and the table.      *)
Wraps == id = MaxId
Table == IF Wraps THEN [s \in Slots |-> GarbageEntry] ELSE awaiting
FreshId_SkipsZero == IF Wraps THEN 1 ELSE id
FreshId == IF Wraps THEN 0 ELSE id
FreeSlots == {s \in Slots : Table[s].id = 0}
FirstFree == CHOOSE s \in FreeSlots : \A t \in FreeSlots : s <= t

GetId(m) == IF m.cb # "none" /\ FreeSlots = {} THEN 0 ELSE FreshId

\* top of the read loop: take a message from the queue unless one is being written
Receive ==
  /\ tpc = "top" /\ buf = NoMsg /\ queue # <<>>
  /\ queue' = Tail(queue)
  /\ LET m == Head(queue) IN
       \/ /\ m.id # 0
          /\ buf' = Outgoing(m) /\ tpc' = "select"
          /\ UNCHANGED <<id, awaiting, state, told>>
       \/ /\ m.id = 0
          /\ id' = FreshId + 1
          /\ awaiting' = IF m.cb # "none" /\ FreeSlots # {}
                           THEN [Table EXCEPT ![FirstFree] = Entry(FreshId, m)] ELSE Table
          /\ IF GetId(m) = 0
               THEN tpc' = "close" /\ SetState("DISCONNECTED") /\ UNCHANGED buf
               ELSE tpc' = "select" /\ buf' = Outgoing(m) /\ UNCHANGED <<state, told>>
  /\ UNCHANGED <<optSet, sel, wake, ping, spc, req, stale, fired>>

ReceiveNothing ==
  /\ tpc = "top" /\ (buf # NoMsg \/ queue = <<>>)
  /\ tpc' = "select"
  /\ UNCHANGED <<state, optSet, sel, queue, wake, awaiting, id, buf, ping, spc, req, stale, fired, told>>

\* get_select_timeout and handle_timers look at the same timers.
Expired(e) == e.id # 0 /\ e.timer = "expired"
TimedOut == {s \in Slots : Expired(awaiting[s])}

Select ==
  /\ tpc = "select"
  /\ \E ready \in SUBSET {"rd", "wr"} :
       /\ "wr" \in ready => buf # NoMsg
       /\ sel' = ready \cup (IF wake > 0 THEN {"ctl"} ELSE {})
       /\ sel' # {} \/ TimedOut # {} \/ ping = "expired"
  /\ tpc' = "timers"
  /\ UNCHANGED <<state, optSet, queue, wake, awaiting, id, buf, ping, spc, req, stale, fired, told>>

\* The callbacks of a set of entries are called and the entries freed.
Count(n) == IF n < 2 THEN n ELSE 2
Calls(slots, r) == Cardinality({s \in slots : awaiting[s].cb = "user" /\ awaiting[s].of = r})
                   + Cardinality({s \in slots : awaiting[s].cb = "garbage" /\ r = "garbage"})
CallBack(slots) ==
  /\ fired' = [r \in DOMAIN fired |-> Count(fired[r] + Calls(slots, r))]
  /\ awaiting' = [s \in Slots |-> IF s \in slots THEN FreeEntry ELSE awaiting[s]]

\* auth_cb and ping_cb disconnect on any status but success
Internal(slots) == \E s \in slots : awaiting[s].cb \in {"auth", "ping"}

\* handle_timers: time out the requests ...
FireTimers_PingsOnly ==
  /\ tpc = "timers" /\ tpc' = "ping"
  /\ UNCHANGED <<awaiting, fired, state, told>>
  /\ UNCHANGED <<optSet, sel, queue, wake, id, buf, ping, spc, req, stale>>
FireTimers ==
  /\ tpc = "timers" /\ tpc' = "ping"
  /\ CallBack(TimedOut)
  /\ IF Internal(TimedOut) THEN SetState("DISCONNECTED") ELSE UNCHANGED <<state, told>>
  /\ UNCHANGED <<optSet, sel, queue, wake, id, buf, ping, spc, req, stale>>

AfterTimers == IF state = "DISCONNECTED" THEN "close" ELSE IF sel = {} THEN "top" ELSE "ctl"

\* ... and send the next ping.
PingTimer_Once ==
  /\ tpc = "ping"
  /\ IF ping = "expired"
       THEN ping' = "none" /\ SendInternal(Msg("PING", 0, "ping", "none"), AfterTimers)
       ELSE tpc' = AfterTimers /\ UNCHANGED <<ping, queue, wake, state, told>>
  /\ UNCHANGED <<optSet, sel, awaiting, id, buf, spc, req, stale, fired>>
PingTimer ==
  /\ tpc = "ping"
  /\ IF ping = "expired"
       THEN ping' = "running" /\ SendInternal(Msg("PING", 0, "ping", "none"), AfterTimers)
       ELSE tpc' = AfterTimers /\ UNCHANGED <<ping, queue, wake, state, told>>
  /\ UNCHANGED <<optSet, sel, awaiting, id, buf, spc, req, stale, fired>>

\* control socket: one datagram per turn of the loop
ReadControl ==
  /\ tpc = "ctl" /\ tpc' = "read"
  /\ wake' = IF "ctl" \in sel THEN wake - 1 ELSE wake
  /\ UNCHANGED <<state, optSet, sel, queue, awaiting, id, buf, ping, spc, req, stale, fired, told>>

\* handle_message, BLYNK_CMD_RESPONSE: call back whoever awaits this id
Answered(i) == {s \in Slots : awaiting[s].id # 0 /\ awaiting[s].id = i}

HandleResponse(i, success) ==
  /\ tpc = "read" /\ "rd" \in sel
  /\ CallBack(Answered(i))
  /\ \/ /\ Internal(Answered(i)) /\ ~success
        /\ SetState("DISCONNECTED") /\ tpc' = "close"
     \/ /\ success /\ (\E s \in Answered(i) : awaiting[s].cb = "auth")
        /\ SetState("AUTHENTICATED") /\ tpc' = "read"
     \/ /\ ~Internal(Answered(i)) \/ (success /\ \A s \in Answered(i) : awaiting[s].cb # "auth")
        /\ tpc' = "read" /\ UNCHANGED <<state, told>>
  /\ UNCHANGED <<optSet, sel, queue, wake, id, buf, ping, spc, req, stale>>

\* handle_message, BLYNK_CMD_HARDWARE without a handler: answer ILLEGAL_COMMAND
\* (with a handler nothing changes here)
HandleIllegal(i) ==
  /\ tpc = "read" /\ "rd" \in sel
  /\ SendInternal(Msg("RESPONSE", i, "none", "none"), "read")
  /\ UNCHANGED <<optSet, sel, awaiting, id, buf, ping, spc, req, stale, fired>>

ReadDone ==
  /\ tpc = "read" /\ tpc' = "write"
  /\ UNCHANGED <<state, optSet, sel, queue, wake, awaiting, id, buf, ping, spc, req, stale, fired, told>>

\* "Send outbound message": what is written is a constant, not the message.
Write ==
  /\ tpc = "write" /\ tpc' = "top" /\ sel' = {}
  /\ IF buf # NoMsg /\ "wr" \in sel
       THEN buf' \in {buf, NoMsg} ELSE UNCHANGED buf
  /\ UNCHANGED <<state, optSet, queue, wake, awaiting, id, ping, spc, req, stale, fired, told>>

\* select, read or write fails, or the server closes
IoError ==
  /\ \/ tpc = "select"
     \/ tpc = "ctl" /\ "ctl" \in sel
     \/ tpc = "read" /\ "rd" \in sel
     \/ tpc = "write" /\ buf # NoMsg /\ "wr" \in sel
  /\ SetState("DISCONNECTED") /\ tpc' = "close"
  /\ UNCHANGED <<optSet, sel, queue, wake, awaiting, id, buf, ping, spc, req, stale, fired>>

Close ==
  /\ tpc = "close" /\ tpc' = "delay" /\ sel' = {}
  /\ UNCHANGED <<state, optSet, queue, wake, awaiting, id, buf, ping, spc, req, stale, fired, told>>

\* blynk_task waits reconnect_delay, then calls blynk_loop again
Reconnect ==
  /\ tpc = "delay" /\ tpc' = "open"
  /\ UNCHANGED <<state, optSet, sel, queue, wake, awaiting, id, buf, ping, spc, req, stale, fired, told>>

\* Steps the task can take by itself, and those that need the server or a failure
LocalStep ==
  \/ OpenInvalid \/ OpenFail \/ OpenOk \/ Reset \/ Login
  \/ Receive \/ ReceiveNothing \/ FireTimers \/ PingTimer \/ ReadControl
  \/ ReadDone \/ Write \/ Close \/ Reconnect

ClientTask ==
  \/ LocalStep \/ Select \/ IoError
  \/ \E i \in 0..MaxId, success \in BOOLEAN : HandleResponse(i, success)
  \/ \E i \in HardwareIds : HandleIllegal(i)
----------------------------------------------------------------------------
(* Time and the server                                                     *)

ExpirePing ==
  /\ ping = "running" /\ tpc \in Session /\ ping' = "expired"
  /\ UNCHANGED <<state, optSet, tpc, sel, queue, wake, awaiting, id, buf, spc, req, stale, fired, told>>

ExpireAwaiting(s) ==
  /\ awaiting[s].id # 0 /\ awaiting[s].timer = "running" /\ tpc \in Session
  /\ awaiting' = [awaiting EXCEPT ![s].timer = "expired"]
  /\ UNCHANGED <<state, optSet, tpc, sel, queue, wake, id, buf, ping, spc, req, stale, fired, told>>

Next ==
  \/ SetOptions \/ Start \/ StartReport
  \/ \E r \in Requests : SendCheck(r) \/ SendQueue(r) \/ SendWake(r)
  \/ ClientTask
  \/ ExpirePing \/ (\E s \in Slots : ExpireAwaiting(s))

Spec == Init /\ [][Next]_vars
----------------------------------------------------------------------------
\* Every variable has its type: the control queue and the control socket stay
\* within their sizes.
TypeOK ==
  /\ state \in {"STOPPED", "DISCONNECTED", "CONNECTED", "AUTHENTICATED"} /\ optSet \in BOOLEAN
  /\ tpc \in Session \cup {"none", "open", "reset", "login", "close", "delay", "ended"}
  /\ sel \subseteq {"rd", "wr", "ctl"}
  /\ queue \in Seq(Message) /\ Len(queue) <= QueueLen /\ wake \in 0..WakeCap
  /\ awaiting \in [Slots -> AwaitingEntry] /\ id \in 0..MaxId
  /\ buf \in [cmd : {"LOGIN", "PING", "USER", "RESPONSE"}, of : Requests \cup {"none"}]
             \cup {NoMsg}
  /\ ping \in Timer /\ spc \in {"idle", "created", "done"}
  /\ req \in [Requests -> {"new", "checked", "queued", "returned"}] /\ stale \subseteq Requests
  /\ fired \in [Requests \cup {"garbage"} -> 0..2]
  /\ told \in {"STOPPED", "DISCONNECTED", "CONNECTED", "AUTHENTICATED"}

\* An answer reaches the request it is for, and no other: while a session runs
\* the ids of outstanding requests differ, the wrap of the 16-bit id included; a
\* request's callback is called at most once, by its answer or by its time-out
\* but not by both; and what get_id leaves in the table when ids wrap (memset to
\* 9, blynk_iot.c:249) is never called at all.
CallbacksSound ==
  /\ fired["garbage"] = 0
  /\ \A r \in Requests : fired[r] <= 1
  /\ tpc \in Session =>
       \A s, t \in Slots : awaiting[s].id # 0 /\ awaiting[s].id = awaiting[t].id => s = t

\* A message accepted from another task is not left lying while the client
\* task sleeps: when it may block in select with nothing to write and the
\* queue is not empty, a datagram is there or its sender is about to send one
\* (queue and control socket are separate objects, blynk_iot.c:334-343).
NoLostWakeup ==
  (tpc = "select" /\ buf = NoMsg /\ queue # <<>>) =>
    wake > 0 \/ \E r \in Requests : req[r] = "queued"

\* Before the server accepted the login, of the requests other tasks made with
\* blynk_send_with_callback only those go out whose sender read AUTHENTICATED
\* in an earlier session (the state is checked at blynk_iot.c:1130, the message
\* queued at 1220).  blynk_send_response checks no state and has no caller.
UnauthenticatedOnlyStale ==
  (tpc \in Session /\ state = "CONNECTED" /\ buf.cmd = "USER") => buf.of \in stale

(***************************************************************************)
(* Liveness.  The client task is scheduled, a read ends (the buffer is     *)
(* finite), and select returns when a timer or the control socket is due.  *)
(* Nothing is assumed of the server.                                       *)
(***************************************************************************)
Due == wake > 0 \/ TimedOut # {} \/ ping = "expired"
Scheduled == WF_vars(LocalStep) /\ WF_vars(Select /\ Due)

FairSpec == Spec /\ Scheduled

\* The network takes what is written to it and the deadlines of requests pass;
\* pings are not relied on.
NetworkAccepts ==
  /\ SF_vars(Select /\ "wr" \in sel') /\ SF_vars(Write /\ buf' = NoMsg)
  /\ \A s \in Slots : WF_vars(ExpireAwaiting(s))

\* The login is decided: accepted, refused, or given up by its own time-out,
\* even when messages of other tasks got into the queue before it.
LoginDecided == NetworkAccepts => (state = "CONNECTED" ~> state \in {"AUTHENTICATED", "DISCONNECTED"})

\* A request that went out is called back, unless its session ends first.
RequestResolved ==
  NetworkAccepts =>
    \A r \in Requests :
      (tpc \in Session /\ \E s \in Slots : awaiting[s].id # 0 /\ awaiting[s].of = r)
        ~> (fired[r] > 0 \/ tpc \notin Session)

\* A write that never completes is noticed, although no ping can be sent then:
\* the pings fill the queue, and the one that does not fit disconnects
\* (blynk_iot.c:774, 943-946).  Only the ping timer is relied on; the network
\* may never take another byte.
StuckWriteNoticed == WF_vars(ExpirePing) => []<>(buf = NoMsg \/ tpc \notin Session)
=============================================================================
