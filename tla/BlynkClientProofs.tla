------------------------- MODULE BlynkClientProofs -------------------------
(***************************************************************************)
(* Proofs about BlynkClient for any number of callers, any size of the     *)
(* queue, of the table of awaited answers and of the id: an answer calls   *)
(* back the request it is for and no other; before the login is accepted   *)
(* only stale messages go out; no wake-up of the client task is lost.      *)
(***************************************************************************)
EXTENDS BlynkClient, FiniteSetTheorems, WellFoundedInduction, TLAPS

\* The datagram that select saw is there until it is read.
ControlReadable == tpc \in {"timers", "ping", "ctl"} /\ "ctl" \in sel => wake > 0

InSession == tpc \in Session \cup {"login"}

\* Ids are given in increasing order, from 1 in every session; the table is
\* filled with garbage only in the step that ends the session.
IdsIncrease ==
  InSession =>
    /\ id >= 1
    /\ \A s \in Slots : awaiting[s].id < id /\ awaiting[s].cb # "garbage"
    /\ \A s, t \in Slots : awaiting[s].id # 0 /\ awaiting[s].id = awaiting[t].id => s = t

\* A request is in one place at most: with its caller, in the queue, in the
\* table, or called back.
QueuedOf(r) == {i \in 1..Len(queue) : queue[i].of = r}
AwaitedOf(r) == {s \in Slots : awaiting[s].of = r}
OnePlace ==
  \A r \in Requests :
    /\ \A i, j \in QueuedOf(r) : i = j
    /\ \A s, t \in AwaitedOf(r) : s = t
    /\ fired[r] <= 1
    /\ QueuedOf(r) # {} => AwaitedOf(r) = {} /\ fired[r] = 0
    /\ AwaitedOf(r) # {} => fired[r] = 0
    /\ req[r] \in {"new", "checked"} => QueuedOf(r) = {} /\ AwaitedOf(r) = {} /\ fired[r] = 0

\* No caller passes the bytes get_id leaves behind as its callback.
QueueClean == \A i \in 1..Len(queue) : queue[i].cb # "garbage"

CallbackInv == TypeOK /\ ControlReadable /\ QueueClean /\ IdsIncrease /\ OnePlace /\ fired["garbage"] = 0

\* Until the server accepts the login, callers on their way, messages queued
\* and the message being written are all from before the session.
StaleOnly ==
  state = "CONNECTED" /\ InSession =>
    /\ \A r \in Requests : req[r] = "checked" => r \in stale
    /\ \A i \in 1..Len(queue) : queue[i].cmd = "USER" => queue[i].of \in stale
    /\ buf.cmd = "USER" => buf.of \in stale
----------------------------------------------------------------------------
\* The queue's two operations.
LEMMA QueueOps ==
  ASSUME NEW q \in Seq(Message)
  PROVE  /\ Len(q) \in Nat
         /\ \A m : /\ Len(Append(q, m)) = Len(q) + 1 /\ Append(q, m)[Len(q) + 1] = m
                   /\ \A i \in 1..Len(q) : Append(q, m)[i] = q[i]
         /\ \A m \in Message : Append(q, m) \in Seq(Message)
         /\ q # <<>> => /\ Head(q) = q[1] /\ 1 \in 1..Len(q) /\ Head(q) \in Message
                        /\ Tail(q) \in Seq(Message) /\ Len(Tail(q)) = Len(q) - 1
                        /\ \A i \in 1..(Len(q) - 1) : Tail(q)[i] = q[i + 1]
OBVIOUS

\* The messages the client task queues for itself.
LEMMA MessagesAre ==
  /\ \A i \in 0..MaxId : Msg("RESPONSE", i, "none", "none") \in Message
  /\ Msg("LOGIN", 0, "auth", "none") \in Message
  /\ Msg("PING", 0, "ping", "none") \in Message
  /\ \A r \in Requests : Msg("USER", 0, "user", r) \in Message /\ Msg("USER", 0, "none", r) \in Message
BY ConstantsAssumption DEF Msg, Message, Callback

LEMMA EntriesAre ==
  /\ FreeEntry \in AwaitingEntry /\ GarbageEntry \in AwaitingEntry
  /\ \A i \in 0..MaxId, m \in Message : Entry(i, m) \in AwaitingEntry
BY ConstantsAssumption DEF FreeEntry, GarbageEntry, AwaitingEntry, Entry, Message, Callback, Timer

\* Sending from the client task keeps the queue and the socket within their sizes.
LEMMA SendInternalType ==
  ASSUME TypeOK, NEW m \in Message, NEW pc \in Session, SendInternal(m, pc) \/ SendInternal(m, "close")
  PROVE  /\ queue' \in Seq(Message) /\ Len(queue') <= QueueLen /\ wake' \in 0..WakeCap
         /\ state' \in {state, "DISCONNECTED"} /\ told' \in {told, "DISCONNECTED"}
         /\ tpc' \in Session \cup {"close"}
<1>1. queue \in Seq(Message) /\ Len(queue) <= QueueLen /\ wake \in 0..WakeCap /\ QueueLen \in Nat /\ WakeCap \in Nat
  BY ConstantsAssumption DEF TypeOK
<1>2. queue' \in Seq(Message) /\ Len(queue') <= QueueLen
  BY <1>1, QueueOps, SMTT(30) DEF SendInternal
<1>3. wake' \in 0..WakeCap
  BY <1>1 DEF SendInternal, Woken
<1> QED BY <1>2, <1>3 DEF SendInternal, SetState

\* A set of numbers that is not empty has a least one.
LEMMA LeastNat ==
  ASSUME NEW S \in SUBSET Nat, S # {}
  PROVE  \E s \in S : \A t \in S : s <= t
<1>1. \E s \in S : \A t \in S : <<t, s>> \notin OpToRel(<, Nat)
  BY NatLessThanWellFounded, WFMin
<1>2. \A s, t \in Nat : t < s => <<t, s>> \in OpToRel(<, Nat)
  BY DEF OpToRel
<1>3. \A s, t \in Nat : ~(t < s) => s <= t
  OBVIOUS
<1>4. S \subseteq Nat
  OBVIOUS
<1> QED BY <1>1, <1>2, <1>3, <1>4, Zenon

\* get_id.
LEMMA GetIdType ==
  ASSUME TypeOK
  PROVE  /\ FreshId \in 0..MaxId /\ FreshId + 1 \in 0..MaxId
         /\ Table \in [Slots -> AwaitingEntry]
         /\ FreeSlots # {} => FirstFree \in FreeSlots
         /\ FreeSlots \subseteq Slots
<1>1. FreshId \in 0..MaxId /\ FreshId + 1 \in 0..MaxId
  BY ConstantsAssumption DEF TypeOK, FreshId, Wraps
<1>2. Table \in [Slots -> AwaitingEntry]
  BY EntriesAre DEF TypeOK, Table
<1>3. FreeSlots \in SUBSET Slots
  BY DEF FreeSlots
<1>4. FreeSlots # {} => \E s \in FreeSlots : \A t \in FreeSlots : s <= t
  <2>1. FreeSlots \subseteq Nat
    BY <1>3 DEF Slots
  <2> QED BY <2>1, LeastNat
<1> QED BY <1>1, <1>2, <1>3, <1>4 DEF FirstFree

LEMMA TypeInit == Init => TypeOK
<1> SUFFICES ASSUME Init PROVE TypeOK
  OBVIOUS
<1>1. awaiting \in [Slots -> AwaitingEntry]
  BY EntriesAre DEF Init
<1>2. queue \in Seq(Message) /\ Len(queue) <= QueueLen /\ wake \in 0..WakeCap /\ id \in 0..MaxId
  BY ConstantsAssumption DEF Init
<1>3. optSet \in BOOLEAN
  BY DEF Init
<1> QED BY <1>1, <1>2, <1>3 DEF Init, TypeOK, Timer

\* Steps of the callers, of time and of the server.
LEMMA TypeCallers ==
  ASSUME TypeOK,
         \/ SetOptions \/ Start \/ StartReport
         \/ \E r \in Requests : SendCheck(r) \/ SendQueue(r) \/ SendWake(r)
         \/ ExpirePing \/ \E s \in Slots : ExpireAwaiting(s)
  PROVE  TypeOK'
<1> USE DEF TypeOK
<1>1. CASE SetOptions BY <1>1 DEF SetOptions
<1>2. CASE Start BY <1>2 DEF Start
<1>3. CASE StartReport BY <1>3 DEF StartReport
<1>4. ASSUME NEW r \in Requests, SendCheck(r) PROVE TypeOK' BY <1>4 DEF SendCheck
<1>5. ASSUME NEW r \in Requests, SendQueue(r) PROVE TypeOK'
  <2>1. queue' \in Seq(Message) /\ Len(queue') <= QueueLen
    <3>1. CASE \E m \in Message : Len(queue) < QueueLen /\ queue' = Append(queue, m)
      BY <3>1, QueueOps, ConstantsAssumption
    <3>2. queue' = queue \/ \E m \in Message : Len(queue) < QueueLen /\ queue' = Append(queue, m)
      BY <1>5, MessagesAre DEF SendQueue
    <3> QED BY <3>1, <3>2
  <2>2. req' \in [Requests -> {"new", "checked", "queued", "returned"}]
    BY <1>5 DEF SendQueue
  <2> QED BY <1>5, <2>1, <2>2 DEF SendQueue
<1>6. ASSUME NEW r \in Requests, SendWake(r) PROVE TypeOK'
  <2>1. wake' \in 0..WakeCap
    BY <1>6, ConstantsAssumption DEF SendWake, Woken
  <2> QED BY <1>6, <2>1 DEF SendWake
<1>7. CASE ExpirePing BY <1>7 DEF ExpirePing, Timer
<1>8. ASSUME NEW s \in Slots, ExpireAwaiting(s) PROVE TypeOK'
  <2>1. [awaiting[s] EXCEPT !.timer = "expired"] \in AwaitingEntry
    BY DEF AwaitingEntry, Timer
  <2>2. awaiting' \in [Slots -> AwaitingEntry]
    BY <1>8, <2>1 DEF ExpireAwaiting
  <2> QED BY <1>8, <2>2 DEF ExpireAwaiting
<1> QED BY <1>1, <1>2, <1>3, <1>4, <1>5, <1>6, <1>7, <1>8

\* Calling back counts to 2 at most and frees entries.
LEMMA CallBackType ==
  ASSUME TypeOK, NEW slots \in SUBSET Slots, CallBack(slots)
  PROVE  awaiting' \in [Slots -> AwaitingEntry] /\ fired' \in [Requests \cup {"garbage"} -> 0..2]
<1>1. awaiting' \in [Slots -> AwaitingEntry]
  BY EntriesAre DEF CallBack, TypeOK
<1>2. IsFiniteSet(Slots)
  BY FS_Interval, ConstantsAssumption DEF Slots
<1>3. ASSUME NEW r \in Requests \cup {"garbage"} PROVE fired[r] + Calls(slots, r) \in Nat
  <2>1. IsFiniteSet({s \in slots : awaiting[s].cb = "user" /\ awaiting[s].of = r})
        /\ IsFiniteSet({s \in slots : awaiting[s].cb = "garbage" /\ r = "garbage"})
    BY <1>2, FS_Subset
  <2>2. Calls(slots, r) \in Nat
    BY <2>1, FS_CardinalityType DEF Calls
  <2> QED BY <2>2 DEF TypeOK
<1>4. \A n \in Nat : Count(n) \in 0..2
  BY DEF Count
<1>5. fired' = [r \in Requests \cup {"garbage"} |-> Count(fired[r] + Calls(slots, r))]
  BY DEF CallBack, TypeOK
<1>6. ASSUME NEW r \in Requests \cup {"garbage"} PROVE Count(fired[r] + Calls(slots, r)) \in 0..2
  BY <1>3, <1>4
<1> QED BY <1>1, <1>5, <1>6

\* Where handle_timers goes on.
LEMMA AfterTimersIn == AfterTimers \in Session \cup {"close"}
BY DEF AfterTimers, Session

LEMMA TypeClient ==
  ASSUME TypeOK, ControlReadable, ClientTask
  PROVE  TypeOK'
<1> USE DEF TypeOK, SetState
<1>1. CASE OpenInvalid BY <1>1 DEF OpenInvalid
<1>2. CASE OpenFail BY <1>2 DEF OpenFail
<1>3. CASE OpenOk BY <1>3 DEF OpenOk
<1>4. CASE Reset
  <2>1. awaiting' \in [Slots -> AwaitingEntry]
    BY <1>4, EntriesAre DEF Reset
  <2>2. queue' \in Seq(Message) /\ Len(queue') <= QueueLen /\ id' \in 0..MaxId
    BY <1>4, ConstantsAssumption DEF Reset
  <2> QED BY <1>4, <2>1, <2>2 DEF Reset, Timer
<1>5. CASE Login
  <2>1. "top" \in Session /\ Msg("LOGIN", 0, "auth", "none") \in Message
    BY MessagesAre DEF Session
  <2> QED BY <1>5, <2>1, SendInternalType DEF Login
<1>6. CASE Receive
  <2>1. Head(queue) \in Message /\ queue' \in Seq(Message) /\ Len(queue') <= QueueLen
    BY <1>6, QueueOps, ConstantsAssumption DEF Receive
  <2>2. Outgoing(Head(queue)) \in [cmd : {"LOGIN", "PING", "USER", "RESPONSE"}, of : Requests \cup {"none"}]
    BY <2>1 DEF Outgoing, Message
  <2>3. Entry(FreshId, Head(queue)) \in AwaitingEntry
    BY <2>1, EntriesAre, GetIdType
  <2>4. awaiting' \in [Slots -> AwaitingEntry] /\ id' \in 0..MaxId
    BY <1>6, <2>3, GetIdType DEF Receive
  <2>5. tpc' \in {"select", "close"} /\ state' \in {state, "DISCONNECTED"} /\ told' \in {told, "DISCONNECTED"}
        /\ buf' \in {buf, Outgoing(Head(queue))}
    BY <1>6 DEF Receive
  <2> QED BY <1>6, <2>1, <2>2, <2>4, <2>5 DEF Receive, Session
<1>7. CASE ReceiveNothing BY <1>7 DEF ReceiveNothing, Session
<1>8. CASE FireTimers
  <2>1. awaiting' \in [Slots -> AwaitingEntry] /\ fired' \in [Requests \cup {"garbage"} -> 0..2]
    BY <1>8, CallBackType DEF FireTimers, TimedOut
  <2> QED BY <1>8, <2>1 DEF FireTimers, Session
<1>9. CASE PingTimer
  <2>1. Msg("PING", 0, "ping", "none") \in Message /\ "top" \in Session
    BY MessagesAre DEF Session
  <2>2. CASE ping = "expired"
    <3>1. SendInternal(Msg("PING", 0, "ping", "none"), AfterTimers) /\ ping' = "running"
      BY <1>9, <2>2 DEF PingTimer
    <3> QED BY <1>9, <2>1, <3>1, AfterTimersIn, SendInternalType DEF PingTimer, Timer
  <2>3. CASE ping # "expired"
    BY <1>9, <2>3, AfterTimersIn DEF PingTimer
  <2> QED BY <2>2, <2>3
<1>10. CASE ReadControl
  <2>1. wake' \in 0..WakeCap
    BY <1>10, ConstantsAssumption DEF ReadControl, ControlReadable
  <2> QED BY <1>10, <2>1 DEF ReadControl, Session
<1>11. CASE ReadDone BY <1>11 DEF ReadDone, Session
<1>12. CASE Write BY <1>12 DEF Write, Session
<1>13. CASE Close BY <1>13 DEF Close
<1>14. CASE Reconnect BY <1>14 DEF Reconnect
<1>15. CASE Select
  <2>1. sel' \subseteq {"rd", "wr", "ctl"}
    BY <1>15 DEF Select
  <2> QED BY <1>15, <2>1 DEF Select, Session
<1>16. CASE IoError BY <1>16 DEF IoError
<1>17. ASSUME NEW i \in 0..MaxId, NEW success \in BOOLEAN, HandleResponse(i, success) PROVE TypeOK'
  <2>1. awaiting' \in [Slots -> AwaitingEntry] /\ fired' \in [Requests \cup {"garbage"} -> 0..2]
    BY <1>17, CallBackType DEF HandleResponse, Answered
  <2>2. tpc' \in {"close", "read"} /\ state' \in {state, "DISCONNECTED", "AUTHENTICATED"}
        /\ told' \in {told, "DISCONNECTED", "AUTHENTICATED"}
    BY <1>17 DEF HandleResponse
  <2> QED BY <1>17, <2>1, <2>2 DEF HandleResponse, Session
<1>18. ASSUME NEW i \in HardwareIds, HandleIllegal(i) PROVE TypeOK'
  <2>1. "read" \in Session /\ Msg("RESPONSE", i, "none", "none") \in Message
    BY MessagesAre, ConstantsAssumption DEF Session
  <2> QED BY <1>18, <2>1, SendInternalType DEF HandleIllegal
<1> QED BY <1>1, <1>2, <1>3, <1>4, <1>5, <1>6, <1>7, <1>8, <1>9, <1>10, <1>11, <1>12, <1>13, <1>14,
           <1>15, <1>16, <1>17, <1>18 DEF ClientTask, LocalStep

\* Only ReadControl takes a datagram.
LEMMA ControlStep ==
  ASSUME TypeOK, ControlReadable, [Next]_vars
  PROVE  ControlReadable'
<1> USE DEF ControlReadable
<1>1. wake \in Nat
  BY DEF TypeOK
<1>2. CASE Select
  BY <1>1, <1>2 DEF Select
<1>3. CASE FireTimers \/ ReadControl
  BY <1>3 DEF FireTimers, ReadControl
<1>4. CASE UNCHANGED vars
  BY <1>4 DEF vars
<1>5. ASSUME tpc' = tpc \/ tpc' \notin {"timers", "ping", "ctl"}, sel' = sel, wake' >= wake, wake' \in Nat
      PROVE  ControlReadable'
  BY <1>1, <1>5
<1>6. CASE PingTimer
  <2>1. sel' = sel /\ wake' \in {wake, wake + 1} /\ tpc = "ping"
    BY <1>6 DEF PingTimer, SendInternal, Woken
  <2> QED BY <1>1, <2>1
<1>7. ASSUME NEW m, NEW pc, SendInternal(m, pc) PROVE wake' \in {wake, wake + 1} /\ tpc' \in {pc, "close"}
  BY <1>7 DEF SendInternal, Woken
<1>8. CASE Login BY <1>1, <1>5, <1>7, <1>8 DEF Login
<1>9. ASSUME NEW i, HandleIllegal(i) PROVE ControlReadable' BY <1>1, <1>5, <1>7, <1>9 DEF HandleIllegal
<1>10. CASE OpenInvalid \/ OpenFail \/ OpenOk \/ Reset \/ Receive \/ ReceiveNothing \/ ReadDone \/ Write \/ Close
            \/ Reconnect \/ IoError
  BY <1>10 DEF OpenInvalid, OpenFail, OpenOk, Reset, Receive, ReceiveNothing, ReadDone, Write, Close,
               Reconnect, IoError
<1>11. ASSUME NEW i, NEW success, HandleResponse(i, success) PROVE ControlReadable'
  BY <1>11 DEF HandleResponse
<1>12. CASE SetOptions \/ Start \/ StartReport \/ ExpirePing
  BY <1>12 DEF SetOptions, Start, StartReport, ExpirePing
<1>13. ASSUME NEW s \in Slots, ExpireAwaiting(s) PROVE ControlReadable'
  BY <1>13 DEF ExpireAwaiting
<1>14. ASSUME NEW r \in Requests, SendCheck(r) \/ SendQueue(r) PROVE ControlReadable'
  BY <1>14 DEF SendCheck, SendQueue
<1>15. ASSUME NEW r \in Requests, SendWake(r) PROVE ControlReadable'
  <2>1. wake' \in {wake, wake + 1} /\ UNCHANGED <<tpc, sel>>
    BY <1>15 DEF SendWake, Woken
  <2> QED BY <1>1, <2>1
<1> QED BY <1>2, <1>3, <1>4, <1>6, <1>8, <1>9, <1>10, <1>11, <1>12, <1>13, <1>14, <1>15
        DEF Next, ClientTask, LocalStep

LEMMA TypeStep == TypeOK /\ ControlReadable /\ [Next]_vars => TypeOK' /\ ControlReadable'
<1> SUFFICES ASSUME TypeOK, ControlReadable, [Next]_vars PROVE TypeOK'
  BY ControlStep
<1>1. CASE ClientTask BY <1>1, TypeClient
<1>2. CASE UNCHANGED vars BY <1>2 DEF vars, TypeOK
<1> QED BY <1>1, <1>2, TypeCallers DEF Next
----------------------------------------------------------------------------
\* What calling back a set of awaited requests does to one of them.
LEMMA CallBackCounts ==
  ASSUME CallbackInv, tpc \in Session, NEW slots \in SUBSET Slots, CallBack(slots)
  PROVE  /\ \A s \in Slots : awaiting'[s] = IF s \in slots THEN FreeEntry ELSE awaiting[s]
         /\ fired'["garbage"] = 0
         /\ \A r \in Requests : fired'[r] = fired[r] \/ (fired'[r] = 1 /\ AwaitedOf(r) \cap slots # {})
<1> DEFINE User(r) == {s \in slots : awaiting[s].cb = "user" /\ awaiting[s].of = r}
           Garbage(r) == {s \in slots : awaiting[s].cb = "garbage" /\ r = "garbage"}
<1>1. /\ awaiting' = [s \in Slots |-> IF s \in slots THEN FreeEntry ELSE awaiting[s]]
      /\ fired \in [Requests \cup {"garbage"} -> 0..2]
      /\ fired' = [r \in Requests \cup {"garbage"} |-> Count(fired[r] + Cardinality(User(r)) + Cardinality(Garbage(r)))]
  <2>1. fired \in [Requests \cup {"garbage"} -> 0..2]
    BY DEF CallbackInv, TypeOK
  <2>2. IsFiniteSet(slots)
    <3>1. IsFiniteSet(Slots) BY FS_Interval, ConstantsAssumption DEF Slots
    <3> QED BY <3>1, FS_Subset
  <2>3. ASSUME NEW r \in Requests \cup {"garbage"}
        PROVE  fired[r] + Calls(slots, r) = fired[r] + Cardinality(User(r)) + Cardinality(Garbage(r))
    <3>1. IsFiniteSet(User(r)) /\ IsFiniteSet(Garbage(r))
      BY <2>2, FS_Subset
    <3>2. Cardinality(User(r)) \in Nat /\ Cardinality(Garbage(r)) \in Nat
      BY <3>1, FS_CardinalityType
    <3>3. Calls(slots, r) = Cardinality(User(r)) + Cardinality(Garbage(r))
      BY DEF Calls
    <3>4. fired[r] \in Nat
      BY <2>1
    <3> HIDE DEF User, Garbage
    <3> QED BY <3>2, <3>3, <3>4
  <2> HIDE DEF User, Garbage
  <2> QED BY <2>1, <2>3 DEF CallBack
<1>2. \A s \in Slots : awaiting[s].cb # "garbage" /\ awaiting[s].of \in Requests \cup {"none"}
  BY DEF CallbackInv, IdsIncrease, InSession, TypeOK, AwaitingEntry
<1>3. \A r : Cardinality(Garbage(r)) = 0
  <2>1. \A r : Garbage(r) = {} BY <1>2
  <2> QED BY <2>1, FS_EmptySet
<1>4. Cardinality(User("garbage")) = 0
  <2>1. User("garbage") = {} BY <1>2, ConstantsAssumption
  <2> QED BY <2>1, FS_EmptySet
<1>5. fired'["garbage"] = 0
  <2>1. fired["garbage"] = 0 BY DEF CallbackInv
  <2> HIDE DEF User, Garbage
  <2> QED BY <1>1, <1>3, <1>4, <2>1 DEF Count
<1>6. ASSUME NEW r \in Requests
      PROVE  fired'[r] = fired[r] \/ (fired'[r] = 1 /\ AwaitedOf(r) \cap slots # {})
  <2>1. fired[r] \in 0..1 /\ (AwaitedOf(r) # {} => fired[r] = 0) /\ \A s, t \in AwaitedOf(r) : s = t
    BY <1>1 DEF CallbackInv, OnePlace
  <2>2. User(r) \subseteq AwaitedOf(r) \cap slots
    BY DEF AwaitedOf
  <2>3. CASE User(r) = {}
    <3>1. Cardinality(User(r)) = 0 BY <2>3, FS_EmptySet
    <3> HIDE DEF User, Garbage
    <3> QED BY <1>1, <1>3, <2>1, <3>1 DEF Count
  <2>4. CASE User(r) # {}
    <3>1. PICK s : User(r) = {s}
      <4> HIDE DEF User
      <4> QED BY <2>1, <2>2, <2>4
    <3>2. Cardinality(User(r)) = 1 BY <3>1, FS_Singleton
    <3> HIDE DEF User, Garbage
    <3> QED BY <1>1, <1>3, <2>1, <2>2, <2>4, <3>2 DEF Count
  <2> QED BY <2>3, <2>4
<1>7. \A s \in Slots : awaiting'[s] = IF s \in slots THEN FreeEntry ELSE awaiting[s]
  BY <1>1
<1> QED BY <1>5, <1>6, <1>7

\* handle_timers and handle_message free what they call back.
LEMMA CallBackStep ==
  ASSUME CallbackInv, tpc \in Session, NEW slots \in SUBSET Slots, CallBack(slots),
         UNCHANGED <<queue, req, id>>
  PROVE  OnePlace' /\ IdsIncrease' /\ fired'["garbage"] = 0
<1>1. /\ \A s \in Slots : awaiting'[s] = IF s \in slots THEN FreeEntry ELSE awaiting[s]
      /\ fired'["garbage"] = 0
      /\ \A r \in Requests : fired'[r] = fired[r] \/ (fired'[r] = 1 /\ AwaitedOf(r) \cap slots # {})
  BY CallBackCounts
<1>2. OnePlace'
  <2> SUFFICES ASSUME NEW r \in Requests
               PROVE  /\ \A i, j \in QueuedOf(r)' : i = j
                      /\ \A s, t \in AwaitedOf(r)' : s = t
                      /\ fired'[r] <= 1
                      /\ QueuedOf(r)' # {} => AwaitedOf(r)' = {} /\ fired'[r] = 0
                      /\ AwaitedOf(r)' # {} => fired'[r] = 0
                      /\ req'[r] \in {"new", "checked"} =>
                           QueuedOf(r)' = {} /\ AwaitedOf(r)' = {} /\ fired'[r] = 0
    BY DEF OnePlace
  <2>1. QueuedOf(r)' = QueuedOf(r) /\ AwaitedOf(r)' = AwaitedOf(r) \ slots
    BY <1>1, ConstantsAssumption DEF QueuedOf, AwaitedOf, FreeEntry
  <2> QED BY <1>1, <2>1 DEF CallbackInv, OnePlace
<1>3. IdsIncrease'
  <2>1. InSession /\ id \in Nat
    BY DEF InSession, CallbackInv, TypeOK
  <2>2. id >= 1 /\ (\A s \in Slots : awaiting[s].id < id /\ awaiting[s].cb # "garbage")
        /\ \A s, t \in Slots : awaiting[s].id # 0 /\ awaiting[s].id = awaiting[t].id => s = t
    BY <2>1 DEF CallbackInv, IdsIncrease
  <2>3. FreeEntry.id = 0 /\ FreeEntry.cb # "garbage"
    BY DEF FreeEntry
  <2>4. \A s \in Slots : awaiting'[s].id < id /\ awaiting'[s].cb # "garbage"
    BY <1>1, <2>1, <2>2, <2>3
  <2>5. \A s, t \in Slots : awaiting'[s].id # 0 /\ awaiting'[s].id = awaiting'[t].id => s = t
    BY <1>1, <2>2, <2>3
  <2> QED BY <2>2, <2>4, <2>5 DEF IdsIncrease
<1> QED BY <1>1, <1>2, <1>3

\* A message of the client task itself joins the queue.
LEMMA OwnMessage ==
  ASSUME CallbackInv, UNCHANGED <<awaiting, fired, req>>,
         queue' = queue \/ \E m : m.of = "none" /\ queue' = Append(queue, m)
  PROVE  OnePlace'
<1>1. ASSUME NEW r \in Requests PROVE QueuedOf(r)' = QueuedOf(r) /\ AwaitedOf(r)' = AwaitedOf(r)
  <2>1. queue \in Seq(Message) /\ r # "none"
    BY ConstantsAssumption DEF CallbackInv, TypeOK
  <2>2. CASE queue' = queue
    BY <2>2 DEF QueuedOf, AwaitedOf
  <2>3. ASSUME NEW m, m.of = "none", queue' = Append(queue, m) PROVE QueuedOf(r)' = QueuedOf(r)
    <3>1. Len(queue') = Len(queue) + 1 /\ queue'[Len(queue) + 1] = m /\ Len(queue) \in Nat
          /\ \A i \in 1..Len(queue) : queue'[i] = queue[i]
      BY <2>1, <2>3, QueueOps
    <3> QED BY <2>1, <2>3, <3>1 DEF QueuedOf
  <2> QED BY <2>2, <2>3 DEF AwaitedOf
<1> QED BY <1>1 DEF CallbackInv, OnePlace

\* blynk_send_with_callback hands the request over to the queue.
LEMMA CallerQueues ==
  ASSUME CallbackInv, NEW r \in Requests, SendQueue(r)
  PROVE  OnePlace'
<1>0. queue \in Seq(Message) /\ req \in [Requests -> {"new", "checked", "queued", "returned"}]
  BY DEF CallbackInv, TypeOK
<1>1. UNCHANGED <<awaiting, fired>> /\ req[r] = "checked" /\ req'[r] # "checked" /\ req'[r] # "new"
      /\ \A q \in Requests \ {r} : req'[q] = req[q]
  BY <1>0 DEF SendQueue
<1>2. QueuedOf(r) = {} /\ AwaitedOf(r) = {} /\ fired[r] = 0
  BY <1>1 DEF CallbackInv, OnePlace
<1>3. \A q : AwaitedOf(q)' = AwaitedOf(q)
  BY <1>1 DEF AwaitedOf
<1>4. CASE queue' = queue
  <2>1. \A q : QueuedOf(q)' = QueuedOf(q) BY <1>4 DEF QueuedOf
  <2> QED BY <1>1, <1>2, <1>3, <2>1 DEF CallbackInv, OnePlace
<1>5. ASSUME NEW m, m.of = r, queue' = Append(queue, m) PROVE OnePlace'
  <2>1. Len(queue') = Len(queue) + 1 /\ queue'[Len(queue) + 1] = m /\ Len(queue) \in Nat
        /\ \A i \in 1..Len(queue) : queue'[i] = queue[i]
    BY <1>0, <1>5, QueueOps
  <2>2. \A q \in Requests \ {r} : QueuedOf(q)' = QueuedOf(q)
    BY <1>5, <2>1 DEF QueuedOf
  <2>3. \A i \in QueuedOf(r)' : i = Len(queue) + 1
    BY <1>2, <2>1 DEF QueuedOf
  <2>4. \A q \in Requests \ {r} :
          /\ \A i, j \in QueuedOf(q)' : i = j
          /\ \A s, t \in AwaitedOf(q)' : s = t
          /\ fired'[q] <= 1
          /\ QueuedOf(q)' # {} => AwaitedOf(q)' = {} /\ fired'[q] = 0
          /\ AwaitedOf(q)' # {} => fired'[q] = 0
          /\ req'[q] \in {"new", "checked"} => QueuedOf(q)' = {} /\ AwaitedOf(q)' = {} /\ fired'[q] = 0
    BY <1>1, <1>3, <2>2 DEF CallbackInv, OnePlace
  <2> QED BY <1>1, <1>2, <1>3, <2>3, <2>4 DEF OnePlace
<1>6. queue' = queue \/ \E m : m.of = r /\ queue' = Append(queue, m)
  BY DEF SendQueue, Msg
<1> QED BY <1>4, <1>5, <1>6

\* From the queue a request goes into the table, or it is not awaited.
LEMMA ReceiveStep ==
  ASSUME CallbackInv, Receive
  PROVE  OnePlace' /\ IdsIncrease'
<1> DEFINE m == Head(queue)
<1>0. /\ queue \in Seq(Message) /\ Len(queue) \in Nat /\ tpc = "top" /\ queue # <<>> /\ queue' = Tail(queue)
      /\ UNCHANGED <<req, fired>> /\ TypeOK /\ id \in Nat
  BY QueueOps DEF CallbackInv, TypeOK, Receive
<1>1. /\ m = queue[1] /\ 1 \in 1..Len(queue) /\ m \in Message
      /\ Len(queue') = Len(queue) - 1 /\ \A i \in 1..(Len(queue) - 1) : queue'[i] = queue[i + 1]
  BY <1>0, QueueOps
<1>2. InSession /\ id >= 1 /\ \A s \in Slots : awaiting[s].id < id /\ awaiting[s].cb # "garbage"
  BY <1>0 DEF CallbackInv, IdsIncrease, InSession, Session
<1>3. \A s, t \in Slots : awaiting[s].id # 0 /\ awaiting[s].id = awaiting[t].id => s = t
  BY <1>2 DEF CallbackInv, IdsIncrease
<1>a. ASSUME NEW x,
             \A r \in Requests : AwaitedOf(r)' \subseteq AwaitedOf(r) \cup (IF m.of = r THEN {x} ELSE {})
      PROVE  OnePlace'
  <2> SUFFICES ASSUME NEW r \in Requests
               PROVE  /\ \A i, j \in QueuedOf(r)' : i = j
                      /\ \A s, t \in AwaitedOf(r)' : s = t
                      /\ fired'[r] <= 1
                      /\ QueuedOf(r)' # {} => AwaitedOf(r)' = {} /\ fired'[r] = 0
                      /\ AwaitedOf(r)' # {} => fired'[r] = 0
                      /\ req'[r] \in {"new", "checked"} =>
                           QueuedOf(r)' = {} /\ AwaitedOf(r)' = {} /\ fired'[r] = 0
    BY DEF OnePlace
  <2>1. \A i \in QueuedOf(r)' : i \in Nat /\ i >= 1 /\ i + 1 \in QueuedOf(r)
    BY <1>0, <1>1 DEF QueuedOf
  <2>2. m.of = r => 1 \in QueuedOf(r)
    BY <1>1 DEF QueuedOf
  <2>3. /\ \A i, j \in QueuedOf(r) : i = j
        /\ \A s, t \in AwaitedOf(r) : s = t
        /\ fired[r] <= 1
        /\ QueuedOf(r) # {} => AwaitedOf(r) = {} /\ fired[r] = 0
        /\ AwaitedOf(r) # {} => fired[r] = 0
        /\ req[r] \in {"new", "checked"} => QueuedOf(r) = {} /\ AwaitedOf(r) = {} /\ fired[r] = 0
    BY DEF CallbackInv, OnePlace
  <2>4. \A i, j \in QueuedOf(r)' : i = j
    BY <2>1, <2>3
  <2>5. CASE m.of = r
    <3>1. QueuedOf(r)' = {} BY <2>1, <2>2, <2>3, <2>5
    <3>2. AwaitedOf(r)' \subseteq {x} BY <1>a, <2>2, <2>3, <2>5
    <3> QED BY <1>0, <2>2, <2>3, <2>5, <3>1, <3>2
  <2>6. CASE m.of # r
    <3>1. AwaitedOf(r)' \subseteq AwaitedOf(r) BY <1>a, <2>6
    <3>2. QueuedOf(r)' # {} => QueuedOf(r) # {} BY <2>1
    <3> QED BY <1>0, <2>3, <2>4, <3>1, <3>2
  <2> QED BY <2>5, <2>6
<1>4. CASE m.id # 0
  <2>1. UNCHANGED <<awaiting, id>>
    BY <1>4 DEF Receive
  <2>2. IdsIncrease'
    BY <1>2, <1>3, <2>1 DEF IdsIncrease
  <2>3. \A r \in Requests : AwaitedOf(r)' = AwaitedOf(r)
    BY <2>1 DEF AwaitedOf
  <2> QED BY <1>a, <2>2, <2>3
<1>5. CASE m.id = 0 /\ Wraps
  <2>1. FreshId = 0 /\ Table = [s \in Slots |-> GarbageEntry] /\ FreeSlots = {}
    BY <1>5, ConstantsAssumption DEF FreshId, Table, FreeSlots, GarbageEntry
  <2>2. awaiting' = Table /\ tpc' = "close"
    BY <1>5, <2>1 DEF Receive, GetId
  <2>3. \A r \in Requests : AwaitedOf(r)' = {}
    BY <2>1, <2>2, ConstantsAssumption DEF AwaitedOf, GarbageEntry
  <2>4. IdsIncrease'
    BY <2>2 DEF IdsIncrease, InSession, Session
  <2> QED BY <1>a, <2>3, <2>4
<1>6. CASE m.id = 0 /\ ~Wraps
  <2>1. FreshId = id /\ Table = awaiting /\ id' = id + 1
    BY <1>6 DEF FreshId, Table, Receive
  <2>2. awaiting' = awaiting \/ (FreeSlots # {} /\ awaiting' = [awaiting EXCEPT ![FirstFree] = Entry(id, m)])
    BY <1>6, <2>1 DEF Receive
  <2>3. CASE awaiting' = awaiting
    <3>1. IdsIncrease'
      <4>1. \A s \in Slots : awaiting[s].id \in Nat /\ awaiting[s].id < id + 1
        BY <1>0, <1>2 DEF TypeOK, AwaitingEntry
      <4> QED BY <1>0, <1>2, <1>3, <2>1, <2>3, <4>1 DEF IdsIncrease
    <3>2. \A r \in Requests : AwaitedOf(r)' = AwaitedOf(r)
      BY <2>3 DEF AwaitedOf
    <3> QED BY <1>a, <3>1, <3>2
  <2>4. CASE FreeSlots # {} /\ awaiting' = [awaiting EXCEPT ![FirstFree] = Entry(id, m)]
    <3>1. FirstFree \in Slots /\ awaiting \in [Slots -> AwaitingEntry]
      BY <1>0, <2>4, GetIdType DEF TypeOK
    <3>2. /\ awaiting'[FirstFree].id = id /\ awaiting'[FirstFree].cb = m.cb /\ awaiting'[FirstFree].of = m.of
          /\ \A s \in Slots \ {FirstFree} : awaiting'[s] = awaiting[s]
      BY <2>4, <3>1 DEF Entry
    <3>3. m.cb # "garbage"
      BY <1>1 DEF CallbackInv, QueueClean
    <3>4. \A s \in Slots : awaiting'[s].id < id + 1 /\ awaiting'[s].cb # "garbage"
      <4>1. \A s \in Slots : awaiting[s].id \in Nat BY <3>1 DEF AwaitingEntry
      <4> QED BY <1>0, <1>2, <3>1, <3>2, <3>3, <4>1
    <3>5. \A s, t \in Slots : awaiting'[s].id # 0 /\ awaiting'[s].id = awaiting'[t].id => s = t
      <4>1. \A s \in Slots : awaiting[s].id # id BY <1>0, <1>2
      <4> QED BY <1>3, <3>1, <3>2, <4>1
    <3>6. IdsIncrease'
      BY <1>0, <1>2, <2>1, <3>4, <3>5 DEF IdsIncrease
    <3>7. \A r \in Requests : AwaitedOf(r)' \subseteq AwaitedOf(r) \cup (IF m.of = r THEN {FirstFree} ELSE {})
      BY <3>1, <3>2 DEF AwaitedOf
    <3> QED BY <1>a, <3>6, <3>7
  <2> QED BY <2>2, <2>3, <2>4
<1> QED BY <1>4, <1>5, <1>6

\* Only the client's own callbacks and the callers' ever get into the queue.
LEMMA QueueCleanStep ==
  ASSUME TypeOK, QueueClean, Next
  PROVE  QueueClean'
<1>0. queue \in Seq(Message) /\ Len(queue) \in Nat
  BY QueueOps DEF TypeOK
<1>1. CASE queue' = queue
  BY <1>1 DEF QueueClean
<1>2. CASE Receive
  <2>1. queue' = Tail(queue) /\ queue # <<>>
    BY <1>2 DEF Receive
  <2>2. Len(queue') = Len(queue) - 1 /\ \A i \in 1..(Len(queue) - 1) : queue'[i] = queue[i + 1]
    BY <1>0, <2>1, QueueOps
  <2>3. \A i \in 1..(Len(queue) - 1) : i + 1 \in 1..Len(queue)
    BY <1>0
  <2> QED BY <2>2, <2>3 DEF QueueClean
<1>3. CASE queue' = <<>>
  BY <1>3 DEF QueueClean
<1>4. ASSUME NEW m, m.cb # "garbage", queue' = Append(queue, m)
      PROVE  QueueClean'
  <2>1. /\ Len(queue') = Len(queue) + 1 /\ queue'[Len(queue) + 1] = m
        /\ \A i \in 1..Len(queue) : queue'[i] = queue[i]
    BY <1>0, <1>4, QueueOps
  <2>2. \A i \in 1..(Len(queue) + 1) : i \in 1..Len(queue) \/ i = Len(queue) + 1
    BY <1>0
  <2> QED BY <1>4, <2>1, <2>2 DEF QueueClean
<1>5. ASSUME NEW m, NEW pc, SendInternal(m, pc) PROVE queue' = queue \/ queue' = Append(queue, m)
  BY <1>5 DEF SendInternal
<1>6. CASE Login
  <2>1. SendInternal(Msg("LOGIN", 0, "auth", "none"), "top") BY <1>6 DEF Login
  <2>2. Msg("LOGIN", 0, "auth", "none").cb # "garbage" BY DEF Msg
  <2> QED BY <1>1, <1>4, <1>5, <2>1, <2>2
<1>7. CASE PingTimer
  <2>1. queue' = queue \/ SendInternal(Msg("PING", 0, "ping", "none"), AfterTimers) BY <1>7 DEF PingTimer
  <2>2. Msg("PING", 0, "ping", "none").cb # "garbage" BY DEF Msg
  <2> QED BY <1>1, <1>4, <1>5, <2>1, <2>2
<1>8. CASE \E i \in HardwareIds : HandleIllegal(i)
  <2>1. PICK i \in HardwareIds : SendInternal(Msg("RESPONSE", i, "none", "none"), "read")
    BY <1>8 DEF HandleIllegal
  <2>2. Msg("RESPONSE", i, "none", "none").cb # "garbage" BY DEF Msg
  <2> QED BY <1>1, <1>4, <1>5, <2>1, <2>2
<1>9. CASE \E r \in Requests : SendQueue(r)
  <2>1. queue' = queue \/ \E r \in Requests, cb \in {"user", "none"} : queue' = Append(queue, Msg("USER", 0, cb, r))
    BY <1>9 DEF SendQueue
  <2>2. \A r, cb : cb \in {"user", "none"} => Msg("USER", 0, cb, r).cb # "garbage" BY DEF Msg
  <2> QED BY <1>1, <1>4, <2>1, <2>2
<1> QED
  BY <1>1, <1>2, <1>3, <1>6, <1>7, <1>8, <1>9
     DEF Next, ClientTask, LocalStep, SetOptions, Start, StartReport, SendCheck, SendWake,
         OpenInvalid, OpenFail, OpenOk, Reset, ReceiveNothing, FireTimers, ReadControl,
         ReadDone, Write, Close, Reconnect, Select, IoError, HandleResponse, ExpirePing, ExpireAwaiting

\* What touches neither table nor queue leaves every request where it is,
\* unless it leads into a session.
LEMMA ElsewhereStep ==
  ASSUME CallbackInv, UNCHANGED <<queue, awaiting, fired, id>>,
         InSession' => InSession,
         req' \in [Requests -> {"new", "checked", "queued", "returned"}],
         \A r \in Requests : req'[r] \in {"new", "checked"} => req[r] \in {"new", "checked"}
  PROVE  OnePlace' /\ IdsIncrease' /\ fired'["garbage"] = 0
<1>1. \A r \in Requests : QueuedOf(r)' = QueuedOf(r) /\ AwaitedOf(r)' = AwaitedOf(r)
  BY DEF QueuedOf, AwaitedOf
<1>2. OnePlace'
  BY <1>1 DEF CallbackInv, OnePlace
<1>3. IdsIncrease'
  <2> SUFFICES ASSUME InSession' PROVE IdsIncrease' BY DEF IdsIncrease
  <2>1. InSession OBVIOUS
  <2> QED BY <2>1 DEF CallbackInv, IdsIncrease
<1> QED BY <1>2, <1>3 DEF CallbackInv

\* Every step keeps each request in one place.
LEMMA PlacesStep ==
  ASSUME CallbackInv, Next
  PROVE  OnePlace' /\ IdsIncrease' /\ fired'["garbage"] = 0
<1>0. TypeOK /\ TypeOK' /\ fired["garbage"] = 0
  BY TypeStep DEF CallbackInv
<1>r. req \in [Requests -> {"new", "checked", "queued", "returned"}] /\ req' \in [Requests -> {"new", "checked", "queued", "returned"}]
  BY <1>0 DEF TypeOK
<1>1. CASE \/ SetOptions \/ Start \/ StartReport \/ ExpirePing
           \/ OpenInvalid \/ OpenFail \/ OpenOk \/ ReceiveNothing \/ ReadControl
           \/ ReadDone \/ Write \/ Close \/ Reconnect \/ Select \/ IoError
  <2>1. UNCHANGED <<queue, awaiting, fired, id, req>>
    BY <1>1 DEF SetOptions, Start, StartReport, ExpirePing, OpenInvalid, OpenFail, OpenOk, ReceiveNothing,
                ReadControl, ReadDone, Write, Close, Reconnect, Select, IoError
  <2>2. InSession' => InSession
    BY <1>1 DEF InSession, Session, SetOptions, Start, StartReport, ExpirePing, OpenInvalid, OpenFail, OpenOk,
                ReceiveNothing, ReadControl, ReadDone, Write, Close, Reconnect, Select, IoError
  <2> QED BY <1>r, <2>1, <2>2, ElsewhereStep
<1>2. CASE \E r \in Requests : SendCheck(r) \/ SendWake(r)
  <2>1. PICK r \in Requests : SendCheck(r) \/ SendWake(r)
    BY <1>2
  <2>2. UNCHANGED <<queue, awaiting, fired, id, tpc>>
    BY <2>1 DEF SendCheck, SendWake
  <2>3. \A q \in Requests : req'[q] \in {"new", "checked"} => req[q] \in {"new", "checked"}
    BY <1>r, <2>1 DEF SendCheck, SendWake
  <2>4. InSession' => InSession
    BY <2>2 DEF InSession
  <2> QED BY <1>r, <2>2, <2>3, <2>4, ElsewhereStep
<1>3. CASE \E r \in Requests : SendQueue(r)
  <2>1. PICK r \in Requests : SendQueue(r)
    BY <1>3
  <2>2. UNCHANGED <<awaiting, fired, id, tpc>>
    BY <2>1 DEF SendQueue
  <2>3. IdsIncrease'
    BY <2>2 DEF CallbackInv, IdsIncrease, InSession
  <2> QED BY <1>0, <2>1, <2>2, <2>3, CallerQueues
<1>4. CASE Login \/ PingTimer \/ \E i \in HardwareIds : HandleIllegal(i)
  <2>1. UNCHANGED <<awaiting, fired, id, req>> /\ InSession
    BY <1>4 DEF Login, PingTimer, HandleIllegal, InSession, Session
  <2>2. IdsIncrease'
    BY <2>1 DEF CallbackInv, IdsIncrease
  <2>3. queue' = queue \/ \E m : m.of = "none" /\ queue' = Append(queue, m)
    <3>1. \A cmd, i, cb : Msg(cmd, i, cb, "none").of = "none"
      BY DEF Msg
    <3>2. queue' = queue \/ \E cmd, i, cb : queue' = Append(queue, Msg(cmd, i, cb, "none"))
      BY <1>4 DEF Login, PingTimer, HandleIllegal, SendInternal
    <3> QED BY <3>1, <3>2
  <2> QED BY <1>0, <2>1, <2>2, <2>3, OwnMessage
<1>5. CASE Receive
  <2>1. fired' = fired BY <1>5 DEF Receive
  <2> QED BY <1>0, <1>5, <2>1, ReceiveStep
<1>6. CASE FireTimers
  <2>1. TimedOut \in SUBSET Slots /\ CallBack(TimedOut) /\ UNCHANGED <<queue, req, id>> /\ tpc \in Session
    BY <1>6 DEF FireTimers, TimedOut, Session
  <2> QED BY <2>1, CallBackStep
<1>7. CASE \E i \in 0..MaxId, success \in BOOLEAN : HandleResponse(i, success)
  <2>1. PICK i \in 0..MaxId, success \in BOOLEAN : HandleResponse(i, success)
    BY <1>7
  <2>2. Answered(i) \in SUBSET Slots /\ CallBack(Answered(i)) /\ UNCHANGED <<queue, req, id>> /\ tpc \in Session
    BY <2>1 DEF HandleResponse, Answered, Session
  <2> QED BY <2>2, CallBackStep
<1>8. CASE Reset
  <2>1. /\ awaiting' = [s \in Slots |-> FreeEntry] /\ queue' = <<>> /\ id' = 1
        /\ UNCHANGED <<req, fired>>
    BY <1>8 DEF Reset
  <2>2. \A r \in Requests : QueuedOf(r)' = {} /\ AwaitedOf(r)' = {}
    BY <2>1, ConstantsAssumption DEF QueuedOf, AwaitedOf, FreeEntry
  <2>3. OnePlace'
    BY <2>1, <2>2 DEF CallbackInv, OnePlace
  <2>4. IdsIncrease'
    BY <2>1 DEF IdsIncrease, FreeEntry
  <2> QED BY <1>0, <2>1, <2>3, <2>4
<1>9. CASE \E s \in Slots : ExpireAwaiting(s)
  <2>1. PICK x \in Slots : ExpireAwaiting(x)
    BY <1>9
  <2>2. UNCHANGED <<queue, fired, id, req, tpc>> /\ awaiting' = [awaiting EXCEPT ![x].timer = "expired"]
    BY <2>1 DEF ExpireAwaiting
  <2>3. \A s \in Slots : /\ awaiting'[s].id = awaiting[s].id
                         /\ awaiting'[s].cb = awaiting[s].cb
                         /\ awaiting'[s].of = awaiting[s].of
    <3>1. awaiting \in [Slots -> AwaitingEntry]
      BY <1>0 DEF TypeOK
    <3> QED BY <2>2, <3>1 DEF AwaitingEntry
  <2>4. \A r \in Requests : QueuedOf(r)' = QueuedOf(r) /\ AwaitedOf(r)' = AwaitedOf(r)
    BY <2>2, <2>3 DEF QueuedOf, AwaitedOf
  <2>5. OnePlace'
    BY <2>2, <2>4 DEF CallbackInv, OnePlace
  <2>6. IdsIncrease'
    BY <2>2, <2>3 DEF CallbackInv, IdsIncrease, InSession
  <2> QED BY <1>0, <2>2, <2>5, <2>6
<1> QED
  BY <1>1, <1>2, <1>3, <1>4, <1>5, <1>6, <1>7, <1>8, <1>9 DEF Next, ClientTask, LocalStep

\* A stuttering step changes nothing of it.
LEMMA CallbackStep == CallbackInv /\ [Next]_vars => CallbackInv'
<1> SUFFICES ASSUME CallbackInv, [Next]_vars PROVE CallbackInv'
  OBVIOUS
<1>1. TypeOK' /\ ControlReadable'
  BY TypeStep DEF CallbackInv
<1>2. CASE Next
  <2>1. QueueClean' BY <1>2, QueueCleanStep DEF CallbackInv
  <2> QED BY <1>1, <1>2, <2>1, PlacesStep DEF CallbackInv
<1>3. CASE UNCHANGED vars
  <2>1. \A r \in Requests : QueuedOf(r)' = QueuedOf(r) /\ AwaitedOf(r)' = AwaitedOf(r)
    BY <1>3 DEF vars, QueuedOf, AwaitedOf
  <2>2. OnePlace'
    BY <1>3, <2>1 DEF CallbackInv, OnePlace, vars
  <2>3. IdsIncrease' /\ QueueClean' /\ fired'["garbage"] = 0
    BY <1>3 DEF CallbackInv, IdsIncrease, InSession, QueueClean, vars
  <2> QED BY <1>1, <2>2, <2>3 DEF CallbackInv
<1> QED BY <1>2, <1>3

LEMMA CallbackInit == Init => CallbackInv
<1> SUFFICES ASSUME Init PROVE CallbackInv
  OBVIOUS
<1>1. TypeOK BY TypeInit
<1>2. ControlReadable /\ QueueClean
  BY DEF Init, ControlReadable, QueueClean
<1>3. IdsIncrease
  BY DEF Init, IdsIncrease, InSession, Session
<1>4. OnePlace
  <2>1. \A r \in Requests : QueuedOf(r) = {} /\ AwaitedOf(r) = {}
    BY ConstantsAssumption DEF Init, QueuedOf, AwaitedOf, FreeEntry
  <2>2. \A r \in Requests : fired[r] = 0
    BY DEF Init
  <2> QED BY <2>1, <2>2 DEF OnePlace
<1> QED BY <1>1, <1>2, <1>3, <1>4 DEF CallbackInv, Init

\* The variables of the client keep their types, and the control socket is
\* read only when select found a datagram in it.
THEOREM ClientTypeCorrect == Spec => [](TypeOK /\ ControlReadable)
<1>1. Init => TypeOK /\ ControlReadable
  BY TypeInit DEF Init, ControlReadable
<1> QED BY <1>1, TypeStep, PTL DEF Spec

\* For any number of requests, any table and queue size and any id width: the
\* ids of outstanding requests differ while a session runs, no callback is
\* called twice, and the bytes get_id leaves in the table when ids wrap are
\* never called (blynk_iot.c get_id, handle_timers, handle_message).
THEOREM CallbacksSafe == Spec => []CallbacksSound
<1>1. CallbackInv => CallbacksSound
  BY DEF CallbackInv, CallbacksSound, IdsIncrease, OnePlace, InSession
<1> QED BY <1>1, CallbackInit, CallbackStep, PTL DEF Spec
----------------------------------------------------------------------------
\* Until the login is accepted nobody new gets past the check of the state,
\* and what is queued or written comes from those who were past it.
LEMMA StaleStep ==
  ASSUME TypeOK, StaleOnly, Next
  PROVE  StaleOnly'
<1> SUFFICES ASSUME state' = "CONNECTED", InSession'
             PROVE  /\ \A r \in Requests : req'[r] = "checked" => r \in stale'
                    /\ \A i \in 1..Len(queue') : queue'[i].cmd = "USER" => queue'[i].of \in stale'
                    /\ buf'.cmd = "USER" => buf'.of \in stale'
  BY DEF StaleOnly
<1>0. queue \in Seq(Message) /\ Len(queue) \in Nat
      /\ req \in [Requests -> {"new", "checked", "queued", "returned"}]
  BY QueueOps DEF TypeOK
<1>1. CASE Reset
  <2>1. queue' = <<>> /\ buf' = NoMsg /\ stale' = {r \in Requests : req[r] = "checked"} /\ req' = req
    BY <1>1 DEF Reset
  <2> QED BY <2>1 DEF NoMsg
<1>2. CASE ~Reset
  <2>1. state = "CONNECTED" /\ InSession /\ stale' = stale
    BY <1>2 DEF Next, ClientTask, LocalStep, SetOptions, Start, StartReport, ExpirePing, OpenInvalid, OpenFail,
         OpenOk, Login, Receive, ReceiveNothing, FireTimers, PingTimer, ReadControl, ReadDone, Write, Close,
         Reconnect, Select, IoError, HandleResponse, HandleIllegal, ExpireAwaiting, SendCheck, SendQueue,
         SendWake, SendInternal, SetState, InSession, Session
  <2>2. /\ \A r \in Requests : req[r] = "checked" => r \in stale
        /\ \A i \in 1..Len(queue) : queue[i].cmd = "USER" => queue[i].of \in stale
        /\ buf.cmd = "USER" => buf.of \in stale
    BY <2>1 DEF StaleOnly
  <2>3. ASSUME NEW m, m.cmd = "USER" => m.of \in stale, queue' = Append(queue, m)
        PROVE  \A i \in 1..Len(queue') : queue'[i].cmd = "USER" => queue'[i].of \in stale'
    <3>1. /\ Len(queue') = Len(queue) + 1 /\ queue'[Len(queue) + 1] = m
          /\ \A i \in 1..Len(queue) : queue'[i] = queue[i]
      BY <1>0, <2>3, QueueOps
    <3>2. \A i \in 1..(Len(queue) + 1) : i \in 1..Len(queue) \/ i = Len(queue) + 1
      BY <1>0
    <3> QED BY <2>1, <2>2, <2>3, <3>1, <3>2
  <2>4. CASE Receive
    <3>1. queue # <<>> /\ queue' = Tail(queue) /\ buf' \in {buf, Outgoing(Head(queue))} /\ req' = req
      BY <2>4 DEF Receive
    <3>2. /\ Head(queue) = queue[1] /\ 1 \in 1..Len(queue)
          /\ Len(queue') = Len(queue) - 1 /\ \A i \in 1..(Len(queue) - 1) : queue'[i] = queue[i + 1]
      BY <1>0, <3>1, QueueOps
    <3>3. \A i \in 1..(Len(queue) - 1) : i + 1 \in 1..Len(queue)
      BY <1>0
    <3>4. buf'.cmd = "USER" => buf'.of \in stale
      BY <2>2, <3>1, <3>2 DEF Outgoing
    <3> QED BY <2>1, <2>2, <3>1, <3>2, <3>3, <3>4
  <2>5. CASE Login \/ PingTimer \/ \E i \in HardwareIds : HandleIllegal(i)
    <3>1. \A i, cb : \A cmd \in {"LOGIN", "PING", "RESPONSE"} : Msg(cmd, i, cb, "none").cmd # "USER"
      BY DEF Msg
    <3>2. queue' = queue \/ \E i, cb : \E cmd \in {"LOGIN", "PING", "RESPONSE"} :
                              queue' = Append(queue, Msg(cmd, i, cb, "none"))
      BY <2>5 DEF Login, PingTimer, HandleIllegal, SendInternal
    <3>3. UNCHANGED <<req, buf>>
      BY <2>5 DEF Login, PingTimer, HandleIllegal
    <3> QED BY <2>1, <2>2, <2>3, <3>1, <3>2, <3>3
  <2>6. CASE \E r \in Requests : SendQueue(r)
    <3>1. PICK r \in Requests : SendQueue(r)
      BY <2>6
    <3>2. req[r] = "checked" /\ buf' = buf /\ \A q \in Requests : req'[q] = "checked" => req[q] = "checked"
      BY <1>0, <3>1 DEF SendQueue
    <3>3. queue' = queue \/ \E cb : queue' = Append(queue, Msg("USER", 0, cb, r))
      BY <3>1 DEF SendQueue
    <3>4. \A cb : Msg("USER", 0, cb, r).of \in stale
      BY <2>2, <3>2 DEF Msg
    <3> QED BY <2>1, <2>2, <2>3, <3>2, <3>3, <3>4
  <2>7. CASE /\ queue' = queue /\ buf' \in {buf, NoMsg}
             /\ \A q \in Requests : req'[q] = "checked" => req[q] = "checked"
    BY <2>1, <2>2, <2>7 DEF NoMsg
  <2>8. CASE \E r \in Requests : SendCheck(r) \/ SendWake(r)
    <3>1. PICK r \in Requests : SendWake(r)
      BY <2>1, <2>8 DEF SendCheck, SendAllowed
    <3> QED BY <1>0, <2>7, <3>1 DEF SendWake
  <2>9. CASE Write
    BY <2>7, <2>9 DEF Write
  <2> QED
    BY <1>2, <2>4, <2>5, <2>6, <2>7, <2>8, <2>9
       DEF Next, ClientTask, LocalStep, SetOptions, Start, StartReport, ExpirePing, OpenInvalid, OpenFail,
         OpenOk, ReceiveNothing, FireTimers, ReadControl, ReadDone, Close,
         Reconnect, Select, IoError, HandleResponse, ExpireAwaiting
<1> QED BY <1>1, <1>2

\* Before the login is accepted, what goes out for other tasks is only what
\* they decided to send in an earlier session, however many of them there are
\* (the state is checked at blynk_iot.c:1130, the message queued at 1220).
THEOREM OnlyStaleBeforeLogin == Spec => []UnauthenticatedOnlyStale
<1>1. Init => StaleOnly
  BY DEF Init, StaleOnly
<1>2. StaleOnly /\ TypeOK /\ [Next]_vars => StaleOnly'
  <2> SUFFICES ASSUME StaleOnly, TypeOK, UNCHANGED vars PROVE StaleOnly'
    BY StaleStep
  <2> QED BY DEF StaleOnly, InSession, vars
<1>3. StaleOnly => UnauthenticatedOnlyStale
  BY DEF StaleOnly, UnauthenticatedOnlyStale, InSession
<1> QED BY <1>1, <1>2, <1>3, ClientTypeCorrect, PTL DEF Spec
----------------------------------------------------------------------------
\* While the write that wakes the client task cannot fail, no step strands a
\* queued message.
LEMMA WakeupStep ==
  ASSUME ~WakeMayFail, TypeOK, NoLostWakeup, Next
  PROVE  NoLostWakeup'
<1> SUFFICES ASSUME tpc' = "select", buf' = NoMsg, queue' # <<>>
             PROVE  wake' > 0 \/ \E r \in Requests : req'[r] = "queued"
  BY DEF NoLostWakeup
<1>0. queue \in Seq(Message) /\ wake \in 0..WakeCap /\ WakeCap \in Nat \ {0}
      /\ req \in [Requests -> {"new", "checked", "queued", "returned"}]
  BY ConstantsAssumption DEF TypeOK
<1>1. CASE Receive
  <2>1. queue # <<>> /\ buf' = Outgoing(Head(queue))
    BY <1>1 DEF Receive, GetId
  <2>2. Head(queue) \in Message
    BY <1>0, <2>1, QueueOps
  <2> QED BY <2>1, <2>2 DEF Outgoing, NoMsg, Message
<1>2. CASE ReceiveNothing
  BY <1>2 DEF ReceiveNothing
<1>3. CASE \E r \in Requests : SendQueue(r)
  <2>1. PICK r \in Requests : SendQueue(r)
    BY <1>3
  <2>2. CASE req'[r] = "queued"
    BY <2>2
  <2>3. CASE req'[r] # "queued"
    <3>1. UNCHANGED <<queue, tpc, buf, wake>> /\ req[r] = "checked"
          /\ \A q \in Requests \ {r} : req'[q] = req[q]
      BY <1>0, <2>1, <2>3 DEF SendQueue
    <3> QED BY <3>1 DEF NoLostWakeup
  <2> QED BY <2>2, <2>3
<1>4. CASE \E r \in Requests : SendWake(r)
  <2>1. wake' = IF wake < WakeCap THEN wake + 1 ELSE wake
    BY <1>4 DEF SendWake, Woken
  <2> QED BY <1>0, <2>1
<1>5. CASE UNCHANGED <<tpc, buf, queue, wake, req>>
  BY <1>5 DEF NoLostWakeup
<1>6. CASE \E r \in Requests : SendCheck(r)
  <2>1. PICK r \in Requests : SendCheck(r)
    BY <1>6
  <2>2. UNCHANGED <<queue, tpc, buf, wake>> /\ req[r] = "new"
        /\ \A q \in Requests \ {r} : req'[q] = req[q]
    BY <1>0, <2>1 DEF SendCheck
  <2> QED BY <2>2 DEF NoLostWakeup
<1>7. ASSUME NEW m, NEW pc, SendInternal(m, pc) PROVE tpc' \in {pc, "close"}
  BY <1>7 DEF SendInternal
<1>8. CASE Login
  BY <1>7, <1>8 DEF Login
<1>9. CASE PingTimer
  <2>1. tpc' \in {AfterTimers, "close"}
    BY <1>7, <1>9 DEF PingTimer
  <2> QED BY <2>1 DEF AfterTimers
<1>10. CASE \E i \in HardwareIds : HandleIllegal(i)
  BY <1>7, <1>10 DEF HandleIllegal
<1> QED
  BY <1>1, <1>2, <1>3, <1>4, <1>5, <1>6, <1>8, <1>9, <1>10
     DEF Next, ClientTask, LocalStep, SetOptions, Start, StartReport, ExpirePing, OpenInvalid, OpenFail,
         OpenOk, Reset, FireTimers, ReadControl, ReadDone, Write, Close,
         Reconnect, Select, IoError, HandleResponse, ExpireAwaiting

\* When the write to the control socket cannot fail, no message is left in the
\* queue of a client task that sleeps with nothing to write: queueing and
\* waking are two steps of every sender (blynk_iot.c:334-343), and the client
\* reads one datagram per turn of its loop whatever it took from the queue.
THEOREM WakeupNotLost ==
  ASSUME ~WakeMayFail
  PROVE  Spec => []NoLostWakeup
<1>1. Init => NoLostWakeup
  BY DEF Init, NoLostWakeup
<1>2. NoLostWakeup /\ TypeOK /\ [Next]_vars => NoLostWakeup'
  <2> SUFFICES ASSUME NoLostWakeup, TypeOK, UNCHANGED vars PROVE NoLostWakeup'
    BY WakeupStep
  <2> QED BY DEF NoLostWakeup, vars
<1> QED BY <1>1, <1>2, ClientTypeCorrect, PTL DEF Spec
=============================================================================
