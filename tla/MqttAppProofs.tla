--------------------------- MODULE MqttAppProofs ---------------------------
(***************************************************************************)
(* For any number of ids, failures, messages and parts: pending_msg_count  *)
(* is the size of the outbox, and a message given to app_mqtt_publish is   *)
(* kept until the broker has it or it is too old.  The invariant adds that *)
(* a PUBACK is on its way only when the broker has the message.  Every     *)
(* action is shown to be one that keeps the outbox sound (BoxStep) and one *)
(* that brings no PUBACK out of nothing (NetStep).                         *)
(***************************************************************************)
EXTENDS MqttApp, SequenceTheorems, TLAPS

HasPub(b) == \E i \in DOMAIN b : b[i].type = "PUB"
PubackIn(d) == \E i \in DOMAIN d : d[i].type = "PUBACK"

BoxOK == outbox \in Seq(Item) /\ PendingCounts
NetOK == down \in Seq(Ack) /\ (PubackIn(down) => got)
\* mqtt_even is idle or subscribes one of its two topics
EpcOK == epc \in {"idle", "sub1", "sub2"}
IInv == BoxOK /\ NetOK /\ PublishKept /\ EpcOK

BoxStep ==
  /\ outbox' \in Seq(Item) /\ pending' = Len(outbox')
  /\ HasPub(outbox) => HasPub(outbox') \/ expired' \/ got
  /\ apc = "new" => apc' = "new" \/ HasPub(outbox') \/ expired'
  /\ expired => expired'
NetStep ==
  /\ down' \in Seq(Ack)
  /\ PubackIn(down') => PubackIn(down) \/ got'
  /\ got => got'
----------------------------------------------------------------------------
(* The outbox operations.                                                  *)

(* RemoveAt takes out one item and keeps every other.                      *)
LEMMA RemoveFacts ==
  ASSUME NEW s \in Seq(Item), NEW i \in DOMAIN s
  PROVE  /\ RemoveAt(s, i) \in Seq(Item)
         /\ Len(RemoveAt(s, i)) = Len(s) - 1
         /\ \A k \in DOMAIN s : k # i => \E j \in DOMAIN RemoveAt(s, i) : RemoveAt(s, i)[j] = s[k]
<1> DEFINE a == SubSeq(s, 1, i - 1)
           b == SubSeq(s, i + 1, Len(s))
<1>1. i \in 1..Len(s) /\ Len(s) \in Nat
  OBVIOUS
<1>2. /\ a \in Seq(Item) /\ Len(a) = i - 1
      /\ \A k \in 1..(i - 1) : a[k] = s[k]
  BY <1>1
<1>3. /\ b \in Seq(Item) /\ Len(b) = Len(s) - i
      /\ \A k \in 1..(Len(s) - i) : b[k] = s[i + k]
  BY <1>1
<1> HIDE DEF a, b
<1> DEFINE c == a \o b
<1>c. a \in Seq(Item) /\ b \in Seq(Item)
  BY <1>2, <1>3
<1>d. /\ c \in Seq(Item) /\ Len(c) = Len(a) + Len(b)
      /\ \A j \in 1..(Len(a) + Len(b)) : c[j] = IF j <= Len(a) THEN a[j] ELSE b[j - Len(a)]
  BY ONLY <1>c, ConcatProperties, Zenon
<1> HIDE DEF c
<1>e. Len(a) = i - 1 /\ Len(b) = Len(s) - i /\ (i - 1) + (Len(s) - i) = Len(s) - 1
  BY <1>1, <1>2, <1>3
<1>4. /\ c \in Seq(Item) /\ Len(c) = Len(s) - 1
      /\ \A j \in 1..(Len(s) - 1) : c[j] = IF j <= i - 1 THEN a[j] ELSE b[j - (i - 1)]
  BY ONLY <1>d, <1>e, Zenon
<1>5. ASSUME NEW k \in DOMAIN s, k # i PROVE \E j \in DOMAIN c : c[j] = s[k]
  <2>0. DOMAIN c = 1..(Len(s) - 1)
    BY ONLY <1>4
  <2>1. CASE k < i
    <3>1. k \in DOMAIN c /\ c[k] = s[k]
      BY <1>1, <1>2, <1>4, <2>0, <2>1
    <3> QED BY <3>1
  <2>2. CASE k > i
    <3> DEFINE j == k - 1
    <3>1. /\ j \in 1..(Len(s) - 1) /\ ~ (j <= i - 1)
          /\ j - (i - 1) = k - i /\ k - i \in 1..(Len(s) - i) /\ i + (k - i) = k
      BY <1>1, <2>2
    <3> HIDE DEF j
    <3>2. c[j] = b[k - i]
      BY ONLY <1>4, <3>1, Zenon
    <3>3. b[k - i] = s[k]
      BY <1>3, <3>1
    <3> QED BY <2>0, <3>1, <3>2, <3>3
  <2> QED BY <1>1, <1>5, <2>1, <2>2
<1>6. RemoveAt(s, i) = c
  BY DEF RemoveAt, a, b, c
<1> QED BY <1>4, <1>5, <1>6

(* outbox_set_pending changes the state of an item and nothing else.       *)
LEMMA SetPendingFacts ==
  ASSUME NEW s \in Seq(Item), NEW id, NEW st \in {"QUEUED", "TRANSMITTED", "CONFIRMED"}
  PROVE  /\ SetPending(s, id, st) \in Seq(Item)
         /\ Len(SetPending(s, id, st)) = Len(s)
         /\ HasPub(s) => HasPub(SetPending(s, id, st))
<1> DEFINE t == SetPending(s, id, st)
<1>a. \A x \in Item : [x EXCEPT !.st = st] \in Item /\ [x EXCEPT !.st = st].type = x.type
  BY DEF Item
<1>b. \A k \in DOMAIN s : s[k] \in Item
  OBVIOUS
<1>c. DOMAIN t = DOMAIN s
  BY DEF SetPending
<1>d. \A k \in DOMAIN s : t[k] = s[k] \/ t[k] = [s[k] EXCEPT !.st = st]
  BY DEF SetPending
<1>1. /\ DOMAIN t = DOMAIN s
      /\ \A k \in DOMAIN s : t[k] \in Item /\ t[k].type = s[k].type
  BY <1>a, <1>b, <1>c, <1>d
<1>2. t \in [1..Len(s) -> Item]
  BY <1>1 DEF SetPending
<1>3. t \in Seq(Item) /\ Len(t) = Len(s)
  BY <1>2
<1>4. HasPub(s) => HasPub(t)
  BY <1>1 DEF HasPub
<1> QED BY <1>3, <1>4

(* A message enters the outbox at its end.                                 *)
LEMMA EnqueueFacts ==
  ASSUME NEW s \in Seq(Item), NEW type \in {"SUB", "PUB"}, NEW id \in Ids, NEW what \in Topics \cup {"none"},
         type = "SUB" => what \in Topics
  PROVE  /\ Enqueue(s, type, id, what) \in Seq(Item)
         /\ Len(Enqueue(s, type, id, what)) = Len(s) + 1
         /\ HasPub(s) \/ type = "PUB" => HasPub(Enqueue(s, type, id, what))
         /\ DOMAIN s \subseteq DOMAIN Enqueue(s, type, id, what)
<1> DEFINE x == [type |-> type, id |-> id, what |-> what, st |-> "QUEUED"]
           t == Append(s, x)
<1>1. x \in Item /\ x.type = type
  BY DEF Item
<1> HIDE DEF x
<1>2. /\ t \in Seq(Item) /\ Len(t) = Len(s) + 1
      /\ DOMAIN s \subseteq DOMAIN t /\ Len(s) + 1 \in DOMAIN t
      /\ \A k \in DOMAIN s : t[k] = s[k]
      /\ t[Len(s) + 1] = x
  BY <1>1
<1>3. HasPub(s) \/ type = "PUB" => HasPub(t)
  BY <1>1, <1>2 DEF HasPub
<1>4. Enqueue(s, type, id, what) = t
  BY DEF Enqueue, x
<1> QED BY <1>2, <1>3, <1>4
----------------------------------------------------------------------------
(* The outbox.                                                             *)

(* Nothing happens to the outbox.                                          *)
LEMMA BoxSame ==
  ASSUME IInv, UNCHANGED <<outbox, pending, expired>>, apc = "new" => apc' = "new"
  PROVE  BoxStep
BY DEF IInv, BoxOK, PendingCounts, BoxStep, HasPub

(* An item leaves because it is too old.                                   *)
LEMMA BoxExpire ==
  ASSUME IInv, NEW i \in DOMAIN outbox, ExpireOne(i), UNCHANGED apc
  PROVE  BoxStep
<1>1. outbox \in Seq(Item) /\ pending = Len(outbox) /\ Len(outbox) \in Nat /\ Len(outbox) > 0
  BY DEF IInv, BoxOK, PendingCounts
<1>2. /\ outbox' \in Seq(Item) /\ Len(outbox') = Len(outbox) - 1
      /\ pending' = pending - 1 /\ expired'
  BY <1>1, RemoveFacts DEF ExpireOne
<1> QED BY <1>1, <1>2 DEF BoxStep

(* An acknowledgement takes out an item of its own type: a PUBACK the      *)
(* message, which the broker then has, a SUBACK never the message.         *)
LEMMA BoxAck ==
  ASSUME IInv, NEW type \in {"SUB", "PUB"}, NEW id, Acknowledge(type, id),
         type = "PUB" => got, UNCHANGED <<expired, apc>>
  PROVE  BoxStep
<1>1. outbox \in Seq(Item) /\ pending = Len(outbox)
  BY DEF IInv, BoxOK, PendingCounts
<1>2. PICK i \in DOMAIN outbox :
        /\ outbox[i].type = type
        /\ outbox' = IF type = "PUB" THEN SetPending(RemoveAt(outbox, i), id, "CONFIRMED")
                                     ELSE RemoveAt(outbox, i)
        /\ pending' = pending - 1
  BY DEF Acknowledge, Matches
<1> DEFINE rest == RemoveAt(outbox, i)
<1>3. /\ rest \in Seq(Item) /\ Len(rest) = Len(outbox) - 1
      /\ \A k \in DOMAIN outbox : k # i => \E j \in DOMAIN rest : rest[j] = outbox[k]
  BY <1>1, RemoveFacts
<1> HIDE DEF rest
<1>4. outbox' \in Seq(Item) /\ Len(outbox') = Len(rest)
  <2>1. CASE type = "PUB"
    BY <1>2, <1>3, <2>1, SetPendingFacts DEF rest
  <2>2. CASE type = "SUB"
    BY <1>2, <1>3, <2>2 DEF rest
  <2> QED BY <2>1, <2>2
<1>5. type = "SUB" => (HasPub(outbox) => HasPub(outbox'))
  BY <1>2, <1>3 DEF HasPub, rest
<1> QED BY <1>1, <1>2, <1>3, <1>4, <1>5 DEF BoxStep

(* Something is sent again.                                                *)
LEMMA BoxResend ==
  ASSUME IInv, NEW id, outbox' \in {outbox, SetPending(outbox, id, "TRANSMITTED")},
         UNCHANGED <<pending, expired, apc>>
  PROVE  BoxStep
<1>1. outbox \in Seq(Item) /\ pending = Len(outbox)
  BY DEF IInv, BoxOK, PendingCounts
<1>2. outbox' \in Seq(Item) /\ Len(outbox') = Len(outbox) /\ (HasPub(outbox) => HasPub(outbox'))
  BY <1>1, SetPendingFacts
<1> QED BY <1>1, <1>2 DEF BoxStep

(* A subscription enters the outbox.                                       *)
LEMMA BoxSubscribe ==
  ASSUME IInv, NEW id \in Ids, NEW what \in Topics,
         outbox' = SetPending(Enqueue(outbox, "SUB", id, what), id, "TRANSMITTED"),
         pending' = pending + 1, UNCHANGED <<expired, apc>>
  PROVE  BoxStep
<1> DEFINE b == Enqueue(outbox, "SUB", id, what)
<1>1. outbox \in Seq(Item) /\ pending = Len(outbox)
  BY DEF IInv, BoxOK, PendingCounts
<1>2. b \in Seq(Item) /\ Len(b) = Len(outbox) + 1 /\ (HasPub(outbox) => HasPub(b))
  BY <1>1, EnqueueFacts
<1> HIDE DEF b
<1>3. outbox' \in Seq(Item) /\ Len(outbox') = Len(b) /\ (HasPub(b) => HasPub(outbox'))
  BY <1>2, SetPendingFacts DEF b
<1> QED BY <1>1, <1>2, <1>3 DEF BoxStep

(* A message enters the outbox, whatever the connection does with it.      *)
LEMMA BoxPublish ==
  ASSUME IInv, NEW id \in Ids, PublishLater(id) \/ PublishNow(id) \/ PublishFails(id)
  PROVE  BoxStep
<1> DEFINE b == Enqueue(outbox, "PUB", id, "none")
<1>1. outbox \in Seq(Item) /\ pending = Len(outbox)
  BY DEF IInv, BoxOK, PendingCounts
<1>2. /\ b \in Seq(Item) /\ Len(b) = Len(outbox) + 1 /\ HasPub(b)
      /\ DOMAIN outbox \subseteq DOMAIN b
  BY <1>1, EnqueueFacts
<1>3. CASE outbox' = b /\ pending' = pending + 1 /\ UNCHANGED expired
  BY <1>1, <1>2, <1>3 DEF BoxStep
<1>4. CASE \E i \in DOMAIN outbox : outbox' = RemoveAt(b, i) /\ pending' = pending /\ expired' = TRUE
  <2>1. PICK i \in DOMAIN outbox : outbox' = RemoveAt(b, i) /\ pending' = pending /\ expired' = TRUE
    BY <1>4
  <2>2. outbox' \in Seq(Item) /\ Len(outbox') = Len(b) - 1
    <3>1. i \in DOMAIN b
      BY <1>2, <2>1
    <3> HIDE DEF b
    <3> QED BY <1>2, <2>1, <3>1, RemoveFacts
  <2> QED BY <1>1, <1>2, <2>1, <2>2 DEF BoxStep
<1>5. CASE outbox' = SetPending(b, id, "TRANSMITTED") /\ pending' = pending + 1 /\ UNCHANGED expired
  <2>1. outbox' \in Seq(Item) /\ Len(outbox') = Len(b) /\ HasPub(outbox')
    <3> HIDE DEF b
    <3> QED BY <1>2, <1>5, SetPendingFacts
  <2> QED BY <1>1, <1>2, <1>5, <2>1 DEF BoxStep
<1> QED BY <1>3, <1>4, <1>5 DEF PublishLater, PublishNow, PublishFails
----------------------------------------------------------------------------
(* The answers on their way.                                               *)

(* None comes or goes.                                                     *)
LEMMA NetSame ==
  ASSUME IInv, UNCHANGED <<down, got>>
  PROVE  NetStep
BY DEF IInv, NetOK, NetStep, PubackIn

(* The connection is closed: they are lost.                                *)
LEMMA NetClose ==
  ASSUME Close, UNCHANGED got
  PROVE  NetStep
<1>1. down' = <<>> /\ down' \in Seq(Ack) /\ DOMAIN down' = {}
  BY DEF Close
<1> QED BY <1>1 DEF NetStep, PubackIn

(* One is read.                                                            *)
LEMMA NetRead ==
  ASSUME IInv, down # <<>>, down' = Tail(down), UNCHANGED got
  PROVE  NetStep
<1>1. down \in Seq(Ack) /\ down' \in Seq(Ack) /\ Len(down') = Len(down) - 1
  BY DEF IInv, NetOK
<1>2. \A i \in DOMAIN down' : i + 1 \in DOMAIN down /\ down'[i] = down[i + 1]
  BY <1>1
<1> QED BY <1>1, <1>2 DEF NetStep, PubackIn

(* A PUBACK that is read says that the broker has the message.             *)
LEMMA PubackMeansGot ==
  ASSUME IInv, down # <<>>, Head(down).type = "PUBACK"
  PROVE  got
<1>1. down \in Seq(Ack) /\ 1 \in DOMAIN down /\ down[1].type = "PUBACK"
  BY DEF IInv, NetOK
<1> QED BY <1>1 DEF IInv, NetOK, PubackIn

(* A packet is written: a PUBACK comes only for the message.               *)
LEMMA NetWrite ==
  ASSUME IInv, NEW p \in Packet, WriteOk(p)
  PROVE  NetStep
<1>1. CASE UNCHANGED <<down, got>>
  BY <1>1, NetSame
<1>2. CASE Arrives(p)
  <2>1. AckOf(p) \in Ack /\ (AckOf(p).type = "PUBACK" => p.type = "PUB")
    <3>1. CASE p.type = "SUB"
      BY <3>1 DEF AckOf, AckType, Ack, Packet
    <3>2. CASE p.type = "PUB"
      BY <3>2 DEF AckOf, AckType, Ack, Packet
    <3>3. CASE p.type = "PING"
      BY <3>3 DEF AckOf, AckType, Ack, Packet
    <3> QED BY <3>1, <3>2, <3>3 DEF Packet
  <2>2. down \in Seq(Ack) /\ down' = Append(down, AckOf(p))
    BY <1>2 DEF IInv, NetOK, Arrives
  <2> DEFINE x == AckOf(p)
  <2> HIDE DEF x
  <2>3. /\ down' \in Seq(Ack) /\ Len(down') = Len(down) + 1
        /\ \A i \in DOMAIN down' : (i \in DOMAIN down /\ down'[i] = down[i]) \/ down'[i] = x
    BY <2>1, <2>2 DEF x
  <2>4. (got => got') /\ (p.type = "PUB" => got')
    BY <1>2 DEF Arrives
  <2> QED BY <2>1, <2>3, <2>4 DEF NetStep, PubackIn, x
<1> QED BY <1>1, <1>2 DEF WriteOk
----------------------------------------------------------------------------
(* Every action is such a step.                                            *)

(* What the tasks write are packets.                                       *)
LEMMA PacketTypes ==
  /\ \A x \in Item : PacketOf(x) \in Packet
  /\ PingReq \in Packet
  /\ \A id \in Ids : [type |-> "PUB", id |-> id, what |-> "none"] \in Packet
  /\ \A id \in Ids, t \in Topics : [type |-> "SUB", id |-> id, what |-> t] \in Packet
BY DEF Packet, Item, PacketOf, PingReq

(* The actions that leave the outbox and the answers alone.                *)
LEMMA QuietSteps ==
  ASSUME IInv,
         \/ Post \/ Reconnect \/ ConnectOk \/ ReceiveNothing \/ ReceiveMessage \/ PingNotDue
         \/ Dispatch \/ AppPost \/ PeerFault
  PROVE  BoxStep /\ NetStep
<1>1. CASE Post
  BY <1>1, BoxSame, NetSame DEF Post, box, conn, others, env, network
<1>2. CASE Reconnect
  BY <1>2, BoxSame, NetSame DEF Reconnect, box, conn, others, env, network
<1>3. CASE ConnectOk
  BY <1>3, BoxSame, NetSame DEF ConnectOk, box, conn, others, env, network
<1>4. CASE ReceiveNothing
  BY <1>4, BoxSame, NetSame DEF ReceiveNothing, box, conn, others, env, network
<1>5. CASE ReceiveMessage
  BY <1>5, BoxSame, NetSame DEF ReceiveMessage, box, conn, others, env, network
<1>6. CASE PingNotDue
  BY <1>6, BoxSame, NetSame DEF PingNotDue, box, conn, others, env, network
<1>7. CASE Dispatch
  BY <1>7, BoxSame, NetSame DEF Dispatch, box, conn, others, env, network
<1>8. CASE AppPost
  BY <1>8, BoxSame, NetSame DEF AppPost, box, conn, others, env, network
<1>9. CASE PeerFault
  BY <1>9, BoxSame, NetSame DEF PeerFault, box, conn, others, env, network
<1> QED BY <1>1, <1>2, <1>3, <1>4, <1>5, <1>6, <1>7, <1>8, <1>9

(* The actions of the MQTT task that read from the connection.             *)
LEMMA ReadSteps ==
  ASSUME IInv, ReceiveFails \/ ReceiveAck("SUB") \/ ReceiveAck("PUB") \/ ReceivePingResp
                 \/ NextFragment \/ PollError
  PROVE  BoxStep /\ NetStep
<1>1. CASE ReceiveFails
  BY <1>1, BoxSame, NetClose DEF ReceiveFails, Abort, box, others, env
<1>2. ASSUME NEW type \in {"SUB", "PUB"}, ReceiveAck(type) PROVE BoxStep /\ NetStep
  <2>1. /\ down # <<>> /\ Head(down).type = AckType[type] /\ down' = Tail(down)
        /\ UNCHANGED <<expired, apc, got>>
    BY <1>2 DEF ReceiveAck, Received, others, env
  <2>2. type = "PUB" => got
    BY <2>1, PubackMeansGot DEF AckType
  <2>3. CASE Acknowledge(type, Head(down).id)
    BY <2>1, <2>2, <2>3, BoxAck, NetRead
  <2>4. CASE UNCHANGED <<outbox, pending>>
    BY <2>1, <2>4, BoxSame, NetRead
  <2> QED BY <1>2, <2>3, <2>4 DEF ReceiveAck
<1>3. CASE ReceivePingResp
  BY <1>3, BoxSame, NetRead DEF ReceivePingResp, Received, box, others, env
<1>4. CASE NextFragment
  <2>1. UNCHANGED <<outbox, pending, expired, apc, got>>
    BY <1>4 DEF NextFragment, box, others, env
  <2>2. Close \/ UNCHANGED down
    BY <1>4 DEF NextFragment, Abort, ReadAs, conn
  <2> QED BY <2>1, <2>2, BoxSame, NetSame, NetClose
<1>5. CASE PollError
  BY <1>5, BoxSame, NetClose DEF PollError, Abort, box, others, env
<1> QED BY <1>1, <1>2, <1>3, <1>4, <1>5

(* The actions of the MQTT task that write to it.                          *)
LEMMA WriteSteps ==
  ASSUME IInv, ConnectFails \/ Puback \/ Expire \/ ResendQueued \/ Retransmit \/ PingDue
  PROVE  BoxStep /\ NetStep
<1>1. CASE ConnectFails
  BY <1>1, BoxSame, NetClose DEF ConnectFails, Abort, box, others
<1>2. CASE Puback
  <2>1. UNCHANGED <<outbox, pending, expired, apc, got>> /\ (Close \/ UNCHANGED down)
    BY <1>2 DEF Puback, Abort, conn, box, others
  <2> QED BY <2>1, BoxSame, NetSame, NetClose
<1>3. CASE Expire
  BY <1>3, BoxExpire, NetSame DEF Expire, conn, others
<1>4. ASSUME NEW st, Resend(st) PROVE BoxStep /\ NetStep
  <2>1. PICK i \in DOMAIN outbox :
          \/ /\ WriteOk(PacketOf(outbox[i]))
             /\ outbox' \in {outbox, SetPending(outbox, outbox[i].id, "TRANSMITTED")}
          \/ Close /\ UNCHANGED <<outbox, got>>
    BY <1>4 DEF Resend, Abort
  <2>2. UNCHANGED <<pending, expired, apc>>
    BY <1>4 DEF Resend, others
  <2>3. PacketOf(outbox[i]) \in Packet
    BY PacketTypes DEF IInv, BoxOK
  <2> QED BY <2>1, <2>2, <2>3, BoxResend, BoxSame, NetWrite, NetClose
<1>5. CASE PingDue
  <2>1. UNCHANGED <<outbox, pending, expired, apc>>
    BY <1>5 DEF PingDue, box, others
  <2>2. (Close /\ UNCHANGED got) \/ WriteOk(PingReq)
    BY <1>5 DEF PingDue, Abort
  <2> QED BY <2>1, <2>2, BoxSame, NetClose, NetWrite, PacketTypes
<1> QED BY <1>1, <1>2, <1>3, <1>4, <1>5 DEF ResendQueued, Retransmit

(* The other two tasks' operations on the client.                          *)
LEMMA ClientSteps ==
  ASSUME IInv, Subscribe \/ Publish
  PROVE  BoxStep /\ NetStep
<1>0. Drawn \subseteq Ids
  BY DEF Drawn
<1>1. CASE Subscribe
  <2>1. UNCHANGED <<expired, apc>>
    BY <1>1 DEF Subscribe
  <2>2. CASE UNCHANGED <<outbox, pending, network, got>>
    BY <2>1, <2>2, BoxSame, NetSame DEF network
  <2>3. CASE ~ UNCHANGED <<outbox, pending, network, got>>
    <3>1. PICK id \in Ids :
            /\ outbox' = SetPending(Enqueue(outbox, "SUB", id, TopicOf[epc]), id, "TRANSMITTED")
            /\ pending' = pending + 1
            /\ \/ WriteOk([type |-> "SUB", id |-> id, what |-> TopicOf[epc]])
               \/ UNCHANGED <<network, got>>
      BY <1>0, <1>1, <2>3 DEF Subscribe
    <3>2. TopicOf[epc] \in Topics
      BY <1>1 DEF Subscribe, IInv, EpcOK, TopicOf, Topics
    <3>3. BoxStep
      BY <2>1, <3>1, <3>2, BoxSubscribe
    <3>4. NetStep
      BY <3>1, <3>2, NetWrite, NetSame, PacketTypes DEF network
    <3> QED BY <3>3, <3>4
  <2> QED BY <2>2, <2>3
<1>2. CASE Publish
  <2>1. PICK id \in Ids : PublishLater(id) \/ PublishNow(id) \/ PublishFails(id)
    BY <1>0, <1>2 DEF Publish
  <2>2. BoxStep
    BY <2>1, BoxPublish
  <2>3. NetStep
    <3>1. CASE PublishLater(id)
      BY <3>1, NetSame DEF PublishLater, conn
    <3>2. CASE PublishNow(id)
      BY <3>2, NetWrite, PacketTypes DEF PublishNow
    <3>3. CASE PublishFails(id)
      BY <3>3, NetClose DEF PublishFails
    <3> QED BY <2>1, <3>1, <3>2, <3>3
  <2> QED BY <2>2, <2>3
<1> QED BY <1>1, <1>2

(* The two topics are subscribed one after the other.                      *)
LEMMA EpcStep ==
  ASSUME EpcOK, [Next]_vars
  PROVE  EpcOK'
<1>1. UNCHANGED epc \/ Dispatch \/ Subscribe
  BY DEF Next, MqttTask, EventTask, Post, Reconnect, ConnectOk, ConnectFails, ReceiveNothing,
     ReceiveFails, ReceiveAck, ReceivePingResp, ReceiveMessage, NextFragment, Puback, Expire,
     ResendQueued, Retransmit, Resend, PingDue, PingNotDue, PollError, Publish, AppPost, PeerFault,
     others, vars
<1> QED BY <1>1 DEF EpcOK, Dispatch, Subscribe
----------------------------------------------------------------------------
(* The inductive invariant.                                                *)

(* It holds when esp_mqtt_task starts.                                     *)
LEMMA InitInv == Init => IInv
<1> SUFFICES ASSUME Init PROVE IInv
  OBVIOUS
<1>1. outbox = <<>> /\ pending = 0 /\ down = <<>> /\ apc = "new" /\ epc = "idle"
  BY DEF Init
<1>2. BoxOK
  BY <1>1 DEF BoxOK, PendingCounts
<1>3. NetOK
  BY <1>1 DEF NetOK, PubackIn
<1> QED BY <1>1, <1>2, <1>3 DEF IInv, PublishKept, EpcOK

(* Every step of every task preserves it.                                  *)
LEMMA NextInv == IInv /\ [Next]_vars => IInv'
<1> SUFFICES ASSUME IInv, [Next]_vars PROVE IInv'
  OBVIOUS
<1>1. BoxStep /\ NetStep
  <2>1. CASE Next
    BY <2>1, QuietSteps, ReadSteps, WriteSteps, ClientSteps DEF Next, MqttTask, EventTask
  <2>2. CASE UNCHANGED vars
    BY <2>2, BoxSame, NetSame DEF vars
  <2> QED BY <2>1, <2>2
<1>2. BoxOK'
  BY <1>1 DEF BoxStep, BoxOK, PendingCounts
<1>3. NetOK'
  BY <1>1 DEF IInv, NetOK, NetStep
<1>4. PublishKept'
  <2>1. apc # "new" => got \/ expired \/ HasPub(outbox)
    BY DEF IInv, PublishKept, HasPub
  <2>2. apc' # "new" => got' \/ expired' \/ HasPub(outbox')
    BY <1>1, <2>1 DEF BoxStep, NetStep
  <2> QED BY <2>2 DEF PublishKept, HasPub
<1>5. EpcOK'
  BY EpcStep DEF IInv
<1> QED BY <1>2, <1>3, <1>4, <1>5 DEF IInv

(* pending_msg_count is the number of items in the outbox in every state,  *)
(* so that is_valid_mqtt_msg never drops an acknowledgement on a count 0.  *)
THEOREM OutboxCounted == Spec => []PendingCounts
<1>1. IInv => PendingCounts
  BY DEF IInv, BoxOK
<1> QED BY <1>1, InitInv, NextInv, PTL DEF Spec

(* A message given to app_mqtt_publish is in the outbox until the broker   *)
(* has it or it is too old, whatever acknowledgements esp_mqtt_task reads  *)
(* and whichever ids append_message_id draws.                              *)
THEOREM PublishSafe == Spec => []PublishKept
<1>1. IInv => PublishKept
  BY DEF IInv
<1> QED BY <1>1, InitInv, NextInv, PTL DEF Spec
----------------------------------------------------------------------------
(* Types.                                                                  *)

WireOK == /\ peer \in {"up", "dead", "reset"} /\ sent \in 0..NetCap /\ subs \subseteq Topics
          /\ got \in BOOLEAN
TaskOK == /\ mstate \in {"INIT", "CONNECTED", "WAIT"} /\ lock \in {"none", "mqtt", "app"}
          /\ ev \in Event /\ apc \in {"new", "post", "done"} /\ ping \in BOOLEAN
QueueOK == evq \in Seq(Event) /\ Len(evq) <= QueueSize
CountOK == /\ msg \in [read : 0..SizeMax, total : 0..SizeMax]
          /\ faults \in 0..MaxFaults /\ messages \in 0..MaxMessages
HistOK == expired \in BOOLEAN /\ collided \in BOOLEAN
TInv == IInv /\ WireOK /\ TaskOK /\ QueueOK /\ CountOK /\ HistOK

(* A connection that is written to: the broker subscribes what is asked    *)
(* for, a dead peer takes no more than the buffers hold.                   *)
LEMMA WireWrite ==
  ASSUME WireOK, NEW p \in Packet, WriteOk(p)
  PROVE  WireOK'
<1>1. CASE peer = "up" /\ Arrives(p) /\ UNCHANGED <<peer, sent>>
  <2>1. subs' \subseteq Topics
    BY <1>1 DEF Arrives, WireOK, Packet
  <2>2. got' \in BOOLEAN
    BY Zenon, <1>1 DEF Arrives
  <2> QED BY <1>1, <2>1, <2>2 DEF WireOK
<1>2. CASE peer' \in {"dead", "reset"} /\ UNCHANGED <<sent, subs, got>>
  BY <1>2 DEF WireOK
<1>3. CASE sent < NetCap /\ sent' = sent + 1 /\ UNCHANGED <<peer, subs, got>>
  BY <1>3, MqttAssumption DEF WireOK
<1> QED BY <1>1, <1>2, <1>3 DEF WriteOk

(* A connection that is closed, and one nothing happens to.                *)
LEMMA WireClose ==
  ASSUME WireOK, Close, UNCHANGED got
  PROVE  WireOK'
BY MqttAssumption DEF WireOK, Close

LEMMA WireSame ==
  ASSUME WireOK, UNCHANGED <<sent, subs, got>>, peer' \in {peer, "up", "dead", "reset"}
  PROVE  WireOK'
BY DEF WireOK

(* The connection after every action of the MQTT task, ...                 *)
LEMMA WireTask ==
  ASSUME IInv, WireOK, MqttTask
  PROVE  WireOK'
<1>1. CASE Post \/ Reconnect \/ ConnectOk \/ ReceiveNothing \/ ReceiveMessage \/ PingNotDue \/ Expire
             \/ ReceiveAck("SUB") \/ ReceiveAck("PUB") \/ ReceivePingResp
  <2>1. UNCHANGED <<sent, subs, got>> /\ peer' \in {peer, "up"}
    BY <1>1 DEF Post, Reconnect, ConnectOk, ReceiveNothing, ReceiveMessage, PingNotDue, Expire,
       ReceiveAck, ReceivePingResp, conn, env
  <2> QED BY <2>1, WireSame
<1>2. CASE ConnectFails \/ ReceiveFails \/ PollError
  <2>1. Close /\ UNCHANGED got
    BY <1>2 DEF ConnectFails, ReceiveFails, PollError, Abort, env
  <2> QED BY <2>1, WireClose
<1>3. CASE NextFragment \/ Puback
  <2>1. UNCHANGED got /\ (Close \/ UNCHANGED <<peer, sent, subs>>)
    BY <1>3 DEF NextFragment, Puback, ReadAs, Abort, conn, env
  <2> QED BY <2>1, WireClose, WireSame
<1>4. ASSUME NEW st, Resend(st) PROVE WireOK'
  <2>1. PICK i \in DOMAIN outbox : WriteOk(PacketOf(outbox[i])) \/ (Close /\ UNCHANGED got)
    BY <1>4 DEF Resend, Abort
  <2>2. PacketOf(outbox[i]) \in Packet
    BY PacketTypes DEF IInv, BoxOK
  <2> QED BY <2>1, <2>2, WireWrite, WireClose
<1>5. CASE PingDue
  <2>1. (Close /\ UNCHANGED got) \/ WriteOk(PingReq)
    BY <1>5 DEF PingDue, Abort
  <2> QED BY <2>1, WireWrite, WireClose, PacketTypes
<1> QED BY <1>1, <1>2, <1>3, <1>4, <1>5 DEF MqttTask, ResendQueued, Retransmit

(* ... and of the others.                                                  *)
LEMMA WireOthers ==
  ASSUME IInv, WireOK, EventTask \/ Publish \/ AppPost \/ PeerFault
  PROVE  WireOK'
<1>0. Drawn \subseteq Ids
  BY DEF Drawn
<1>1. CASE Dispatch \/ AppPost \/ PeerFault
  <2>1. UNCHANGED <<sent, subs, got>> /\ peer' \in {peer, "dead", "reset"}
    BY <1>1 DEF Dispatch, AppPost, PeerFault, conn, env
  <2> QED BY <2>1, WireSame
<1>2. CASE Subscribe
  <2>1. \/ UNCHANGED <<network, got>>
        \/ \E id \in Ids : WriteOk([type |-> "SUB", id |-> id, what |-> TopicOf[epc]])
    BY <1>0, <1>2 DEF Subscribe
  <2>2. TopicOf[epc] \in Topics
    BY <1>2 DEF Subscribe, IInv, EpcOK, TopicOf, Topics
  <2> QED BY <2>1, <2>2, WireWrite, WireSame, PacketTypes DEF network
<1>3. CASE Publish
  <2>1. PICK id \in Ids : PublishLater(id) \/ PublishNow(id) \/ PublishFails(id)
    BY <1>0, <1>3 DEF Publish
  <2>2. \/ UNCHANGED <<peer, sent, subs, got>>
        \/ WriteOk([type |-> "PUB", id |-> id, what |-> "none"])
        \/ Close /\ UNCHANGED got
    BY <2>1 DEF PublishLater, PublishNow, PublishFails, conn
  <2> QED BY <2>2, WireWrite, WireSame, WireClose, PacketTypes
<1> QED BY <1>1, <1>2, <1>3 DEF EventTask

(* Where the tasks are, who holds api_lock and the state of the client.    *)
LEMMA TaskStep ==
  ASSUME TaskOK, Next
  PROVE  TaskOK'
<1>1. mstate' \in {mstate, "INIT", "CONNECTED", "WAIT"}
  BY DEF Next, MqttTask, EventTask, Post, Reconnect, ConnectOk, ConnectFails, ReceiveNothing,
     ReceiveFails, ReceiveAck, Received, ReceivePingResp, ReceiveMessage, NextFragment, Puback, Expire,
     ResendQueued, Retransmit, Resend, PingDue, PingNotDue, PollError, Publish, AppPost, PeerFault,
     Dispatch, Subscribe, Abort, Close, ReadAs, PublishLater, PublishNow, PublishFails, conn
<1>2. lock' \in {lock, "none", "mqtt", "app"}
  BY DEF Next, MqttTask, EventTask, Post, Reconnect, ConnectOk, ConnectFails, ReceiveNothing,
     ReceiveFails, ReceiveAck, Received, ReceivePingResp, ReceiveMessage, NextFragment, Puback, Expire,
     ResendQueued, Retransmit, Resend, PingDue, PingNotDue, PollError, Publish, AppPost, PeerFault,
     Dispatch, Subscribe, Released, PublishLater, PublishNow, PublishFails
<1>3. ev' \in {ev, "CONNECTED", "DATA", "OTHER"}
  BY DEF Next, MqttTask, EventTask, Post, Reconnect, ConnectOk, ConnectFails, ReceiveNothing,
     ReceiveFails, ReceiveAck, Received, ReceivePingResp, ReceiveMessage, NextFragment, Puback, Expire,
     ResendQueued, Retransmit, Resend, PingDue, PingNotDue, PollError, Publish, AppPost, PeerFault,
     Dispatch, Subscribe, Abort, ReadAs, Released, Goto, PostThen, task
<1>4. apc' \in {apc, "post", "done"}
  BY DEF Next, MqttTask, EventTask, Post, Reconnect, ConnectOk, ConnectFails, ReceiveNothing,
     ReceiveFails, ReceiveAck, Received, ReceivePingResp, ReceiveMessage, NextFragment, Puback, Expire,
     ResendQueued, Retransmit, Resend, PingDue, PingNotDue, PollError, Publish, AppPost, PeerFault,
     Dispatch, Subscribe, PublishLater, PublishNow, PublishFails, others
<1>5. ping' \in {ping, TRUE, FALSE}
  BY DEF Next, MqttTask, EventTask, Post, Reconnect, ConnectOk, ConnectFails, ReceiveNothing,
     ReceiveFails, ReceiveAck, Received, ReceivePingResp, ReceiveMessage, NextFragment, Puback, Expire,
     ResendQueued, Retransmit, Resend, PingDue, PingNotDue, PollError, Publish, AppPost, PeerFault,
     Dispatch, Subscribe, Abort, Close, ReadAs, PublishLater, PublishNow, PublishFails, conn
<1> QED BY <1>1, <1>2, <1>3, <1>4, <1>5 DEF TaskOK, Event

(* The event queue: a task posts only when there is room.                  *)
LEMMA QueueStep ==
  ASSUME TaskOK, QueueOK, Next
  PROVE  QueueOK'
<1>1. \/ UNCHANGED evq
      \/ evq # <<>> /\ evq' = Tail(evq)
      \/ Len(evq) < QueueSize /\ \E e \in {ev, "OTHER"} : evq' = Append(evq, e)
  BY DEF Next, MqttTask, EventTask, Post, Reconnect, ConnectOk, ConnectFails, ReceiveNothing,
     ReceiveFails, ReceiveAck, Received, ReceivePingResp, ReceiveMessage, NextFragment, Puback, Expire,
     ResendQueued, Retransmit, Resend, PingDue, PingNotDue, PollError, Publish, AppPost, PeerFault,
     Dispatch, Subscribe, others
<1>2. CASE evq # <<>> /\ evq' = Tail(evq)
  BY <1>2, MqttAssumption DEF QueueOK
<1>3. CASE Len(evq) < QueueSize /\ \E e \in {ev, "OTHER"} : evq' = Append(evq, e)
  <2>1. PICK e \in Event : evq' = Append(evq, e)
    BY <1>3 DEF TaskOK, Event
  <2>2. Len(evq) \in Nat /\ Len(evq') = Len(evq) + 1 /\ evq' \in Seq(Event)
    BY <2>1 DEF QueueOK
  <2> QED BY <1>3, <2>2, MqttAssumption DEF QueueOK
<1> QED BY <1>1, <1>2, <1>3 DEF QueueOK

(* The parts of a message, and what is bounded.                            *)
LEMMA CountStep ==
  ASSUME CountOK, Next
  PROVE  CountOK'
<1>1. \/ msg' = msg \/ msg' = NoMessage
      \/ \E n \in Fragments : msg' = [read |-> BufferSize, total |-> n * BufferSize]
      \/ ReadAs(BufferSize) \/ ReadAs(SizeMax)
  BY DEF Next, MqttTask, EventTask, Post, Reconnect, ConnectOk, ConnectFails, ReceiveNothing,
     ReceiveFails, ReceiveAck, Received, ReceivePingResp, ReceiveMessage, NextFragment, Puback, Expire,
     ResendQueued, Retransmit, Resend, PingDue, PingNotDue, PollError, Publish, AppPost, PeerFault,
     Dispatch, Subscribe
<1>2. UNCHANGED faults \/ Fault
  BY DEF Next, MqttTask, EventTask, Post, Reconnect, ConnectOk, ConnectFails, ReceiveNothing,
     ReceiveFails, ReceiveAck, Received, ReceivePingResp, ReceiveMessage, NextFragment, Puback, Expire,
     ResendQueued, Retransmit, Resend, PingDue, PingNotDue, PollError, Publish, AppPost, PeerFault,
     Dispatch, Subscribe, WriteOk, WriteFails, PublishLater, PublishNow, PublishFails, env
<1>3. UNCHANGED messages \/ (messages < MaxMessages /\ messages' = messages + 1)
  BY DEF Next, MqttTask, EventTask, Post, Reconnect, ConnectOk, ConnectFails, ReceiveNothing,
     ReceiveFails, ReceiveAck, Received, ReceivePingResp, ReceiveMessage, NextFragment, Puback, Expire,
     ResendQueued, Retransmit, Resend, PingDue, PingNotDue, PollError, Publish, AppPost, PeerFault,
     Dispatch, Subscribe, env
<1>4. msg' \in [read : 0..SizeMax, total : 0..SizeMax]
  <2>1. ASSUME NEW n \in Fragments, msg' = [read |-> BufferSize, total |-> n * BufferSize]
        PROVE  msg' \in [read : 0..SizeMax, total : 0..SizeMax]
    <3>1. n * BufferSize \in 0..SizeMax /\ BufferSize \in 0..SizeMax
      BY MqttAssumption
    <3> QED BY <2>1, <3>1
  <2>2. ASSUME NEW len \in Nat, ReadAs(len)
        PROVE  msg' \in [read : 0..SizeMax, total : 0..SizeMax]
    <3>1. ASSUME NEW a \in Nat PROVE a % (SizeMax + 1) \in 0..SizeMax
      BY <3>1, MqttAssumption
    <3>2. msg.read + len \in Nat
      BY MqttAssumption DEF CountOK
    <3> QED BY <2>2, <3>1, <3>2 DEF ReadAs, CountOK
  <2>3. BufferSize \in Nat /\ SizeMax \in Nat /\ NoMessage \in [read : 0..SizeMax, total : 0..SizeMax]
    BY MqttAssumption DEF NoMessage
  <2> QED BY <1>1, <2>1, <2>2, <2>3 DEF CountOK
<1>5. faults' \in 0..MaxFaults
  BY <1>2, MqttAssumption DEF CountOK, Fault
<1>6. messages' \in 0..MaxMessages
  BY <1>3, MqttAssumption DEF CountOK
<1> QED BY <1>4, <1>5, <1>6 DEF CountOK

(* The history.                                                            *)
LEMMA HistStep ==
  ASSUME HistOK, Next
  PROVE  HistOK'
<1>1. expired' \in {expired, TRUE}
  BY DEF Next, MqttTask, EventTask, Post, Reconnect, ConnectOk, ConnectFails, ReceiveNothing,
     ReceiveFails, ReceiveAck, Received, ReceivePingResp, ReceiveMessage, NextFragment, Puback, Expire,
     ResendQueued, Retransmit, Resend, PingDue, PingNotDue, PollError, Publish, AppPost, PeerFault,
     Dispatch, Subscribe, ExpireOne, PublishLater, PublishNow, PublishFails, box
<1>2. UNCHANGED collided \/ \E id : collided' = Collides(id)
  BY DEF Next, MqttTask, EventTask, Post, Reconnect, ConnectOk, ConnectFails, ReceiveNothing,
     ReceiveFails, ReceiveAck, Received, ReceivePingResp, ReceiveMessage, NextFragment, Puback, Expire,
     ResendQueued, Retransmit, Resend, PingDue, PingNotDue, PollError, Publish, AppPost, PeerFault,
     Dispatch, Subscribe, box
<1>3. collided' \in BOOLEAN
  BY Zenon, <1>2 DEF HistOK, Collides
<1> QED BY <1>1, <1>3 DEF HistOK

(* Every variable keeps its type, for any queue size, ids and faults; the  *)
(* event queue never overflows, and no subscription is made up when items  *)
(* of the outbox are sent again (mqtt_resend_queued).                      *)
THEOREM MqttTypeCorrect == Spec => []TypeOK
<1>1. Init => TInv
  <2> SUFFICES ASSUME Init PROVE TInv
    OBVIOUS
  <2>1. WireOK /\ CountOK
    <3>1. 0 \in 0..NetCap /\ 0 \in 0..MaxFaults /\ 0 \in 0..MaxMessages /\ 0 \in 0..SizeMax
      BY MqttAssumption
    <3>2. WireOK
      BY <3>1 DEF Init, WireOK
    <3>3. CountOK
      BY <3>1 DEF Init, CountOK, NoMessage
    <3> QED BY <3>2, <3>3
  <2>2. TaskOK /\ HistOK
    BY DEF Init, TaskOK, HistOK, Event
  <2>3. QueueOK
    BY MqttAssumption DEF Init, QueueOK
  <2> QED BY <2>1, <2>2, <2>3, InitInv DEF TInv
<1>2. TInv /\ [Next]_vars => TInv'
  <2> SUFFICES ASSUME TInv, [Next]_vars PROVE TInv'
    OBVIOUS
  <2>1. IInv'
    BY NextInv DEF TInv
  <2>2. CASE Next
    BY <2>1, <2>2, WireTask, WireOthers, TaskStep, QueueStep, CountStep, HistStep DEF TInv, Next
  <2>3. CASE UNCHANGED vars
    BY <2>1, <2>3 DEF TInv, WireOK, TaskOK, QueueOK, CountOK, HistOK, vars
  <2> QED BY <2>2, <2>3
<1>3. TInv => TypeOK
  <2> SUFFICES ASSUME TInv PROVE TypeOK
    OBVIOUS
  <2>1. pending \in Nat
    BY DEF TInv, IInv, BoxOK, PendingCounts
  <2> QED BY <2>1 DEF TInv, IInv, BoxOK, NetOK, EpcOK, WireOK, TaskOK, QueueOK, CountOK, HistOK, TypeOK
<1> QED BY <1>1, <1>2, <1>3, PTL DEF Spec
=============================================================================
