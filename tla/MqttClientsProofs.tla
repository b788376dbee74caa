-------------------------- MODULE MqttClientsProofs --------------------------
(***************************************************************************)
(* Proofs about MqttClients, for any number of brokers, clients, topics,   *)
(* messages and results, any capacity and any faults.                      *)
(***************************************************************************)
EXTENDS MqttClients, TLAPS

\* Where a call is while it builds a client, and while it uses one of the map.
Building == {"setConnecting", "drop", "loopStart", "insert"}
Using == {"usable", "find", "bind", "subscribe", "publish", "unsubscribe", "erase",
          "reconnectCfg", "loopStop", "unregister"}
Before == {"connect", "unsubFind", "disconnect"}

\* The state of a client object that does not exist.
Fresh(k) ==
  /\ link[k] = "closed" /\ loop[k] = "none"
  /\ out[k] = <<>> /\ inn[k] = <<>>
  /\ handler[k] = Idle

FreshInv == \A k \in Clients : ~Built(k) => Fresh(k)

\* The map leads to existing clients, each under its own address.
RegistryInv == \A b \in Brokers : m_mqttClientIns[b] # None => addr[m_mqttClientIns[b]] = b

\* What a call knows at each of its steps.
CallInv ==
  /\ pc # "idle" => call # NoCall
  /\ pc \in Building =>
       k0 \in Clients /\ addr[k0] = call.addr /\ Found = None
  /\ pc \in {"setConnecting", "drop", "loopStart"} => loop[k0] = "none"
  /\ pc \in Using => k0 \in Clients /\ Found = k0
  /\ pc \in {"find", "bind", "subscribe"} => call.op = "sub"
  /\ pc = "publish" => call.op = "pub"
  /\ pc \in {"unsubFind", "unsubscribe", "erase"} => call.op = "unsub"
  /\ pc \in {"connect", "usable"} \cup Building => call.op \in {"sub", "pub", "recCfg"}

\* A callback runs in a network thread, and a thread ends outside of callbacks.
CallbackInv ==
  /\ \A k \in Clients : handler[k].kind = "message" => loop[k] = "running"
  /\ \A k \in Clients : handler[k].kind = "reconnect" => loop[k] = "backoff"
  /\ pc = "unregister" => loop[k0] \in {"ended", "failed"}

Inv == TypeOK /\ FreshInv /\ RegistryInv /\ CallInv /\ CallbackInv

\* A connection starts clean: while its CONNECT is on its way nothing else is, an
\* answer to it is the first packet to come back and finds the link open, and
\* nothing outlives a connection that broke.
Answer(p) == p.type = "CONNACK" \/ p.type = "REFUSED"
Connection(k) ==
  /\ clean[k]
  /\ \A i \in 1..Len(out[k]) : out[k][i].type = "CONNECT" =>
       i = 1 /\ link[k] = "open" /\ inn[k] = <<>> /\ session[k] = {}
  /\ \A i \in 1..Len(inn[k]) : Answer(inn[k][i]) => i = 1 /\ link[k] = "open"
  /\ loop[k] = "none" => link[k] # "acked"
  /\ loop[k] = "backoff" => out[k] = <<>> /\ inn[k] = <<>>
  /\ loop[k] # "running" =>
       session[k] = {} /\ \A i \in 1..Len(out[k]) : out[k][i].type # "SUBSCRIBE"
  /\ Broken(k) => out[k] = <<>> /\ session[k] = {}
ConnectionInv == \A k \in Clients : Connection(k)

\* A topic that is not in m_topicMsg, and one about to be erased, is not in the
\* session either once the broker has read what is on its way.
Wanted(k, t) ==
  t \in session[k] \/ \E i \in 1..Len(out[k]) : out[k][i] = Req("SUBSCRIBE", t)
Forgotten(k, t) == Wanted(k, t) => Forgetting(k, t)
TopicInv ==
  /\ \A k \in Clients, t \in Topics : m_topicMsg[k][t] = None => Forgotten(k, t)
  /\ pc = "erase" => Forgotten(k0, call.topic)
  /\ pc = "subscribe" => m_topicMsg[k0][call.topic] # None

-----------------------------------------------------------------------------
(* The library keeps its types.                                             *)

LEMMA PacketTypes ==
  /\ \A ty \in {"CONNECT", "CONNACK", "REFUSED", "SUBACK", "DISCONNECT", "EOF"} : Pkt(ty) \in Packet
  /\ \A ty \in {"SUBSCRIBE", "UNSUBSCRIBE"}, t \in Topics : Req(ty, t) \in Packet
  /\ \A t \in Topics, m \in Msgs : Pub(t, m) \in Packet
BY DEF Packet, Pkt, Req, Pub

LEMMA PacketFields ==
  ASSUME NEW p \in Packet
  PROVE  /\ p.type \in {"SUBSCRIBE", "UNSUBSCRIBE", "PUBLISH"} => p.topic \in Topics
         /\ p.type = "PUBLISH" => p.msg \in Msgs
BY DEF Packet

LEMMA HeadPacket ==
  ASSUME NEW q \in Seq(Packet), NEW ty, HeadIs(q, ty)
  PROVE  Head(q) \in Packet /\ Head(q).type = ty /\ Tail(q) \in Seq(Packet)
BY DEF HeadIs

Parts(c, a, b) ==
  \A i \in 1..Len(c) :
    \/ i \in 1..Len(a) /\ c[i] = a[i]
    \/ \E j \in 1..Len(b) : c[i] = b[j]
LEMMA ConcatElements ==
  ASSUME NEW a \in Seq(Packet), NEW b \in Seq(Packet) PROVE Parts(a \o b, a, b)
<1> DEFINE c == a \o b
<1> SUFFICES \A i \in 1..Len(c) :
                 \/ i \in 1..Len(a) /\ c[i] = a[i]
                 \/ \E j \in 1..Len(b) : c[i] = b[j]
  BY DEF Parts
<1> TAKE i \in 1..Len(c)
<1>1. CASE i \in 1..Len(a)
  BY <1>1
<1>2. CASE i \notin 1..Len(a)
  <2>1. i - Len(a) \in 1..Len(b) /\ c[i] = b[i - Len(a)]
    BY <1>2
  <2> QED BY <2>1
<1> QED BY <1>1, <1>2

LEMMA LibConnectType ==
  ASSUME LibTypeOK, NEW k \in Clients, NEW b \in Brokers, NEW id \in BOOLEAN,
         NEW c \in BOOLEAN, NEW ok \in BOOLEAN, LibConnect(k, b, id, c, ok)
  PROVE  LibTypeOK'
BY PacketTypes DEF LibTypeOK, LibConnect, LinkStates

LEMMA LibLoopStartType ==
  ASSUME LibTypeOK, NEW k \in Clients, NEW ok \in BOOLEAN, LibLoopStart(k, ok)
  PROVE  LibTypeOK'
BY DEF LibTypeOK, LibLoopStart, LoopStates

LEMMA LibSendType ==
  ASSUME LibTypeOK, NEW k \in Clients, NEW p \in Packet, LibSend(k, p)
  PROVE  LibTypeOK'
BY DEF LibTypeOK, LibSend

LEMMA LibDisconnectType ==
  ASSUME LibTypeOK, NEW k \in Clients, LibDisconnect(k)
  PROVE  LibTypeOK'
BY PacketTypes DEF LibTypeOK, LibDisconnect

LEMMA LibDestroyType ==
  ASSUME LibTypeOK, NEW k \in Clients, LibDestroy(k)
  PROVE  LibTypeOK'
BY DEF LibTypeOK, LibDestroy, LinkStates, LoopStates

LEMMA LibReceiveType ==
  ASSUME LibTypeOK, NEW k \in Clients, NEW l \in LinkStates, inn[k] # <<>>, LibReceive(k, l)
  PROVE  LibTypeOK'
BY DEF LibTypeOK, LibReceive

LEMMA LibCloseType ==
  ASSUME LibTypeOK, NEW k \in Clients, NEW l \in LoopStates, LibClose(k, l)
  PROVE  LibTypeOK'
BY DEF LibTypeOK, LibClose, LinkStates

LEMMA LibReopenType ==
  ASSUME LibTypeOK, NEW k \in Clients, NEW ok \in BOOLEAN, LibReopen(k, ok)
  PROVE  LibTypeOK'
BY DEF LibTypeOK, LibReopen, LinkStates

LEMMA LibRetryType ==
  ASSUME LibTypeOK, NEW k \in Clients, LibRetry(k)
  PROVE  LibTypeOK'
<1>1. CASE stopping[k]
  BY <1>1 DEF LibTypeOK, LibRetry, LoopStates
<1>2. CASE ~stopping[k]
  <2>1. <<Pkt("CONNECT")>> \in Seq(Packet)
    BY PacketTypes
  <2>2. out' \in [Clients -> Seq(Packet)]
    <3>1. out' = [out EXCEPT ![k] = <<Pkt("CONNECT")>>] \/ out' = out
      BY <1>2 DEF LibRetry
    <3> QED BY <2>1, <3>1 DEF LibTypeOK
  <2>3. loop' \in [Clients -> LoopStates]
    <3>1. loop' = [loop EXCEPT ![k] = "running"] \/ loop' = loop
      BY <1>2 DEF LibRetry
    <3> QED BY <3>1 DEF LibTypeOK, LoopStates
  <2>4. link' \in [Clients -> LinkStates]
    BY <1>2 DEF LibTypeOK, LibRetry, LinkStates
  <2> QED BY <1>2, <2>2, <2>3, <2>4 DEF LibTypeOK, LibRetry
<1> QED BY <1>1, <1>2

LEMMA SubscribeAnswers ==
  ASSUME NEW k \in Clients, BrokerSubscribe(k)
  PROVE  LET t == Head(out[k]).topic
             m == retained[addr[k]][t]
         IN  \E x : /\ inn' = [inn EXCEPT ![k] = x]
                    /\ \/ x = inn[k] \o <<Pkt("SUBACK")>> \o (IF m = None THEN <<>> ELSE <<Pub(t, m)>>)
                       \/ x = Append(inn[k], Pkt("SUBACK"))
BY Zenon DEF BrokerSubscribe

LEMMA NetworkType ==
  ASSUME LibTypeOK, \A k \in Clients : out[k] # <<>> => Built(k), Network
  PROVE  LibTypeOK'
<1>1. ASSUME NEW k \in Clients, BrokerAccept(k) PROVE LibTypeOK'
  BY <1>1, PacketTypes DEF LibTypeOK, BrokerAccept, BrokerReads, HeadIs
<1>2. ASSUME NEW k \in Clients, BrokerRefuse(k) PROVE LibTypeOK'
  BY <1>2, PacketTypes DEF LibTypeOK, BrokerRefuse
<1>3. ASSUME NEW k \in Clients, BrokerSubscribe(k) PROVE LibTypeOK'
  <2> DEFINE t == Head(out[k]).topic
             m == retained[addr[k]][t]
  <2>0. HeadIs(out[k], "SUBSCRIBE") /\ out[k] \in Seq(Packet)
    BY <1>3 DEF LibTypeOK, BrokerSubscribe, BrokerReads
  <2>1. t \in Topics
    BY <2>0, HeadPacket, PacketFields
  <2>2. m = None \/ m \in Msgs
    <3>1. addr[k] \in Brokers
      BY <2>0 DEF LibTypeOK, Built, HeadIs
    <3> QED BY <2>1, <3>1 DEF LibTypeOK
  <2>3. inn' \in [Clients -> Seq(Packet)]
    <3>1. <<Pkt("SUBACK")>> \in Seq(Packet) /\ (m # None => <<Pub(t, m)>> \in Seq(Packet))
      BY <2>1, <2>2, PacketTypes
    <3>2. inn[k] \in Seq(Packet)
      BY DEF LibTypeOK
    <3>3. inn[k] \o <<Pkt("SUBACK")>> \o (IF m = None THEN <<>> ELSE <<Pub(t, m)>>) \in Seq(Packet)
      BY <3>1, <3>2
    <3>4. Append(inn[k], Pkt("SUBACK")) \in Seq(Packet)
      BY <3>2, PacketTypes
    <3>5. PICK x \in Seq(Packet) : inn' = [inn EXCEPT ![k] = x]
      BY <1>3, <3>3, <3>4, SubscribeAnswers
    <3> QED BY <3>5 DEF LibTypeOK
  <2>4. session' \in [Clients -> SUBSET Topics]
    <3>1. session[k] \cup {t} \in SUBSET Topics
      BY <2>1 DEF LibTypeOK
    <3>2. \/ session' = [session EXCEPT ![k] = session[k] \cup {t}]
          \/ session' = session
      BY <1>3 DEF BrokerSubscribe
    <3> QED BY <3>1, <3>2 DEF LibTypeOK
  <2>5. out' \in [Clients -> Seq(Packet)]
    BY <1>3, <2>0, HeadPacket DEF LibTypeOK, BrokerSubscribe, BrokerReads
  <2> QED BY <1>3, <2>3, <2>4, <2>5 DEF LibTypeOK, BrokerSubscribe, BrokerReads
<1>4. ASSUME NEW k \in Clients, BrokerUnsubscribe(k) PROVE LibTypeOK'
  BY <1>4 DEF LibTypeOK, BrokerUnsubscribe, BrokerReads, HeadIs
<1>5. ASSUME NEW k \in Clients, BrokerPublish(k) PROVE LibTypeOK'
  <2> DEFINE p == Head(out[k])
  <2>0. HeadIs(out[k], "PUBLISH") /\ out[k] \in Seq(Packet)
    BY <1>5 DEF LibTypeOK, BrokerPublish, BrokerReads
  <2>1. p.topic \in Topics /\ p.msg \in Msgs
    BY <2>0, HeadPacket, PacketFields
  <2>2. Pub(p.topic, p.msg) \in Packet
    BY <2>1, PacketTypes
  <2>3. inn' \in [Clients -> Seq(Packet)]
    BY <1>5, <2>2 DEF LibTypeOK, BrokerPublish, Route
  <2>4. retained' \in [Brokers -> [Topics -> Msgs \cup {None}]]
    BY <1>5, <2>1 DEF LibTypeOK, BrokerPublish
  <2>5. out' \in [Clients -> Seq(Packet)]
    BY <1>5, <2>0, HeadPacket DEF LibTypeOK, BrokerPublish, BrokerReads
  <2> QED BY <1>5, <2>3, <2>4, <2>5 DEF LibTypeOK, BrokerPublish, BrokerReads
<1>6. ASSUME NEW k \in Clients, LoseConnection(k) PROVE LibTypeOK'
  BY <1>6, PacketTypes DEF LibTypeOK, LoseConnection
<1>7. ASSUME NEW b \in Brokers, NEW t \in Topics, NEW m \in Msgs, OthersPublish(b, t, m)
      PROVE  LibTypeOK'
  BY <1>7, PacketTypes DEF LibTypeOK, OthersPublish, Route
<1> QED BY <1>1, <1>2, <1>3, <1>4, <1>5, <1>6, <1>7 DEF Network, BrokerStep

-----------------------------------------------------------------------------
(* The inductive invariant Inv.                                             *)

LEMMA InvInit == Init => Inv
<1> SUFFICES ASSUME Init PROVE Inv
  OBVIOUS
<1>1. LibTypeOK
  BY DEF Init, LibInit, LibTypeOK, LinkStates, LoopStates
<1>2. TypeOK
  BY <1>1 DEF Init, TypeOK, Status, Codes, Pcs, Call, Handler, Mail, Empty
<1>3. FreshInv /\ RegistryInv
  BY DEF Init, LibInit, FreshInv, Fresh, RegistryInv
<1>4. CallInv /\ CallbackInv
  BY DEF Init, CallInv, CallbackInv, Idle, Building, Using
<1> QED BY <1>2, <1>3, <1>4 DEF Inv

\* The fields of the call under way, and the types of its arguments.
LEMMA CallFields ==
  ASSUME TypeOK, call # NoCall
  PROVE  /\ call.addr \in Brokers
         /\ call.client \in Clients \cup {None}
         /\ call.op = "sub" => call.topic \in Topics /\ call.result \in Results
         /\ call.op = "pub" => call.topic \in Topics /\ call.msg \in Msgs
         /\ call.op = "unsub" => call.topic \in Topics
BY DEF TypeOK, Call, CallOf

\* Another client in the call leaves it a call.
LEMMA CallClient ==
  ASSUME TypeOK, call # NoCall, NEW k \in Clients \cup {None}
  PROVE  /\ [call EXCEPT !.client = k] \in Call
         /\ [call EXCEPT !.client = k] # NoCall
         /\ [call EXCEPT !.client = k].client = k
         /\ [call EXCEPT !.client = k].addr = call.addr
         /\ [call EXCEPT !.client = k].op = call.op
BY DEF TypeOK, Call, CallOf, NoCall

LEMMA TypeStep == Inv /\ [Next]_vars => TypeOK'
<1> SUFFICES ASSUME Inv, [Next]_vars PROVE TypeOK'
  OBVIOUS
<1> USE DEF Goto, Return, SameCall, Found, clientVars, apiVars
<1>0. TypeOK /\ LibTypeOK /\ CallInv /\ (call # NoCall => call.addr \in Brokers)
  BY CallFields DEF Inv, TypeOK
<1>1. CASE UNCHANGED vars
  BY <1>0, <1>1 DEF vars, libVars, TypeOK, LibTypeOK
<1>2. CASE initMqttData
  BY <1>0, <1>2 DEF initMqttData, TypeOK, LibTypeOK, libVars
<1>3. CASE UserCalls
  <2>1. PICK op \in AllOps, b \in Brokers, t \in Topics \cup {None}, m \in Msgs \cup {None},
             r \in Results \cup {None}, l \in Pcs :
          /\ Begin(op, b, t, m, r, l)
          /\ [NoCall EXCEPT !.op = op, !.addr = b, !.topic = t, !.msg = m, !.result = r] \in Call
    <3> DEFINE Picked(op, b, t, m, r, l) ==
          /\ op \in AllOps /\ b \in Brokers /\ t \in Topics \cup {None} /\ m \in Msgs \cup {None}
          /\ r \in Results \cup {None} /\ l \in Pcs /\ Begin(op, b, t, m, r, l)
          /\ [NoCall EXCEPT !.op = op, !.addr = b, !.topic = t, !.msg = m, !.result = r] \in Call
    <3>1. ASSUME NEW b \in Brokers, NEW t \in Topics, NEW r \in Results, subMqttTopic(b, t, r)
          PROVE  Picked("sub", b, t, None, r, "connect")
      BY <3>1 DEF subMqttTopic, AllOps, Pcs, NoCall, Call, CallOf
    <3>2. ASSUME NEW b \in Brokers, NEW t \in Topics, NEW m \in Msgs, pubMqttTopicMsg(b, t, m)
          PROVE  Picked("pub", b, t, m, None, "connect")
      BY <3>2 DEF pubMqttTopicMsg, AllOps, Pcs, NoCall, Call, CallOf
    <3>3. ASSUME NEW b \in Brokers, NEW t \in Topics, unsubMqttTopic(b, t)
          PROVE  Picked("unsub", b, t, None, None, "unsubFind")
      BY <3>3 DEF unsubMqttTopic, AllOps, Pcs, NoCall, Call, CallOf
    <3>4. ASSUME NEW b \in Brokers, disconnectMqttBroker(b)
          PROVE  Picked("disconnect", b, None, None, None, "disconnect")
      BY <3>4 DEF disconnectMqttBroker, AllOps, Pcs, NoCall, Call, CallOf
    <3>5. ASSUME NEW b \in Brokers, setClientRecCfg(b)
          PROVE  Picked("recCfg", b, None, None, None, "connect")
      BY <3>5 DEF setClientRecCfg, AllOps, Pcs, NoCall, Call, CallOf
    <3>6. \E op, b, t, m, r, l : Picked(op, b, t, m, r, l)
      <4> HIDE DEF Picked
      <4> QED BY <1>3, <3>1, <3>2, <3>3, <3>4, <3>5 DEF UserCalls
    <3> QED BY <3>6, ZenonT(60)
  <2> QED BY <1>0, <2>1 DEF Begin, TypeOK, LibTypeOK, libVars
<1>4. CASE Finish
  <2>1. promised' \subseteq Brokers \X Topics \X Results
    BY <1>0, <1>4, CallFields DEF Finish, TypeOK, CallInv
  <2> QED BY <1>0, <1>4, <2>1 DEF Finish, TypeOK, LibTypeOK, libVars, Pcs, Codes, Call
<1>5. CASE ConnectKnown \/ UnsubscribeFind
  <2>1. call # NoCall /\ Found \in Clients \cup {None}
    BY <1>0, <1>5 DEF ConnectKnown, UnsubscribeFind, CallInv, TypeOK
  <2>2. call' \in Call
    BY <1>0, <1>5, <2>1, CallClient DEF ConnectKnown, UnsubscribeFind
  <2> QED BY <1>0, <1>5, <2>2 DEF ConnectKnown, UnsubscribeFind, TypeOK, LibTypeOK, libVars, Pcs, Codes
<1>6. CASE ConnectUsable \/ SubscribeFind \/ LoopStop \/ setReconnectCfg
  BY <1>0, <1>6 DEF ConnectUsable, SubscribeFind, LoopStop, setReconnectCfg, AfterConnect,
                    TypeOK, LibTypeOK, libVars, Pcs, Codes
<1>7. CASE ConnectNew
  <2>1. PICK k \in Clients, ok \in BOOLEAN :
          /\ LibConnect(k, call.addr, g_clientId, cleanSession(g_clientId), ok)
          /\ call' = [call EXCEPT !.client = k]
    BY <1>7 DEF ConnectNew
  <2>2. call # NoCall
    BY <1>0, <1>7 DEF ConnectNew, CallInv
  <2>3. LibTypeOK'
    BY <1>0, <2>1, <2>2, LibConnectType DEF cleanSession, TypeOK
  <2>4. call' \in Call
    BY <1>0, <2>1, <2>2, CallClient
  <2> QED BY <1>0, <1>7, <2>3, <2>4 DEF ConnectNew, TypeOK, Pcs
<1>8. CASE SetConnecting
  BY <1>0, <1>8 DEF SetConnecting, TypeOK, LibTypeOK, libVars, Pcs, Status
<1>9. CASE DropClient \/ Unregister
  <2>1. k0 \in Clients /\ Destroy(k0)
    BY <1>0, <1>9 DEF DropClient, Unregister, CallInv, Building, Using
  <2>2. LibTypeOK'
    BY <1>0, <2>1, LibDestroyType DEF Destroy
  <2>3. /\ m_clientStatus' \in [Clients -> Status]
        /\ m_topicMsg' \in [Clients -> [Topics -> Results \cup {None}]]
        /\ handler' \in [Clients -> Handler]
        /\ mail' \in [Results -> Mail]
    BY <1>0, <2>1 DEF Destroy, TypeOK, Status, Handler
  <2> QED BY <1>0, <1>9, <2>2, <2>3 DEF DropClient, Unregister, TypeOK, Pcs, Codes
<1>10. CASE LoopStart
  <2>1. LibTypeOK'
    BY <1>0, <1>10, LibLoopStartType DEF LoopStart, CallInv, Building
  <2> QED BY <1>0, <1>10, <2>1 DEF LoopStart, TypeOK, Pcs
<1>11. CASE Insert
  BY <1>0, <1>11 DEF Insert, TypeOK, LibTypeOK, libVars, Pcs, Codes, AfterConnect, CallInv, Building
<1>12. CASE SubscribeBind
  <2>1. k0 \in Clients /\ call.topic \in Topics /\ call.result \in Results
    BY <1>0, <1>12, CallFields DEF SubscribeBind, CallInv, Using
  <2> QED BY <1>0, <1>12, <2>1 DEF SubscribeBind, TypeOK, LibTypeOK, libVars, Pcs
<1>13. CASE SubscribeSend \/ toPublishTopicMsg \/ UnsubscribeSend
  <2>1. call # NoCall /\ k0 \in Clients
    BY <1>0, <1>13 DEF SubscribeSend, toPublishTopicMsg, UnsubscribeSend, CallInv, Using
  <2>2. LibTypeOK'
    <3>1. CASE UNCHANGED libVars
      BY <1>0, <3>1 DEF libVars, LibTypeOK
    <3>2. CASE SubscribeSend /\ ~UNCHANGED libVars
      <4>1. Req("SUBSCRIBE", call.topic) \in Packet
        BY <1>0, <3>2, <2>1, CallFields, PacketTypes DEF SubscribeSend, CallInv
      <4> QED BY <1>0, <2>1, <3>2, <4>1, LibSendType DEF SubscribeSend, SendOr
    <3>3. CASE toPublishTopicMsg /\ ~UNCHANGED libVars
      <4>1. Pub(call.topic, call.msg) \in Packet
        BY <1>0, <3>3, <2>1, CallFields, PacketTypes DEF toPublishTopicMsg, CallInv
      <4> QED BY <1>0, <2>1, <3>3, <4>1, LibSendType DEF toPublishTopicMsg, SendOr
    <3>4. CASE UnsubscribeSend /\ ~UNCHANGED libVars
      <4>1. Req("UNSUBSCRIBE", call.topic) \in Packet
        BY <1>0, <3>4, <2>1, CallFields, PacketTypes DEF UnsubscribeSend, CallInv
      <4> QED BY <1>0, <2>1, <3>4, <4>1, LibSendType DEF UnsubscribeSend
    <3> QED BY <1>13, <3>1, <3>2, <3>3, <3>4
  <2> QED BY <1>0, <1>13, <2>2 DEF SubscribeSend, toPublishTopicMsg, UnsubscribeSend, SendOr,
                                   TypeOK, Pcs, Codes
<1>14. CASE UnsubscribeErase
  BY <1>0, <1>14 DEF UnsubscribeErase, TypeOK, LibTypeOK, libVars, Pcs, Codes
<1>15. CASE Disconnect
  <2>1. call # NoCall /\ Found \in Clients \cup {None}
    BY <1>0, <1>15 DEF Disconnect, CallInv, TypeOK
  <2>2. call' \in Call
    BY <1>0, <1>15, <2>1, CallClient DEF Disconnect
  <2>3. LibTypeOK'
    <3>1. CASE Found = None
      BY <1>0, <1>15, <3>1 DEF Disconnect, libVars, LibTypeOK
    <3>2. CASE Found # None
      BY <1>0, <1>15, <2>1, <3>2, LibDisconnectType DEF Disconnect
    <3> QED BY <3>1, <3>2
  <2> QED BY <1>0, <1>15, <2>2, <2>3 DEF Disconnect, TypeOK, Pcs, Codes
<1>16. ASSUME NEW k \in Clients, LoopStep(k) PROVE TypeOK'
  <2>1. CASE on_connect(k)
    <3>1. \E l \in LinkStates : inn[k] # <<>> /\ LibReceive(k, l)
      BY <1>0, <2>1 DEF on_connect, Reads, HeadIs, LinkStates, LibTypeOK
    <3>2. LibTypeOK'
      BY <1>0, <3>1, LibReceiveType
    <3> QED BY <1>0, <2>1, <3>2 DEF on_connect, TypeOK, Status
  <2>2. CASE on_subscribe(k)
    <3>1. LibTypeOK'
      BY <1>0, <2>2, LibReceiveType DEF on_subscribe, Reads, HeadIs, LibTypeOK
    <3> QED BY <1>0, <2>2, <3>1 DEF on_subscribe, TypeOK, Status
  <2>3. CASE on_message(k)
    <3>1. LibTypeOK'
      BY <1>0, <2>3, LibReceiveType DEF on_message, Reads, HeadIs, LibTypeOK
    <3>2. Head(inn[k]).topic \in Topics /\ Head(inn[k]).msg \in Msgs
      BY <1>0, <2>3, HeadPacket, PacketFields DEF on_message, Reads, LibTypeOK
    <3>3. handler' \in [Clients -> Handler]
      <4>1. PICK r \in Lookup(k, Head(inn[k]).topic) :
              handler' = [handler EXCEPT ![k] =
                IF r = None THEN Idle
                ELSE [kind |-> "message", topic |-> Head(inn[k]).topic,
                      msg |-> Head(inn[k]).msg, result |-> r]]
        BY <2>3 DEF on_message
      <4>2. r \in Results \cup {None}
        BY <1>0, <3>2 DEF Lookup, TypeOK
      <4> QED BY <1>0, <3>2, <4>1, <4>2 DEF TypeOK, Handler, Storing
    <3> QED BY <1>0, <2>3, <3>1, <3>3 DEF on_message, TypeOK
  <2>4. CASE on_message_store(k)
    <3>1. handler[k] \in Storing
      BY <1>0, <2>4 DEF on_message_store, TypeOK, Handler, Idle, Reconnecting
    <3>2. Stored(handler[k]) \in Mail /\ handler[k].result \in Results
      BY <3>1 DEF Stored, Mail, Storing
    <3> QED BY <1>0, <2>4, <3>2 DEF on_message_store, TypeOK, LibTypeOK, libVars, Handler
  <2>5. CASE on_disconnect(k)
    <3>1. LibTypeOK'
      BY <1>0, <2>5, LibCloseType DEF on_disconnect, LoopStates
    <3> QED BY <1>0, <2>5, <3>1 DEF on_disconnect, TypeOK, Status, Handler
  <2>6. CASE on_disconnect_reconnect(k)
    <3>1. LibTypeOK'
      BY <1>0, <2>6, LibReopenType DEF on_disconnect_reconnect
    <3> QED BY <1>0, <2>6, <3>1 DEF on_disconnect_reconnect, TypeOK, Handler
  <2>7. CASE LoopRetry(k)
    <3>1. LibTypeOK'
      BY <1>0, <2>7, LibRetryType DEF LoopRetry
    <3> QED BY <1>0, <2>7, <3>1 DEF LoopRetry, TypeOK
  <2> QED BY <1>16, <2>1, <2>2, <2>3, <2>4, <2>5, <2>6, <2>7 DEF LoopStep
<1>17. CASE Environment
  <2>1. \A k \in Clients : out[k] # <<>> => Built(k)
    BY DEF Inv, FreshInv, Fresh
  <2>2. LibTypeOK'
    BY <1>0, <1>17, <2>1, NetworkType DEF Environment
  <2> QED BY <1>0, <1>17, <2>2 DEF Environment, TypeOK
<1> QED
  BY <1>1, <1>2, <1>3, <1>4, <1>5, <1>6, <1>7, <1>8, <1>9, <1>10, <1>11, <1>12, <1>13, <1>14,
     <1>15, <1>16, <1>17
     DEF Next, ApiStep, toConnectBroker, toSubscribeTopic, toUnsubscribeTopic, toDisconnectBroker

\* Only ConnectNew and Destroy build and destroy; no other step touches a client
\* that does not exist.
LEMMA FreshStep == Inv /\ [Next]_vars => FreshInv'
<1> SUFFICES ASSUME Inv, [Next]_vars, NEW k \in Clients, ~Built(k)' PROVE Fresh(k)'
  BY DEF FreshInv
<1> USE DEF Built, Fresh
<1>0. /\ TypeOK /\ LibTypeOK /\ CallInv
      /\ \A j \in Clients : ~Built(j) => Fresh(j)
      /\ call # NoCall => call.addr \in Brokers
  BY CallFields DEF Inv, FreshInv, TypeOK
<1>1. CASE UNCHANGED <<libVars, handler>>
  BY <1>0, <1>1 DEF libVars
<1>2. CASE ConnectNew
  BY <1>0, <1>2, NoneAssumption DEF ConnectNew, LibConnect, LibTypeOK, clientVars, CallInv
<1>3. CASE DropClient \/ Unregister
  BY <1>0, <1>3, SMTT(40) DEF DropClient, Unregister, Destroy, LibDestroy, LibTypeOK, TypeOK
<1>4. CASE LoopStart
  BY <1>0, <1>4, NoneAssumption DEF LoopStart, LibLoopStart, CallInv, Building, clientVars, LibTypeOK
<1>5. CASE (SubscribeSend \/ toPublishTopicMsg \/ UnsubscribeSend) /\ ~UNCHANGED libVars
  <2>1. UNCHANGED handler /\ \E p : LibSend(k0, p)
    BY <1>5 DEF SubscribeSend, toPublishTopicMsg, UnsubscribeSend, SendOr, clientVars
  <2> QED BY <1>0, <2>1 DEF LibSend, LibTypeOK
<1>6. CASE Disconnect /\ ~UNCHANGED libVars
  BY <1>0, <1>6 DEF Disconnect, LibDisconnect, clientVars, LibTypeOK
<1>7. ASSUME NEW j \in Clients, LoopStep(j) PROVE Fresh(k)'
  <2>1. CASE on_connect(j) \/ on_subscribe(j)
    BY <1>0, <2>1 DEF on_connect, on_subscribe, Reads, HeadIs, LibReceive, LibTypeOK
  <2>2. CASE on_message(j)
    BY <1>0, <2>2 DEF on_message, Reads, HeadIs, LibReceive, LibTypeOK, TypeOK
  <2>3. CASE on_message_store(j)
    BY <1>0, <2>3 DEF on_message_store, libVars, Idle, TypeOK
  <2>4. CASE on_disconnect(j)
    BY <1>0, <2>4 DEF on_disconnect, Gone, Reads, LibClose, LibTypeOK, TypeOK
  <2>5. CASE on_disconnect_reconnect(j)
    BY <1>0, <2>5 DEF on_disconnect_reconnect, LibReopen, LibTypeOK, Idle, TypeOK
  <2>6. CASE LoopRetry(j)
    BY <1>0, <2>6 DEF LoopRetry, LibRetry, LibTypeOK, clientVars
  <2> QED BY <1>7, <2>1, <2>2, <2>3, <2>4, <2>5, <2>6 DEF LoopStep
<1>8. CASE Environment
  <2>1. ASSUME NEW j \in Clients, BrokerStep(j) \/ BrokerRefuse(j) \/ LoseConnection(j)
        PROVE  Fresh(k)'
    <3>1. UNCHANGED <<addr, link, loop, handler>>
      BY <1>8, <2>1 DEF Environment, clientVars, BrokerStep, BrokerAccept, BrokerSubscribe,
                        BrokerUnsubscribe, BrokerPublish, BrokerReads, BrokerRefuse, LoseConnection
    <3>2. CASE LoseConnection(j)
      BY <1>0, <3>1, <3>2 DEF LoseConnection, LibTypeOK
    <3>3. CASE BrokerRefuse(j)
      BY <1>0, <3>1, <3>3 DEF BrokerRefuse, HeadIs, LibTypeOK
    <3>4. CASE BrokerAccept(j)
      BY <1>0, <3>1, <3>4 DEF BrokerAccept, BrokerReads, HeadIs, LibTypeOK
    <3>5. CASE BrokerSubscribe(j)
      BY <1>0, <3>1, <3>5 DEF BrokerSubscribe, BrokerReads, HeadIs, LibTypeOK
    <3>6. CASE BrokerUnsubscribe(j)
      BY <1>0, <3>1, <3>6 DEF BrokerUnsubscribe, BrokerReads, HeadIs, LibTypeOK
    <3>7. CASE BrokerPublish(j)
      <4>1. addr[j] # None
        BY <1>0, <3>7 DEF BrokerPublish, BrokerReads, HeadIs
      <4> QED BY <1>0, <3>1, <3>7, <4>1
              DEF BrokerPublish, BrokerReads, HeadIs, Route, Subscribers, LibTypeOK
    <3> QED BY <2>1, <3>2, <3>3, <3>4, <3>5, <3>6, <3>7 DEF BrokerStep
  <2>2. ASSUME NEW b \in Brokers, NEW t \in Topics, NEW m \in Msgs, OthersPublish(b, t, m)
        PROVE  Fresh(k)'
    BY <1>0, <1>8, <2>2, NoneAssumption
       DEF OthersPublish, Route, Subscribers, LibTypeOK, Environment, clientVars
  <2> QED BY <1>8, <2>1, <2>2 DEF Environment, Network
<1> QED
  <2>1. ASSUME \/ UNCHANGED vars \/ initMqttData \/ UserCalls \/ Finish \/ ConnectKnown
               \/ ConnectUsable \/ SetConnecting \/ Insert \/ SubscribeFind \/ SubscribeBind
               \/ UnsubscribeFind \/ UnsubscribeErase \/ LoopStop \/ setReconnectCfg
        PROVE  UNCHANGED <<libVars, handler>>
    BY <2>1 DEF vars, clientVars, initMqttData, UserCalls, subMqttTopic, pubMqttTopicMsg,
         unsubMqttTopic, disconnectMqttBroker, setClientRecCfg, Begin, Finish, ConnectKnown,
         ConnectUsable, SetConnecting, Insert, SubscribeFind, SubscribeBind, UnsubscribeFind,
         UnsubscribeErase, LoopStop, setReconnectCfg
  <2>2. ASSUME SubscribeSend \/ toPublishTopicMsg \/ UnsubscribeSend \/ Disconnect
        PROVE  UNCHANGED handler
    BY <2>2 DEF SubscribeSend, toPublishTopicMsg, UnsubscribeSend, Disconnect, clientVars
  <2> QED
    BY <1>1, <1>2, <1>3, <1>4, <1>5, <1>6, <1>7, <1>8, <2>1, <2>2
       DEF Next, ApiStep, toConnectBroker, toSubscribeTopic, toUnsubscribeTopic, toDisconnectBroker

\* What the network threads and the network leave alone.
LEMMA LoopFrame ==
  ASSUME NEW k \in Clients, LoopStep(k)
  PROVE  UNCHANGED apiVars /\ UNCHANGED addr
BY DEF LoopStep, on_connect, on_subscribe, on_message, on_message_store, on_disconnect,
       on_disconnect_reconnect, LoopRetry, LibReceive, LibClose, LibReopen, LibRetry, libVars

LEMMA EnvironmentFrame ==
  ASSUME Environment
  PROVE  UNCHANGED <<apiVars, clientVars>> /\ UNCHANGED addr /\ UNCHANGED loop /\ UNCHANGED link
BY DEF Environment, Network, BrokerStep, BrokerAccept, BrokerRefuse, BrokerSubscribe,
       BrokerUnsubscribe, BrokerPublish, BrokerReads, LoseConnection, OthersPublish

\* A callback step changes at most the loop state of its own client, which is not
\* waiting for loop_start() then.
LEMMA LoopOfOthers ==
  ASSUME LibTypeOK, NEW k \in Clients, LoopStep(k), NEW j \in Clients, loop'[j] # loop[j]
  PROVE  /\ j = k /\ handler[k] = Idle
         /\ \/ on_disconnect(k) /\ loop[k] = "running"
            \/ LoopRetry(k) /\ loop[k] = "backoff"
<1>1. CASE \/ on_connect(k) \/ on_subscribe(k) \/ on_message(k) \/ on_message_store(k)
           \/ on_disconnect_reconnect(k)
  <2> UNCHANGED loop
    BY <1>1 DEF on_connect, on_subscribe, on_message, on_message_store, on_disconnect_reconnect,
                LibReceive, LibReopen, libVars
  <2> QED OBVIOUS
<1>2. CASE on_disconnect(k)
  <2>1. loop' = [loop EXCEPT ![k] = "ended"] \/ loop' = [loop EXCEPT ![k] = "backoff"]
    BY <1>2 DEF on_disconnect, LibClose
  <2>2. handler[k] = Idle /\ loop[k] = "running"
    BY <1>2 DEF on_disconnect, Gone, Reads
  <2>3. j = k
    BY <2>1 DEF LibTypeOK
  <2> QED BY <1>2, <2>2, <2>3
<1>3. CASE LoopRetry(k)
  <2>1. \/ loop' = loop
        \/ loop' = [loop EXCEPT ![k] = "ended"]
        \/ loop' = [loop EXCEPT ![k] = "running"]
    BY <1>3 DEF LoopRetry, LibRetry
  <2>2. handler[k] = Idle /\ loop[k] = "backoff"
    BY <1>3 DEF LoopRetry, LibRetry
  <2>3. j = k
    BY <2>1 DEF LibTypeOK
  <2> QED BY <1>3, <2>2, <2>3
<1> QED BY <1>1, <1>2, <1>3 DEF LoopStep

LEMMA RegistryStep == Inv /\ [Next]_vars => RegistryInv'
<1> SUFFICES ASSUME Inv, [Next]_vars PROVE RegistryInv'
  OBVIOUS
<1> USE DEF RegistryInv
<1>0. /\ TypeOK /\ LibTypeOK /\ CallInv /\ RegistryInv
      /\ call # NoCall => call.addr \in Brokers
  BY CallFields DEF Inv, TypeOK
<1>1. CASE UNCHANGED <<m_mqttClientIns, addr>>
  BY <1>0, <1>1
<1>2. CASE ConnectNew
  BY <1>0, <1>2, NoneAssumption DEF ConnectNew, LibConnect, Built, LibTypeOK, TypeOK
<1>3. CASE DropClient
  BY <1>0, <1>3 DEF DropClient, Destroy, LibDestroy, SameCall, Found, CallInv, Building, LibTypeOK, TypeOK
<1>4. CASE Insert
  BY <1>0, <1>4 DEF Insert, CallInv, Building, TypeOK, libVars
<1>5. CASE Unregister
  BY <1>0, <1>5 DEF Unregister, Destroy, LibDestroy, Found, CallInv, Using, LibTypeOK, TypeOK
<1>6. ASSUME \/ UNCHANGED vars \/ initMqttData \/ UserCalls \/ Finish \/ ConnectKnown
             \/ ConnectUsable \/ SetConnecting \/ LoopStart \/ SubscribeFind \/ SubscribeBind
             \/ SubscribeSend \/ toPublishTopicMsg \/ UnsubscribeFind \/ UnsubscribeSend
             \/ UnsubscribeErase \/ Disconnect \/ LoopStop \/ setReconnectCfg
             \/ Environment \/ \E k \in Clients : LoopStep(k)
      PROVE  UNCHANGED <<m_mqttClientIns, addr>>
  <2>1. CASE Environment \/ \E k \in Clients : LoopStep(k)
    BY <2>1, LoopFrame, EnvironmentFrame DEF apiVars
  <2>2. CASE \/ UNCHANGED vars \/ initMqttData \/ UserCalls \/ Finish \/ ConnectKnown
             \/ ConnectUsable \/ SetConnecting \/ LoopStart \/ SubscribeFind \/ SubscribeBind
    BY <2>2 DEF vars, apiVars, libVars, SameCall, initMqttData, UserCalls, subMqttTopic,
         pubMqttTopicMsg, unsubMqttTopic, disconnectMqttBroker, setClientRecCfg, Begin, Finish,
         ConnectKnown, ConnectUsable, SetConnecting, LoopStart, LibLoopStart, SubscribeFind,
         SubscribeBind
  <2>3. CASE \/ SubscribeSend \/ toPublishTopicMsg \/ UnsubscribeFind \/ UnsubscribeSend
             \/ UnsubscribeErase \/ Disconnect \/ LoopStop \/ setReconnectCfg
    BY <2>3 DEF libVars, SameCall, SubscribeSend, toPublishTopicMsg, SendOr, LibSend,
         UnsubscribeFind, UnsubscribeSend, UnsubscribeErase, Disconnect, LibDisconnect, LoopStop,
         setReconnectCfg
  <2> QED BY <1>6, <2>1, <2>2, <2>3
<1> QED
  BY <1>1, <1>2, <1>3, <1>4, <1>5, <1>6
     DEF Next, ApiStep, toConnectBroker, toSubscribeTopic, toUnsubscribeTopic, toDisconnectBroker

LEMMA CallStep == Inv /\ [Next]_vars => CallInv'
<1> SUFFICES ASSUME Inv, [Next]_vars PROVE CallInv'
  OBVIOUS
<1> USE DEF CallInv, Building, Using, Found, k0, Goto, Return
<1>0. /\ TypeOK /\ LibTypeOK /\ CallInv /\ RegistryInv /\ CallbackInv
      /\ \A j \in Clients : ~Built(j) => Fresh(j)
      /\ call # NoCall => call.addr \in Brokers
  BY CallFields DEF Inv, FreshInv, TypeOK
<1>1. CASE UNCHANGED vars \/ initMqttData
  BY <1>0, <1>1 DEF vars, apiVars, libVars, initMqttData
<1>2. CASE UserCalls
  <2>1. PICK op, b, t, m, r, l :
          /\ Begin(op, b, t, m, r, l)
          /\ op \in {"sub", "pub", "unsub", "disconnect", "recCfg"}
          /\ l \in {"connect", "unsubFind", "disconnect"}
          /\ l = "connect" => op \in {"sub", "pub", "recCfg"}
          /\ l = "unsubFind" => op = "unsub"
    BY <1>2 DEF UserCalls, subMqttTopic, pubMqttTopicMsg, unsubMqttTopic, disconnectMqttBroker,
                setClientRecCfg
  <2> QED BY <2>1 DEF Begin, NoCall
<1>3. CASE Finish
  BY <1>3 DEF Finish
<1>4. CASE ConnectKnown \/ UnsubscribeFind \/ Disconnect
  <2>1. call # NoCall /\ Found \in Clients \cup {None} /\ call' = [call EXCEPT !.client = Found]
    BY <1>0, <1>4 DEF ConnectKnown, UnsubscribeFind, Disconnect, TypeOK
  <2>2. /\ call' # NoCall
        /\ call'.client = Found /\ call'.addr = call.addr /\ call'.op = call.op
    BY <1>0, <2>1, CallClient
  <2> QED BY <1>0, <1>4, <2>1, <2>2 DEF ConnectKnown, UnsubscribeFind, Disconnect
<1>5. CASE ConnectUsable \/ SubscribeFind \/ LoopStop \/ setReconnectCfg
  BY <1>0, <1>5 DEF ConnectUsable, SubscribeFind, LoopStop, setReconnectCfg, AfterConnect, SameCall
<1>6. CASE ConnectNew
  <2>1. PICK k \in Clients, ok \in BOOLEAN :
          /\ ~Built(k)
          /\ LibConnect(k, call.addr, g_clientId, cleanSession(g_clientId), ok)
          /\ call' = [call EXCEPT !.client = k]
    BY <1>6 DEF ConnectNew
  <2>2. /\ call # NoCall /\ call' # NoCall
        /\ call'.client = k /\ call'.addr = call.addr /\ call'.op = call.op
    BY <1>0, <1>6, <2>1, CallClient DEF ConnectNew
  <2>3. loop'[k] = "none" /\ addr'[k] = call.addr
    BY <1>0, <2>1 DEF LibConnect, Fresh, LibTypeOK
  <2> QED BY <1>0, <1>6, <2>2, <2>3 DEF ConnectNew
<1>7. CASE SetConnecting
  BY <1>0, <1>7 DEF SetConnecting, SameCall, libVars
<1>8. CASE DropClient \/ Unregister
  BY <1>0, <1>8 DEF DropClient, Unregister, SameCall
<1>9. CASE LoopStart
  BY <1>0, <1>9 DEF LoopStart, LibLoopStart, SameCall
<1>10. CASE Insert
  BY <1>0, <1>10 DEF Insert, AfterConnect, TypeOK
<1>11. CASE \/ SubscribeBind \/ SubscribeSend \/ toPublishTopicMsg \/ UnsubscribeSend
            \/ UnsubscribeErase
  BY <1>0, <1>11 DEF SubscribeBind, SubscribeSend, toPublishTopicMsg, SendOr, UnsubscribeSend,
                     UnsubscribeErase, SameCall
<1>12. ASSUME NEW k \in Clients, LoopStep(k) PROVE CallInv'
  <2>1. \A j \in Clients : loop[j] = "none" => loop'[j] = "none"
    BY <1>0, <1>12, LoopOfOthers
  <2> QED BY <1>0, <1>12, <2>1, LoopFrame DEF apiVars
<1>13. CASE Environment
  BY <1>0, <1>13, EnvironmentFrame DEF apiVars
<1> QED
  BY <1>1, <1>2, <1>3, <1>4, <1>5, <1>6, <1>7, <1>8, <1>9, <1>10, <1>11, <1>12, <1>13
     DEF Next, ApiStep, toConnectBroker, toSubscribeTopic, toUnsubscribeTopic, toDisconnectBroker

LEMMA CallbackStep == Inv /\ [Next]_vars => CallbackInv'
<1> SUFFICES ASSUME Inv, [Next]_vars PROVE CallbackInv'
  OBVIOUS
<1> USE DEF k0, Goto, Return
<1>0. /\ TypeOK /\ LibTypeOK /\ CallInv /\ CallbackInv
      /\ \A j \in Clients : ~Built(j) => Fresh(j)
  BY DEF Inv, FreshInv, TypeOK
<1>1. CASE UNCHANGED <<loop, handler>> /\ pc' # "unregister"
  BY <1>0, <1>1 DEF CallbackInv
<1>2. CASE LoopStop
  BY <1>0, <1>2 DEF LoopStop, CallbackInv, clientVars, libVars, SameCall
<1>3. CASE ConnectNew
  BY <1>0, <1>3 DEF ConnectNew, LibConnect, CallbackInv, clientVars
<1>4. CASE LoopStart
  BY <1>0, <1>4 DEF LoopStart, LibLoopStart, CallbackInv, CallInv, Building, clientVars, LibTypeOK
<1>5. CASE DropClient \/ Unregister
  <2>1. /\ loop' = [loop EXCEPT ![k0] = "none"]
        /\ handler' = [handler EXCEPT ![k0] = Idle]
        /\ pc' # "unregister"
    BY <1>5 DEF DropClient, Unregister, Destroy, LibDestroy
  <2> QED BY <1>0, <2>1 DEF CallbackInv, LibTypeOK, TypeOK, Idle
<1>6. CASE UNCHANGED vars
  BY <1>0, <1>6 DEF vars, apiVars, clientVars, libVars, CallbackInv
<1>7. CASE Environment
  BY <1>0, <1>7, EnvironmentFrame DEF apiVars, clientVars, CallbackInv
<1>8. ASSUME NEW k \in Clients, LoopStep(k) PROVE CallbackInv'
  <2> USE DEF CallbackInv, Idle
  <2>0. UNCHANGED <<pc, call>> /\ \A j \in Clients : loop'[j] # loop[j] => j = k /\ handler[k] = Idle
    BY <1>0, <1>8, LoopFrame, LoopOfOthers DEF apiVars
  <2>1. pc' = "unregister" => loop'[k0'] \in {"ended", "failed"}
    BY <1>0, <1>8, <2>0, LoopOfOthers DEF CallInv, Using
  <2>2. CASE on_connect(k) \/ on_subscribe(k)
    BY <1>0, <2>1, <2>2 DEF on_connect, on_subscribe, LibReceive
  <2>3. CASE on_message(k)
    <3>1. /\ loop' = loop /\ loop[k] = "running"
          /\ \A j \in Clients : j # k => handler'[j] = handler[j]
          /\ handler'[k].kind # "reconnect"
      BY <1>0, <2>3 DEF on_message, Reads, LibReceive, TypeOK
    <3> QED BY <1>0, <2>1, <3>1
  <2>4. CASE on_message_store(k) \/ on_disconnect_reconnect(k)
    <3>1. loop' = loop /\ handler' = [handler EXCEPT ![k] = Idle]
      BY <2>4 DEF on_message_store, on_disconnect_reconnect, LibReopen, libVars
    <3> QED BY <1>0, <2>1, <3>1 DEF TypeOK
  <2>5. CASE on_disconnect(k)
    <3>1. \/ /\ loop' = [loop EXCEPT ![k] = "ended"]
             /\ handler' = handler
          \/ /\ loop' = [loop EXCEPT ![k] = "backoff"]
             /\ handler' = [handler EXCEPT ![k] = Reconnecting]
      BY <2>5 DEF on_disconnect, LibClose
    <3>2. handler[k] = Idle
      BY <2>5 DEF on_disconnect
    <3>3. \A j \in Clients : j # k => loop'[j] = loop[j] /\ handler'[j] = handler[j]
      BY <1>0, <3>1 DEF LibTypeOK, TypeOK
    <3>4. /\ handler'[k].kind # "message"
          /\ handler'[k].kind = "reconnect" => loop'[k] = "backoff"
      BY <1>0, <3>1, <3>2 DEF LibTypeOK, TypeOK, Reconnecting
    <3> QED BY <1>0, <2>1, <3>3, <3>4
  <2>6. CASE LoopRetry(k)
    <3>1. handler' = handler /\ handler[k] = Idle
      BY <2>6 DEF LoopRetry, clientVars
    <3> QED BY <1>0, <2>0, <2>1, <3>1
  <2> QED BY <1>8, <2>2, <2>3, <2>4, <2>5, <2>6 DEF LoopStep
<1>9. ASSUME \/ initMqttData \/ UserCalls \/ Finish \/ ConnectKnown \/ ConnectUsable
             \/ SetConnecting \/ Insert \/ SubscribeFind \/ SubscribeBind \/ SubscribeSend
             \/ toPublishTopicMsg \/ UnsubscribeFind \/ UnsubscribeSend \/ UnsubscribeErase
             \/ Disconnect \/ setReconnectCfg
      PROVE  UNCHANGED <<loop, handler>> /\ pc' # "unregister"
  <2>1. CASE \/ initMqttData \/ UserCalls \/ Finish \/ ConnectKnown \/ ConnectUsable
             \/ SetConnecting \/ Insert
    BY <2>1 DEF libVars, clientVars, initMqttData, UserCalls, subMqttTopic, pubMqttTopicMsg,
         unsubMqttTopic, disconnectMqttBroker, setClientRecCfg, Begin, Finish, ConnectKnown,
         ConnectUsable, AfterConnect, SetConnecting, Insert
  <2>2. CASE \/ SubscribeFind \/ SubscribeBind \/ SubscribeSend \/ toPublishTopicMsg
             \/ UnsubscribeFind \/ UnsubscribeSend \/ UnsubscribeErase \/ Disconnect
             \/ setReconnectCfg
    BY <2>2 DEF libVars, clientVars, SubscribeFind, SubscribeBind, SubscribeSend, SendOr, LibSend,
         toPublishTopicMsg, UnsubscribeFind, UnsubscribeSend, UnsubscribeErase, Disconnect,
         LibDisconnect, setReconnectCfg
  <2> QED BY <1>9, <2>1, <2>2
<1> QED
  BY <1>1, <1>2, <1>3, <1>4, <1>5, <1>6, <1>7, <1>8, <1>9
     DEF Next, ApiStep, toConnectBroker, toSubscribeTopic, toUnsubscribeTopic, toDisconnectBroker

\* Inv holds of every state of every behaviour.
THEOREM Invariance == Spec => []Inv
<1>1. Inv /\ [Next]_vars => Inv'
  BY TypeStep, FreshStep, RegistryStep, CallStep, CallbackStep DEF Inv
<1> QED BY <1>1, InvInit, PTL DEF Spec

\* Every variable keeps its type: the network threads, the calls and the brokers
\* hand each other packets and clients that exist.
THEOREM TypeCorrect == Spec => []TypeOK
<1>1. Inv => TypeOK
  BY DEF Inv
<1> QED BY <1>1, Invariance, PTL

\* No thread and no callback is inside a client that toDisconnectBroker erases.
THEOREM ErasedQuietly == Spec => []QuietWhenErased
<1>1. Inv => QuietWhenErased
  <2> SUFFICES ASSUME Inv, pc = "unregister"
               PROVE  loop[k0] # "running" /\ loop[k0] # "backoff" /\ handler[k0] = Idle
    BY DEF QuietWhenErased
  <2>1. k0 \in Clients /\ loop[k0] \in {"ended", "failed"} /\ handler[k0] \in Handler
    BY DEF Inv, CallInv, CallbackInv, Using, TypeOK
  <2>2. handler[k0].kind # "message" /\ handler[k0].kind # "reconnect"
    BY <2>1 DEF Inv, CallbackInv
  <2> QED BY <2>1, <2>2 DEF Handler, Reconnecting, Storing, Idle
<1> QED BY <1>1, Invariance, PTL

-----------------------------------------------------------------------------
(* What a connection carries.                                               *)

\* A call that queues packet p, of a type that only calls queue.
Queues(k, p) ==
  /\ UNCHANGED <<clean, link, loop, inn, session>>
  /\ \/ out' = out
     \/ /\ loop[k] = "running" /\ ~Broken(k)
        /\ out' = [out EXCEPT ![k] = Append(@, p)]
CallPacket(p) == p \in Packet /\ p.type \in {"SUBSCRIBE", "UNSUBSCRIBE", "PUBLISH", "DISCONNECT"}

\* Every step of the API thread that touches the library, but for those that
\* build a client, start its thread or destroy it, queues one packet at most.
LEMMA SendsQueue ==
  ASSUME Inv, SubscribeSend \/ toPublishTopicMsg \/ UnsubscribeSend \/ Disconnect
  PROVE  UNCHANGED libVars \/ \E k \in Clients, p \in Packet : CallPacket(p) /\ Queues(k, p)
<1>0. /\ TypeOK /\ CallInv
      /\ call # NoCall => call.addr \in Brokers
  BY CallFields DEF Inv
<1>1. CASE SubscribeSend /\ ~UNCHANGED libVars
  <2>1. k0 \in Clients /\ call.topic \in Topics
    BY <1>0, <1>1, CallFields DEF SubscribeSend, CallInv, Using
  <2>2. CallPacket(Req("SUBSCRIBE", call.topic))
    BY <2>1, PacketTypes DEF CallPacket, Req
  <2>3. Queues(k0, Req("SUBSCRIBE", call.topic))
    BY <1>1 DEF SubscribeSend, SendOr, LibSend, Queues
  <2> QED BY <2>1, <2>2, <2>3 DEF CallPacket
<1>2. CASE toPublishTopicMsg /\ ~UNCHANGED libVars
  <2>1. k0 \in Clients /\ call.topic \in Topics /\ call.msg \in Msgs
    BY <1>0, <1>2, CallFields DEF toPublishTopicMsg, CallInv, Using
  <2>2. CallPacket(Pub(call.topic, call.msg))
    BY <2>1, PacketTypes DEF CallPacket, Pub
  <2>3. Queues(k0, Pub(call.topic, call.msg))
    BY <1>2 DEF toPublishTopicMsg, SendOr, LibSend, Queues
  <2> QED BY <2>1, <2>2, <2>3 DEF CallPacket
<1>3. CASE UnsubscribeSend /\ ~UNCHANGED libVars
  <2>1. k0 \in Clients /\ call.topic \in Topics
    BY <1>0, <1>3, CallFields DEF UnsubscribeSend, CallInv, Using
  <2>2. CallPacket(Req("UNSUBSCRIBE", call.topic))
    BY <2>1, PacketTypes DEF CallPacket, Req
  <2>3. Queues(k0, Req("UNSUBSCRIBE", call.topic))
    BY <1>3 DEF UnsubscribeSend, LibSend, Queues
  <2> QED BY <2>1, <2>2, <2>3 DEF CallPacket
<1>4. CASE Disconnect /\ ~UNCHANGED libVars
  <2>1. Found \in Clients /\ LibDisconnect(Found)
    BY <1>0, <1>4 DEF Disconnect, CallInv, TypeOK, Found
  <2>2. CallPacket(Pkt("DISCONNECT"))
    BY PacketTypes DEF CallPacket, Pkt
  <2>3. Queues(Found, Pkt("DISCONNECT"))
    BY <2>1 DEF LibDisconnect, Queues
  <2> QED BY <2>1, <2>2, <2>3 DEF CallPacket
<1> QED BY <1>1, <1>2, <1>3, <1>4

\* The steps of the API thread and of the user that do not touch the library.
LEMMA CallsFrame ==
  ASSUME \/ initMqttData \/ UserCalls \/ Finish \/ ConnectKnown \/ ConnectUsable
         \/ SetConnecting \/ Insert \/ SubscribeFind \/ SubscribeBind \/ UnsubscribeFind
         \/ UnsubscribeErase \/ LoopStop \/ setReconnectCfg
  PROVE  UNCHANGED libVars
BY DEF initMqttData, UserCalls, subMqttTopic, pubMqttTopicMsg, unsubMqttTopic,
  disconnectMqttBroker, setClientRecCfg, Begin, Finish, ConnectKnown, ConnectUsable,
  SetConnecting, Insert, SubscribeFind, SubscribeBind, UnsubscribeFind, UnsubscribeErase, LoopStop,
  setReconnectCfg

LEMMA ConnectionStep == Inv /\ ConnectionInv /\ [Next]_vars => ConnectionInv'
<1> SUFFICES ASSUME Inv, ConnectionInv, [Next]_vars, NEW k \in Clients PROVE Connection(k)'
  BY DEF ConnectionInv
<1> USE DEF Connection, Broken, Answer
<1>0. /\ TypeOK /\ LibTypeOK /\ CallInv /\ CallbackInv /\ Connection(k)
      /\ \A j \in Clients : Connection(j)
      /\ \A j \in Clients : ~Built(j) => Fresh(j)
      /\ out[k] \in Seq(Packet) /\ inn[k] \in Seq(Packet)
  BY DEF Inv, FreshInv, TypeOK, ConnectionInv, LibTypeOK
<1>1. CASE UNCHANGED libVars
  BY <1>0, <1>1 DEF libVars
<1>2. CASE ConnectNew
  <2>1. PICK j \in Clients, ok \in BOOLEAN :
          ~Built(j) /\ LibConnect(j, call.addr, g_clientId, cleanSession(g_clientId), ok)
    BY <1>2 DEF ConnectNew
  <2>2. CASE j # k
    BY <1>0, <2>1, <2>2 DEF LibConnect, LibTypeOK
  <2>3. CASE j = k
    <3>1. Fresh(k) /\ session[k] = {}
      BY <1>0, <2>1, <2>3 DEF Fresh
    <3>2. /\ clean'[k] /\ link'[k] \in {"open", "closed"} /\ inn'[k] = <<>> /\ loop'[k] = "none"
          /\ session'[k] = {}
          /\ out'[k] = <<>> \/ (out'[k] = <<Pkt("CONNECT")>> /\ link'[k] = "open")
      BY <1>0, <2>1, <2>3, <3>1 DEF LibConnect, LibTypeOK, Fresh, cleanSession
    <3> QED BY <3>2 DEF Pkt
  <2> QED BY <2>2, <2>3
<1>3. CASE DropClient \/ Unregister
  <2>1. LibDestroy(k0)
    BY <1>3 DEF DropClient, Unregister, Destroy
  <2>2. CASE k0 # k
    BY <1>0, <2>1, <2>2 DEF LibDestroy, LibTypeOK
  <2>3. CASE k0 = k
    <3>1. clean'[k] /\ out'[k] = <<>> /\ inn'[k] = <<>> /\ session'[k] = {} /\ link'[k] = "closed"
      BY <1>0, <2>1, <2>3 DEF LibDestroy, LibTypeOK
    <3> QED BY <3>1
  <2> QED BY <2>2, <2>3
<1>4. CASE LoopStart
  BY <1>0, <1>4 DEF LoopStart, LibLoopStart, CallInv, Building, LibTypeOK
<1>5. ASSUME NEW j \in Clients, NEW p \in Packet, CallPacket(p), Queues(j, p)
      PROVE  Connection(k)'
  <2>1. CASE out'[k] = out[k]
    BY <1>0, <1>5, <2>1 DEF Queues
  <2>2. CASE j = k /\ loop[k] = "running" /\ ~Broken(k) /\ out'[k] = Append(out[k], p)
    <3>1. /\ Len(out'[k]) = Len(out[k]) + 1
          /\ \A i \in 1..Len(out[k]) : out'[k][i] = out[k][i]
          /\ out'[k][Len(out[k]) + 1] = p
      BY <1>0, <2>2
    <3>2. \A i \in 1..Len(out'[k]) : out'[k][i].type = "CONNECT" => i \in 1..Len(out[k])
      BY <1>0, <1>5, <3>1 DEF CallPacket
    <3>3. /\ clean'[k] = clean[k] /\ link'[k] = link[k] /\ inn'[k] = inn[k]
          /\ loop'[k] = loop[k] /\ session'[k] = session[k] /\ loop'[k] = "running"
      BY <1>5, <2>2 DEF Queues
    <3>4. \A i \in 1..Len(out'[k]) : out'[k][i].type = "CONNECT" =>
            i = 1 /\ link'[k] = "open" /\ inn'[k] = <<>> /\ session'[k] = {}
      BY <1>0, <3>1, <3>2, <3>3
    <3>5. ~Broken(k)'
      BY <2>2, <3>3
    <3>6. \A i \in 1..Len(inn'[k]) : Answer(inn'[k][i]) => i = 1 /\ link'[k] = "open"
      BY <1>0, <3>3
    <3>7. clean'[k] /\ loop'[k] # "none" /\ loop'[k] # "backoff"
      BY <1>0, <3>3
    <3> QED BY <3>3, <3>4, <3>5, <3>6, <3>7
  <2>3. out'[k] = out[k] \/ (j = k /\ loop[k] = "running" /\ ~Broken(k) /\ out'[k] = Append(out[k], p))
    <3>1. out \in [Clients -> Seq(Packet)]
      BY <1>0 DEF LibTypeOK
    <3> QED BY <1>5, <3>1 DEF Queues
  <2> QED BY <2>1, <2>2, <2>3
<1>6. ASSUME NEW j \in Clients, LoopStep(j) PROVE Connection(k)'
  <2>1. CASE on_message_store(j)
    BY <1>1, <2>1 DEF on_message_store
  <2>2. CASE on_connect(j) \/ on_subscribe(j) \/ on_message(j)
    <3>1. PICK l \in LinkStates :
            /\ LibReceive(j, l) /\ inn[j] # <<>> /\ loop[j] = "running"
            /\ l # link[j] => Head(inn[j]).type = "CONNACK"
      BY <1>0, <2>2 DEF on_connect, on_subscribe, on_message, Reads, HeadIs, LibTypeOK, LinkStates
    <3>2. CASE j # k
      BY <1>0, <3>1, <3>2 DEF LibReceive, LibTypeOK
    <3>3. CASE j = k
      <4>1. /\ inn'[k] = Tail(inn[k]) /\ inn[k] # <<>> /\ loop'[k] = "running" /\ link'[k] = l
            /\ UNCHANGED <<clean, out, session>>
        BY <1>0, <3>1, <3>3 DEF LibReceive, LibTypeOK
      <4>2. /\ Len(inn'[k]) = Len(inn[k]) - 1
            /\ \A i \in 1..Len(inn'[k]) : inn'[k][i] = inn[k][i + 1] /\ i + 1 \in 1..Len(inn[k])
        BY <1>0, <4>1
      <4>3. \A i \in 1..Len(inn'[k]) : ~Answer(inn'[k][i])
        BY <1>0, <4>2, SMTT(40)
      <4>4. \A i \in 1..Len(out[k]) : out[k][i].type # "CONNECT"
        BY <1>0, <4>1
      <4>5. Broken(k)' => Broken(k)
        BY <4>2
      <4> QED BY <1>0, <4>1, <4>3, <4>4, <4>5
    <3> QED BY <3>2, <3>3
  <2>3. CASE on_disconnect(j)
    <3>1. LibClose(j, "ended") \/ LibClose(j, "backoff")
      BY <2>3 DEF on_disconnect
    <3>2. CASE j # k
      BY <1>0, <3>1, <3>2 DEF LibClose, LibTypeOK
    <3>3. CASE j = k
      <4>1. /\ link'[k] = "closed" /\ loop'[k] \in {"ended", "backoff"} /\ out'[k] = <<>> /\ inn'[k] = <<>>
            /\ session'[k] = {} /\ clean'[k]
        BY <1>0, <3>1, <3>3 DEF LibClose, LibTypeOK
      <4> QED BY <4>1
    <3> QED BY <3>2, <3>3
  <2>4. CASE on_disconnect_reconnect(j)
    <3>1. loop[j] = "backoff"
      BY <1>0, <2>4 DEF on_disconnect_reconnect, CallbackInv
    <3>2. /\ UNCHANGED <<clean, loop, out, inn, session>>
          /\ \E l \in {"open", "closed"} : link' = [link EXCEPT ![j] = l]
      BY <2>4, Zenon DEF on_disconnect_reconnect, LibReopen
    <3>3. j # k => link'[k] = link[k]
      BY <1>0, <3>2 DEF LibTypeOK
    <3>4. j = k => out[k] = <<>> /\ inn[k] = <<>> /\ session[k] = {} /\ loop[k] # "none"
      BY <1>0, <3>1
    <3> QED BY <1>0, <3>2, <3>3, <3>4
  <2>5. CASE LoopRetry(j)
    <3>1. /\ loop[j] = "backoff" /\ UNCHANGED <<clean, inn, session>>
          /\ \/ loop' = [loop EXCEPT ![j] = "ended"] /\ UNCHANGED <<link, out>>
             \/ /\ loop' = [loop EXCEPT ![j] = "running"]
                /\ link' = [link EXCEPT ![j] = "open"]
                /\ out' = [out EXCEPT ![j] = <<Pkt("CONNECT")>>]
             \/ link' = [link EXCEPT ![j] = "closed"] /\ UNCHANGED <<loop, out>>
      BY <2>5 DEF LoopRetry, LibRetry
    <3>2. CASE j # k
      BY <1>0, <3>1, <3>2 DEF LibTypeOK
    <3>3. CASE j = k
      <4>1. out[k] = <<>> /\ inn[k] = <<>> /\ session[k] = {} /\ clean[k]
        BY <1>0, <3>1, <3>3
      <4>2. /\ clean'[k] /\ inn'[k] = <<>> /\ session'[k] = {} /\ loop'[k] # "none"
            /\ \/ out'[k] = <<>>
               \/ out'[k] = <<Pkt("CONNECT")>> /\ link'[k] = "open" /\ loop'[k] = "running"
        BY <1>0, <3>1, <3>3, <4>1 DEF LibTypeOK
      <4> QED BY <4>2 DEF Pkt
    <3> QED BY <3>2, <3>3
  <2> QED BY <1>6, <2>1, <2>2, <2>3, <2>4, <2>5 DEF LoopStep
<1>7. CASE Environment
  <2>0. UNCHANGED <<link, loop>>
    BY <1>7, EnvironmentFrame
  <2>1. ASSUME NEW t \in Topics, NEW m \in Msgs, NEW b, Route(b, t, m), UNCHANGED <<clean, session>>,
               (out'[k] = Tail(out[k]) /\ out[k] # <<>>) \/ out'[k] = out[k]
        PROVE  Connection(k)'
    <3>0. \/ out'[k] = out[k]
          \/ /\ out[k] # <<>>
             /\ \A i \in 1..Len(out'[k]) : out'[k][i] = out[k][i + 1] /\ i + 1 \in 1..Len(out[k])
      <4>1. CASE out'[k] = Tail(out[k]) /\ out[k] # <<>>
        BY <1>0, <4>1
      <4> QED BY <2>1, <4>1
    <3>1. \A i \in 1..Len(out'[k]) : out'[k][i].type = "CONNECT" => out'[k] = out[k]
      BY <1>0, <3>0
    <3>2. CASE inn'[k] = inn[k]
      <4>1. \A i \in 1..Len(out'[k]) : \E j \in 1..Len(out[k]) : out'[k][i] = out[k][j]
        BY <1>0, <3>0
      <4>2. out[k] = <<>> => out'[k] = <<>>
        BY <2>1
      <4>3. clean'[k] /\ link'[k] = link[k] /\ loop'[k] = loop[k] /\ session'[k] = session[k]
        BY <1>0, <2>0, <2>1
      <4>4. \A i \in 1..Len(out'[k]) : out'[k][i].type = "CONNECT" =>
              i = 1 /\ link[k] = "open" /\ inn[k] = <<>> /\ session[k] = {}
        BY <1>0, <3>1
      <4>5. loop[k] # "running" => \A i \in 1..Len(out'[k]) : out'[k][i].type # "SUBSCRIBE"
        BY <1>0, <4>1
      <4> QED BY <1>0, <3>2, <4>2, <4>3, <4>4, <4>5
    <3>3. CASE inn'[k] # inn[k]
      <4>1. session[k] # {} /\ ~Broken(k) /\ inn'[k] = Append(inn[k], Pub(t, m))
        BY <1>0, <2>1, <3>3 DEF Route, Subscribers, LibTypeOK
      <4>2. /\ loop[k] = "running"
            /\ \A i \in 1..Len(out'[k]) : out'[k][i].type # "CONNECT"
        BY <1>0, <3>1, <4>1
      <4>3. \A i \in 1..Len(inn'[k]) :
              (i \in 1..Len(inn[k]) /\ inn'[k][i] = inn[k][i]) \/ inn'[k][i].type = "PUBLISH"
        BY <1>0, <4>1 DEF Pub
      <4> QED BY <1>0, <2>0, <2>1, <4>1, <4>2, <4>3
    <3> QED BY <3>2, <3>3
  <2>2. ASSUME NEW j \in Clients, BrokerAccept(j) PROVE Connection(k)'
    <3>1. CASE j # k
      BY <1>0, <2>0, <2>2, <3>1 DEF BrokerAccept, BrokerReads, LibTypeOK
    <3>2. CASE j = k
      <4>1. /\ out[k] # <<>> /\ out[k][1].type = "CONNECT" /\ 1 \in 1..Len(out[k])
            /\ out'[k] = Tail(out[k])
        BY <1>0, <2>2, <3>2 DEF BrokerAccept, BrokerReads, HeadIs, LibTypeOK
      <4>2. inn[k] = <<>> /\ link[k] = "open" /\ session[k] = {}
        BY <1>0, <4>1
      <4>3. inn'[k] = <<Pkt("CONNACK")>> /\ session'[k] = {} /\ clean'[k]
        BY <1>0, <2>2, <3>2, <4>2 DEF BrokerAccept, BrokerReads, LibTypeOK
      <4>4. \A i \in 1..Len(out'[k]) : out'[k][i] = out[k][i + 1] /\ i + 1 \in 1..Len(out[k])
        BY <1>0, <4>1
      <4>5. \A i \in 1..Len(out'[k]) : out'[k][i].type # "CONNECT"
        BY <1>0, <4>4
      <4>6. loop[k] # "backoff"
        BY <1>0, <4>1
      <4> QED BY <1>0, <2>0, <4>2, <4>3, <4>4, <4>5, <4>6 DEF Pkt
    <3> QED BY <3>1, <3>2
  <2>3. ASSUME NEW j \in Clients, BrokerRefuse(j) PROVE Connection(k)'
    <3>1. CASE j # k
      BY <1>0, <2>0, <2>3, <3>1 DEF BrokerRefuse, LibTypeOK
    <3>2. CASE j = k
      <4>1. out[k] # <<>> /\ out[k][1].type = "CONNECT" /\ 1 \in 1..Len(out[k])
        BY <1>0, <2>3, <3>2 DEF BrokerRefuse, HeadIs, LibTypeOK
      <4>2. inn[k] = <<>> /\ link[k] = "open" /\ session[k] = {} /\ loop[k] # "backoff"
        BY <1>0, <4>1
      <4>3. /\ inn'[k] = <<Pkt("REFUSED"), Pkt("EOF")>> /\ session'[k] = {} /\ clean'[k]
            /\ out'[k] = <<>>
        BY <1>0, <2>3, <3>2, <4>2 DEF BrokerRefuse, LibTypeOK
      <4> QED BY <1>0, <2>0, <4>2, <4>3 DEF Pkt
    <3> QED BY <3>1, <3>2
  <2>4. ASSUME NEW j \in Clients, BrokerSubscribe(j) PROVE Connection(k)'
    <3>1. CASE j # k
      <4>1. PICK x : inn' = [inn EXCEPT ![j] = x]
        BY <2>4, SubscribeAnswers
      <4>2. inn'[k] = inn[k] /\ out'[k] = out[k] /\ session'[k] = session[k]
        <5>1. session' = session \/ session' = [session EXCEPT ![j] = @ \cup {Head(out[j]).topic}]
          BY <2>4, Zenon DEF BrokerSubscribe
        <5>2. out' = [out EXCEPT ![j] = Tail(@)]
          BY <2>4, Zenon DEF BrokerSubscribe, BrokerReads
        <5> QED BY <1>0, <3>1, <4>1, <5>1, <5>2 DEF LibTypeOK
      <4>3. UNCHANGED clean
        BY <2>4, Zenon DEF BrokerSubscribe, BrokerReads
      <4> QED BY <1>0, <2>0, <4>2, <4>3
    <3>2. CASE j = k
      <4>0. BrokerReads(k, "SUBSCRIBE")
        BY <2>4, <3>2 DEF BrokerSubscribe
      <4>1. /\ out[k] # <<>> /\ out[k][1].type = "SUBSCRIBE" /\ 1 \in 1..Len(out[k])
            /\ out'[k] = Tail(out[k]) /\ clean'[k]
        BY <1>0, <4>0 DEF BrokerReads, HeadIs, LibTypeOK
      <4>2. loop[k] = "running" /\ ~Broken(k)
        BY <1>0, <4>1
      <4>3. \A i \in 1..Len(out'[k]) : out'[k][i] = out[k][i + 1] /\ i + 1 \in 1..Len(out[k])
        BY <1>0, <4>1
      <4>4. \A i \in 1..Len(out'[k]) : out'[k][i].type # "CONNECT"
        BY <1>0, <4>3
      <4> DEFINE t == Head(out[k]).topic
                 m == retained[addr[k]][t]
                 q == IF m = None THEN <<>> ELSE <<Pub(t, m)>>
                 s == <<Pkt("SUBACK")>>
      <4>5. \/ inn'[k] = (inn[k] \o s) \o q
            \/ inn'[k] = Append(inn[k], Pkt("SUBACK"))
        <5>1. PICK x : inn' = [inn EXCEPT ![k] = x] /\ (x = (inn[k] \o s) \o q \/ x = Append(inn[k], Pkt("SUBACK")))
          BY <2>4, <3>2, SubscribeAnswers, Zenon
        <5> HIDE DEF q, s
        <5>2. inn'[k] = x
          BY <1>0, <5>1 DEF LibTypeOK
        <5> QED BY <5>1, <5>2
      <4>6. /\ q \in Seq(Packet) /\ \A i \in 1..Len(q) : q[i].type = "PUBLISH"
            /\ Pkt("SUBACK") \in Packet
        <5>1. t \in Topics /\ (m = None \/ m \in Msgs)
          BY <1>0, <4>1, HeadPacket, PacketFields DEF HeadIs, LibTypeOK, Fresh, Built
        <5> HIDE DEF t, m
        <5>2. m # None => Pub(t, m) \in Packet
          BY <5>1, PacketTypes
        <5> QED BY <5>2, PacketTypes DEF Pub
      <4>7. \A i \in 1..Len(inn'[k]) :
              \/ i \in 1..Len(inn[k]) /\ inn'[k][i] = inn[k][i]
              \/ inn'[k][i] = Pkt("SUBACK")
              \/ inn'[k][i].type = "PUBLISH"
        <5> HIDE DEF q
        <5>1. CASE inn'[k] = Append(inn[k], Pkt("SUBACK"))
          BY <1>0, <4>6, <5>1
        <5>2. CASE inn'[k] = (inn[k] \o s) \o q
          <6> DEFINE u == inn[k] \o s
                     v == inn'[k]
          <6>1. inn[k] \in Seq(Packet) /\ s \in Seq(Packet) /\ q \in Seq(Packet)
            BY <1>0, <4>6 DEF LibTypeOK
          <6>2. u \in Seq(Packet) /\ \A i \in 1..Len(s) : s[i] = Pkt("SUBACK")
            BY <6>1
          <6> HIDE DEF s
          <6>3. Parts(u, inn[k], s) /\ Parts(u \o q, u, q)
            BY ONLY <6>1, <6>2, ConcatElements
          <6>4. v = u \o q
            BY <5>2
          <6> HIDE DEF u, v
          <6>5. \A i \in 1..Len(v) :
                  \/ i \in 1..Len(u) /\ v[i] = u[i]
                  \/ v[i].type = "PUBLISH"
            BY <4>6, <6>3, <6>4 DEF Parts
          <6>6. \A i \in 1..Len(u) :
                  \/ i \in 1..Len(inn[k]) /\ u[i] = inn[k][i]
                  \/ u[i] = Pkt("SUBACK")
            BY <6>2, <6>3 DEF Parts
          <6> QED BY <6>5, <6>6 DEF v
        <5> QED BY <4>5, <5>1, <5>2
      <4>8. \A i \in 1..Len(inn'[k]) : Answer(inn'[k][i]) => i = 1 /\ link'[k] = "open"
        BY <1>0, <2>0, <4>7 DEF Pkt
      <4>9. ~Broken(k)'
        BY <4>2, <4>7 DEF Pkt
      <4> QED BY <1>0, <2>0, <4>1, <4>2, <4>4, <4>8, <4>9
    <3> QED BY <3>1, <3>2
  <2>5. ASSUME NEW j \in Clients, BrokerUnsubscribe(j) PROVE Connection(k)'
    <3>1. CASE j # k
      BY <1>0, <2>0, <2>5, <3>1 DEF BrokerUnsubscribe, BrokerReads, LibTypeOK
    <3>2. CASE j = k
      <4>1. /\ out[k] # <<>> /\ out[k][1].type = "UNSUBSCRIBE" /\ 1 \in 1..Len(out[k])
            /\ out'[k] = Tail(out[k]) /\ clean'[k] /\ inn' = inn /\ session'[k] \subseteq session[k]
        BY <1>0, <2>5, <3>2 DEF BrokerUnsubscribe, BrokerReads, HeadIs, LibTypeOK
      <4>2. \A i \in 1..Len(out'[k]) : out'[k][i] = out[k][i + 1] /\ i + 1 \in 1..Len(out[k])
        BY <1>0, <4>1
      <4> QED BY <1>0, <2>0, <4>1, <4>2
    <3> QED BY <3>1, <3>2
  <2>6. ASSUME NEW j \in Clients, BrokerPublish(j) PROVE Connection(k)'
    <3> DEFINE p == Head(out[j])
    <3>1. HeadIs(out[j], "PUBLISH") /\ out[j] \in Seq(Packet) /\ out' = [out EXCEPT ![j] = Tail(@)]
      BY <1>0, <2>6 DEF BrokerPublish, BrokerReads, LibTypeOK
    <3>2. p.topic \in Topics /\ p.msg \in Msgs
      BY <3>1, HeadPacket, PacketFields
    <3>3. Route(addr[j], p.topic, p.msg) /\ UNCHANGED <<clean, session>>
      BY <2>6 DEF BrokerPublish, BrokerReads
    <3>4. (Tail(out[k]) = out'[k] /\ out[k] # <<>>) \/ out'[k] = out[k]
      BY <1>0, <3>1 DEF HeadIs, LibTypeOK
    <3> QED BY <2>1, <3>2, <3>3, <3>4
  <2>7. ASSUME NEW j \in Clients, LoseConnection(j) PROVE Connection(k)'
    <3>1. CASE j # k
      <4>1. \E x, y : inn' = [inn EXCEPT ![j] = x] /\ session' = [session EXCEPT ![j] = y]
        BY <2>7, Zenon DEF LoseConnection
      <4>2. out' = [out EXCEPT ![j] = <<>>] /\ clean' = clean
        BY <2>7 DEF LoseConnection
      <4>3. inn'[k] = inn[k] /\ session'[k] = session[k] /\ out'[k] = out[k]
        BY <1>0, <3>1, <4>1, <4>2 DEF LibTypeOK
      <4>4. clean' = clean
        BY <4>2
      <4> QED BY <1>0, <2>0, <4>3, <4>4
    <3>2. CASE j = k
      <4>1. /\ out'[k] = <<>> /\ session'[k] = {} /\ clean'[k] /\ loop[k] # "backoff"
            /\ link[k] # "closed"
        BY <1>0, <2>7, <3>2 DEF LoseConnection, LibTypeOK
      <4>2. PICK n \in 0..Len(inn[k]) : inn'[k] = Append(SubSeq(inn[k], 1, n), Pkt("EOF"))
        BY <1>0, <2>7, <3>2 DEF LoseConnection, LibTypeOK
      <4>3. \A i \in 1..Len(inn'[k]) :
              (i \in 1..Len(inn[k]) /\ inn'[k][i] = inn[k][i]) \/ inn'[k][i] = Pkt("EOF")
        BY <1>0, <4>2, PacketTypes
      <4> QED BY <1>0, <2>0, <4>1, <4>3, SMTT(40) DEF Pkt
    <3> QED BY <3>1, <3>2
  <2>8. ASSUME NEW b \in Brokers, NEW t \in Topics, NEW m \in Msgs, OthersPublish(b, t, m)
        PROVE  Connection(k)'
    BY <2>1, <2>8 DEF OthersPublish
  <2> QED BY <1>7, <2>2, <2>3, <2>4, <2>5, <2>6, <2>7, <2>8 DEF Environment, Network, BrokerStep
<1>8. CASE SubscribeSend \/ toPublishTopicMsg \/ UnsubscribeSend \/ Disconnect
  BY <1>1, <1>5, <1>8, SendsQueue
<1>9. CASE UNCHANGED vars
  BY <1>1, <1>9 DEF vars
<1> QED
  BY <1>1, <1>2, <1>3, <1>4, <1>6, <1>7, <1>8, <1>9, CallsFrame
     DEF Next, ApiStep, toConnectBroker, toSubscribeTopic, toUnsubscribeTopic, toDisconnectBroker

LEMMA ConnectionInit == Init => ConnectionInv
BY DEF Init, LibInit, ConnectionInv, Connection, Broken

LEMMA AckedStep == Inv /\ ConnectionInv /\ AckedIsKnown /\ [Next]_vars => AckedIsKnown'
<1> SUFFICES ASSUME Inv, ConnectionInv, AckedIsKnown, [Next]_vars,
                    NEW k \in Clients, link'[k] = "acked"
             PROVE  m_clientStatus'[k] = "CONNECT_SUC"
  BY DEF AckedIsKnown
<1>0. /\ TypeOK /\ LibTypeOK /\ CallInv
      /\ \A j \in Clients : Connection(j)
      /\ link[k] = "acked" => m_clientStatus[k] = "CONNECT_SUC"
  BY DEF Inv, TypeOK, ConnectionInv, AckedIsKnown
<1>1. CASE UNCHANGED <<link, m_clientStatus>>
  BY <1>0, <1>1
<1>2. CASE ConnectNew
  BY <1>0, <1>2 DEF ConnectNew, LibConnect, clientVars, LibTypeOK
<1>3. CASE SetConnecting
  <2>1. k0 \in Clients /\ loop[k0] = "none" /\ link' = link
    BY <1>0, <1>3 DEF SetConnecting, CallInv, Building, libVars
  <2>2. k0 # k
    BY <1>0, <2>1 DEF Connection
  <2> QED BY <1>0, <1>3, <2>1, <2>2 DEF SetConnecting, TypeOK
<1>4. CASE DropClient \/ Unregister
  BY <1>0, <1>4 DEF DropClient, Unregister, Destroy, LibDestroy, LibTypeOK, TypeOK
<1>5. ASSUME NEW j \in Clients, LoopStep(j) PROVE m_clientStatus'[k] = "CONNECT_SUC"
  <2>1. CASE on_connect(j)
    <3>1. CASE Reads(j, "CONNACK")
      BY <1>0, <2>1, <3>1 DEF on_connect, LibReceive, Reads, HeadIs, LibTypeOK, TypeOK
    <3>2. CASE Reads(j, "REFUSED")
      <4>1. inn[j] # <<>> /\ inn[j][1].type = "REFUSED" /\ 1 \in 1..Len(inn[j])
        BY <1>0, <3>2 DEF Reads, HeadIs, LibTypeOK
      <4>2. link[j] = "open"
        BY <1>0, <4>1 DEF Connection, Answer
      <4>3. LibReceive(j, link[j]) /\ \A i \in Clients : i # j => m_clientStatus'[i] = m_clientStatus[i]
        BY <1>0, <2>1, <3>2 DEF on_connect, Reads, HeadIs, TypeOK
      <4> QED BY <1>0, <4>2, <4>3 DEF LibReceive, LibTypeOK
    <3> QED BY <2>1, <3>1, <3>2 DEF on_connect
  <2>2. CASE on_subscribe(j)
    BY <1>0, <2>2 DEF on_subscribe, LibReceive, LibTypeOK, TypeOK
  <2>3. CASE on_message(j) \/ on_message_store(j)
    BY <1>0, <2>3 DEF on_message, on_message_store, LibReceive, libVars, LibTypeOK
  <2>4. CASE on_disconnect(j)
    BY <1>0, <2>4 DEF on_disconnect, LibClose, LibTypeOK, TypeOK
  <2>5. CASE on_disconnect_reconnect(j)
    BY <1>0, <2>5 DEF on_disconnect_reconnect, LibReopen, LibTypeOK
  <2>6. CASE LoopRetry(j)
    BY <1>0, <2>6 DEF LoopRetry, LibRetry, LibTypeOK, clientVars
  <2> QED BY <1>5, <2>1, <2>2, <2>3, <2>4, <2>5, <2>6 DEF LoopStep
<1>6. CASE Environment
  BY <1>1, <1>6, EnvironmentFrame DEF clientVars
<1>7. CASE SubscribeSend \/ toPublishTopicMsg \/ UnsubscribeSend \/ Disconnect \/ LoopStart
  BY <1>1, <1>7 DEF SubscribeSend, toPublishTopicMsg, SendOr, UnsubscribeSend, Disconnect, LoopStart,
                    LibSend, LibDisconnect, LibLoopStart, clientVars, libVars
<1>8. CASE \/ UNCHANGED vars \/ initMqttData \/ UserCalls \/ Finish \/ ConnectKnown \/ ConnectUsable
           \/ Insert \/ SubscribeFind \/ SubscribeBind \/ UnsubscribeFind \/ UnsubscribeErase
           \/ LoopStop \/ setReconnectCfg
  <2>1. UNCHANGED m_clientStatus
    BY <1>8 DEF vars, clientVars, initMqttData, UserCalls, subMqttTopic, pubMqttTopicMsg,
      unsubMqttTopic, disconnectMqttBroker, setClientRecCfg, Begin, Finish, ConnectKnown,
      ConnectUsable, Insert, SubscribeFind, SubscribeBind, UnsubscribeFind, UnsubscribeErase,
      LoopStop, setReconnectCfg
  <2>2. UNCHANGED libVars
    BY <1>8, CallsFrame DEF vars
  <2> QED BY <1>1, <2>1, <2>2 DEF libVars
<1> QED
  BY <1>2, <1>3, <1>4, <1>5, <1>6, <1>7, <1>8
     DEF Next, ApiStep, toConnectBroker, toSubscribeTopic, toUnsubscribeTopic, toDisconnectBroker

THEOREM ConnectionInvariance == Spec => []ConnectionInv
BY Invariance, ConnectionInit, ConnectionStep, PTL DEF Spec

\* A client whose connection is confirmed is never recorded as anything else,
\* however its network thread and toConnectBroker interleave.
THEOREM AckedKnown == Spec => []AckedIsKnown
<1>1. Init => AckedIsKnown
  BY DEF Init, LibInit, AckedIsKnown
<1> QED BY <1>1, Invariance, ConnectionInvariance, AckedStep, PTL DEF Spec

-----------------------------------------------------------------------------
(* Subscriptions and m_topicMsg.                                            *)

\* A topic that is not wanted stays so, whatever another packet is queued.
LEMMA QueueForgotten ==
  ASSUME TypeOK, NEW k \in Clients, NEW t \in Topics, Forgotten(k, t),
         NEW j \in Clients, NEW p \in Packet, Queues(j, p), p # Req("SUBSCRIBE", t)
  PROVE  Forgotten(k, t)'
<1>0. out \in [Clients -> Seq(Packet)] /\ out[k] \in Seq(Packet)
  BY DEF TypeOK, LibTypeOK
<1>1. session'[k] = session[k]
  BY DEF Queues
<1>2. CASE out'[k] = out[k]
  BY <1>1, <1>2 DEF Forgotten, Wanted, Forgetting
<1>3. CASE out'[k] = Append(out[k], p)
  <2>1. /\ Len(out'[k]) = Len(out[k]) + 1
        /\ \A i \in 1..Len(out[k]) : out'[k][i] = out[k][i]
        /\ out'[k][Len(out[k]) + 1] = p
    BY <1>0, <1>3
  <2>2. Len(out[k]) \in Nat
    BY <1>0
  <2>3. Wanted(k, t)' => Wanted(k, t)
    BY <1>1, <2>1, <2>2 DEF Wanted
  <2>4. ASSUME NEW i \in 1..Len(out[k]), out[k][i] = Req("UNSUBSCRIBE", t),
               \A l \in i + 1..Len(out[k]) : out[k][l] # Req("SUBSCRIBE", t)
        PROVE  Forgetting(k, t)'
    <3>1. i \in 1..Len(out'[k]) /\ out'[k][i] = Req("UNSUBSCRIBE", t)
      BY <2>1, <2>2, <2>4
    <3>2. \A l \in i + 1..Len(out'[k]) : out'[k][l] # Req("SUBSCRIBE", t)
      BY <2>1, <2>2, <2>4
    <3> QED BY <3>1, <3>2 DEF Forgetting
  <2> QED BY <2>3, <2>4 DEF Forgotten, Forgetting
<1> QED BY <1>0, <1>2, <1>3 DEF Queues

\* A client that asks for nothing and has no session wants nothing.
LEMMA NothingWanted ==
  ASSUME NEW k \in Clients, NEW t \in Topics, session[k] = {},
         \A i \in 1..Len(out[k]) : out[k][i].type # "SUBSCRIBE"
  PROVE  Forgotten(k, t)
BY DEF Forgotten, Wanted, Req

\* The broker reads the requests in order.
LEMMA ReadForgotten ==
  ASSUME TypeOK, NEW k \in Clients, NEW t \in Topics, Forgotten(k, t),
         out[k] # <<>>, out'[k] = Tail(out[k]),
         t \in session'[k] => t \in session[k] \/ out[k][1] = Req("SUBSCRIBE", t),
         out[k][1] = Req("UNSUBSCRIBE", t) => t \notin session'[k]
  PROVE  Forgotten(k, t)'
<1>0. out[k] \in Seq(Packet)
  BY DEF TypeOK, LibTypeOK
<1>1. /\ Len(out'[k]) = Len(out[k]) - 1 /\ Len(out[k]) \in Nat \ {0}
      /\ \A i \in 1..Len(out'[k]) : out'[k][i] = out[k][i + 1]
  BY <1>0
<1>2. Wanted(k, t)' => Wanted(k, t)
  BY <1>1 DEF Wanted
<1>3. ASSUME NEW i \in 1..Len(out[k]), out[k][i] = Req("UNSUBSCRIBE", t),
             \A l \in i + 1..Len(out[k]) : out[k][l] # Req("SUBSCRIBE", t),
             Wanted(k, t)'
      PROVE  Forgetting(k, t)'
  <2>1. i # 1
    <3> SUFFICES ASSUME i = 1 PROVE FALSE
      OBVIOUS
    <3>1. PICK l \in 1..Len(out'[k]) : out'[k][l] = Req("SUBSCRIBE", t)
      BY <1>3 DEF Wanted
    <3>2. l + 1 \in i + 1..Len(out[k]) /\ out[k][l + 1] = Req("SUBSCRIBE", t)
      BY <1>1, <3>1
    <3> QED BY <1>3, <3>2
  <2>2. i - 1 \in 1..Len(out'[k]) /\ out'[k][i - 1] = Req("UNSUBSCRIBE", t)
    BY <1>1, <1>3, <2>1
  <2>3. \A l \in (i - 1) + 1..Len(out'[k]) : out'[k][l] # Req("SUBSCRIBE", t)
    BY <1>1, <1>3, <2>1
  <2> QED BY <2>2, <2>3 DEF Forgetting
<1> QED BY <1>2, <1>3 DEF Forgotten, Forgetting

LEMMA LoopForgotten ==
  ASSUME Inv, ConnectionInv, NEW k \in Clients, NEW t \in Topics, Forgotten(k, t),
         Environment \/ \E j \in Clients : LoopStep(j)
  PROVE  Forgotten(k, t)'
<1>0. TypeOK /\ LibTypeOK /\ \A j \in Clients : Connection(j)
  BY DEF Inv, TypeOK, ConnectionInv
<1>1. CASE UNCHANGED <<out, session>>
  BY <1>1 DEF Forgotten, Wanted, Forgetting
<1>2. CASE out'[k] = out[k] /\ session'[k] = session[k]
  BY <1>2 DEF Forgotten, Wanted, Forgetting
<1>3. CASE session'[k] = {} /\ \A i \in 1..Len(out'[k]) : out'[k][i].type # "SUBSCRIBE"
  BY <1>3 DEF Forgotten, Wanted, Req
<1>4. ASSUME NEW j \in Clients, LoopStep(j) PROVE Forgotten(k, t)'
  <2>1. CASE on_connect(j) \/ on_subscribe(j) \/ on_message(j) \/ on_message_store(j)
             \/ on_disconnect_reconnect(j)
    BY <1>1, <2>1 DEF on_connect, on_subscribe, on_message, on_message_store,
                      on_disconnect_reconnect, LibReceive, LibReopen, libVars
  <2>2. CASE on_disconnect(j)
    BY <1>0, <1>2, <1>3, <2>2 DEF on_disconnect, LibClose, LibTypeOK, Connection
  <2>3. CASE LoopRetry(j)
    <3>1. /\ loop[j] = "backoff" /\ session' = session
          /\ out' = out \/ out' = [out EXCEPT ![j] = <<Pkt("CONNECT")>>]
      BY <2>3 DEF LoopRetry, LibRetry
    <3>2. CASE j = k
      <4>1. session'[k] = {} /\ out[k] = <<>>
        BY <1>0, <3>1, <3>2 DEF Connection
      <4>2. out'[k] = <<>> \/ out'[k] = <<Pkt("CONNECT")>>
        BY <1>0, <3>1, <3>2, <4>1 DEF LibTypeOK
      <4> QED BY <1>3, <4>1, <4>2 DEF Pkt
    <3>3. CASE j # k
      BY <1>0, <1>2, <3>1, <3>3 DEF LibTypeOK
    <3> QED BY <3>2, <3>3
  <2> QED BY <1>4, <2>1, <2>2, <2>3 DEF LoopStep
<1>5. CASE Environment
  <2>1. ASSUME NEW j \in Clients, BrokerAccept(j) PROVE Forgotten(k, t)'
    <3>1. CASE j # k
      BY <1>0, <1>2, <2>1, <3>1 DEF BrokerAccept, BrokerReads, LibTypeOK
    <3>2. CASE j = k
      <4>1. /\ out[k] # <<>> /\ out'[k] = Tail(out[k]) /\ out[k][1].type = "CONNECT"
            /\ session'[k] = {}
        BY <1>0, <2>1, <3>2 DEF BrokerAccept, BrokerReads, HeadIs, LibTypeOK, Connection
      <4> QED BY <1>0, <4>1, ReadForgotten DEF Req
    <3> QED BY <3>1, <3>2
  <2>2. ASSUME NEW j \in Clients, BrokerRefuse(j) PROVE Forgotten(k, t)'
    <3>1. CASE j # k
      BY <1>0, <1>2, <2>2, <3>1 DEF BrokerRefuse, LibTypeOK
    <3>2. CASE j = k
      <4>1. out[k] # <<>> /\ out[k][1].type = "CONNECT" /\ 1 \in 1..Len(out[k])
        BY <1>0, <2>2, <3>2 DEF BrokerRefuse, HeadIs, LibTypeOK
      <4>2. session'[k] = {} /\ out'[k] = <<>>
        BY <1>0, <2>2, <3>2, <4>1 DEF BrokerRefuse, LibTypeOK, Connection
      <4> QED BY <1>3, <4>2
    <3> QED BY <3>1, <3>2
  <2>3. ASSUME NEW j \in Clients, BrokerSubscribe(j) PROVE Forgotten(k, t)'
    <3>1. CASE j # k
      BY <1>0, <1>2, <2>3, <3>1 DEF BrokerSubscribe, BrokerReads, LibTypeOK
    <3>2. CASE j = k
      <4>1. BrokerReads(k, "SUBSCRIBE")
        BY <2>3, <3>2 DEF BrokerSubscribe
      <4>2. out[k] # <<>> /\ out'[k] = Tail(out[k]) /\ out[k][1].type = "SUBSCRIBE"
        BY <1>0, <4>1 DEF BrokerReads, HeadIs, LibTypeOK
      <4>3. \/ session' = [session EXCEPT ![k] = @ \cup {Head(out[k]).topic}]
            \/ session' = session
        BY <2>3, <3>2 DEF BrokerSubscribe
      <4>4. \A s \in session'[k] : s \in session[k] \/ s = out[k][1].topic
        BY <1>0, <4>2, <4>3 DEF LibTypeOK
      <4>5. out[k][1] \in Packet
        BY <1>0, <4>2 DEF LibTypeOK
      <4>6. out[k][1] = Req("SUBSCRIBE", out[k][1].topic)
        BY <4>2, <4>5 DEF Packet, Req
      <4>7. out[k][1] # Req("UNSUBSCRIBE", t)
        BY <4>2 DEF Req
      <4> QED BY <1>0, <4>2, <4>4, <4>6, <4>7, ReadForgotten
    <3> QED BY <3>1, <3>2
  <2>4. ASSUME NEW j \in Clients, BrokerUnsubscribe(j) PROVE Forgotten(k, t)'
    <3>1. CASE j # k
      BY <1>0, <1>2, <2>4, <3>1 DEF BrokerUnsubscribe, BrokerReads, LibTypeOK
    <3>2. CASE j = k
      <4>1. /\ out[k] # <<>> /\ out'[k] = Tail(out[k])
            /\ session'[k] = session[k] \ {out[k][1].topic}
        BY <1>0, <2>4, <3>2 DEF BrokerUnsubscribe, BrokerReads, HeadIs, LibTypeOK
      <4>2. out[k][1] = Req("UNSUBSCRIBE", t) => t \notin session'[k]
        BY <4>1 DEF Req
      <4>3. t \in session'[k] => t \in session[k]
        BY <4>1
      <4> QED BY <1>0, <4>1, <4>2, <4>3, ReadForgotten
    <3> QED BY <3>1, <3>2
  <2>5. ASSUME NEW j \in Clients, BrokerPublish(j) PROVE Forgotten(k, t)'
    <3>1. CASE j # k
      BY <1>0, <1>2, <2>5, <3>1 DEF BrokerPublish, BrokerReads, LibTypeOK
    <3>2. CASE j = k
      <4>1. /\ out[k] # <<>> /\ out'[k] = Tail(out[k]) /\ session' = session
            /\ out[k][1].type = "PUBLISH"
        BY <1>0, <2>5, <3>2 DEF BrokerPublish, BrokerReads, HeadIs, LibTypeOK
      <4>2. out[k][1] # Req("UNSUBSCRIBE", t)
        BY <4>1 DEF Req
      <4> QED BY <1>0, <4>1, <4>2, ReadForgotten
    <3> QED BY <3>1, <3>2
  <2>6. ASSUME NEW j \in Clients, LoseConnection(j) PROVE Forgotten(k, t)'
    BY <1>0, <1>2, <1>3, <2>6 DEF LoseConnection, LibTypeOK, Connection
  <2>7. ASSUME NEW b \in Brokers, NEW s \in Topics, NEW m \in Msgs, OthersPublish(b, s, m)
        PROVE  Forgotten(k, t)'
    BY <1>1, <2>7 DEF OthersPublish
  <2> QED BY <1>5, <2>1, <2>2, <2>3, <2>4, <2>5, <2>6, <2>7 DEF Environment, Network, BrokerStep
<1> QED BY <1>4, <1>5

LEMMA TopicStep == Inv /\ ConnectionInv /\ TopicInv /\ [Next]_vars => TopicInv'
<1> SUFFICES ASSUME Inv, ConnectionInv, TopicInv, [Next]_vars PROVE TopicInv'
  OBVIOUS
<1> USE DEF Goto, Return, SameCall, k0
<1>0. /\ TypeOK /\ LibTypeOK /\ CallInv
      /\ \A j \in Clients : Connection(j)
      /\ call # NoCall => call.addr \in Brokers
      /\ \A j \in Clients, t \in Topics : m_topicMsg[j][t] = None => Forgotten(j, t)
  BY CallFields DEF Inv, TypeOK, ConnectionInv, TopicInv
<1>1. CASE UNCHANGED <<out, session, m_topicMsg>> /\ pc' \notin {"erase", "subscribe"}
  BY <1>1 DEF TopicInv, Forgotten, Wanted, Forgetting
<1>2. CASE UNCHANGED vars
  BY <1>2 DEF TopicInv, Forgotten, Wanted, Forgetting, vars, libVars, apiVars, clientVars
<1>3. CASE ConnectNew
  <2>1. PICK k \in Clients, ok \in BOOLEAN :
          ~Built(k) /\ LibConnect(k, call.addr, g_clientId, cleanSession(g_clientId), ok)
    BY <1>3 DEF ConnectNew
  <2>2. /\ session' = session /\ session[k] = {}
        /\ out' = [out EXCEPT ![k] = IF ok THEN <<Pkt("CONNECT")>> ELSE <<>>]
    BY <1>0, <2>1 DEF LibConnect, Connection, Inv, FreshInv, Fresh
  <2>3. \A i \in 1..Len(out'[k]) : out'[k][i].type # "SUBSCRIBE"
    BY <1>0, <2>2 DEF Pkt, LibTypeOK
  <2>4. \A j \in Clients : j # k => out'[j] = out[j]
    BY <1>0, <2>2 DEF LibTypeOK
  <2>5. ASSUME NEW j \in Clients, NEW t \in Topics, m_topicMsg'[j][t] = None PROVE Forgotten(j, t)'
    <3>1. CASE j = k
      BY <2>2, <2>3, <3>1 DEF Forgotten, Wanted, Req
    <3>2. CASE j # k
      BY <1>0, <1>3, <2>2, <2>4, <2>5, <3>2
         DEF ConnectNew, clientVars, Forgotten, Wanted, Forgetting
    <3> QED BY <3>1, <3>2
  <2> QED BY <1>3, <2>5 DEF ConnectNew, TopicInv
<1>4. CASE DropClient \/ Unregister
  <2>1. /\ session' = [session EXCEPT ![k0] = {}] /\ out' = [out EXCEPT ![k0] = <<>>]
        /\ m_topicMsg' = [m_topicMsg EXCEPT ![k0] = [t \in Topics |-> None]]
        /\ pc' = "return"
    BY <1>4 DEF DropClient, Unregister, Destroy, LibDestroy
  <2>2. ASSUME NEW j \in Clients, NEW t \in Topics, m_topicMsg'[j][t] = None PROVE Forgotten(j, t)'
    <3>1. CASE j = k0
      BY <1>0, <2>1, <3>1 DEF Forgotten, Wanted, LibTypeOK
    <3>2. CASE j # k0
      BY <1>0, <2>1, <2>2, <3>2 DEF Forgotten, Wanted, Forgetting, LibTypeOK, TypeOK
    <3> QED BY <3>1, <3>2
  <2> QED BY <2>1, <2>2 DEF TopicInv
<1>5. CASE LoopStart
  BY <1>1, <1>5 DEF LoopStart, LibLoopStart, clientVars
<1>6. CASE SubscribeBind
  <2>1. /\ k0 \in Clients /\ call.topic \in Topics /\ call.result \in Results
        /\ UNCHANGED <<out, session, call>>
        /\ m_topicMsg' = [m_topicMsg EXCEPT ![k0][call.topic] = call.result]
    BY <1>0, <1>6, CallFields DEF SubscribeBind, CallInv, Using, libVars
  <2>2. \A j \in Clients, t \in Topics :
          m_topicMsg'[j][t] = IF j = k0 /\ t = call.topic THEN call.result ELSE m_topicMsg[j][t]
    BY <1>0, <2>1 DEF TypeOK
  <2> QED BY <1>0, <1>6, <2>1, <2>2, ResultsAssumption
          DEF SubscribeBind, TopicInv, Forgotten, Wanted, Forgetting
<1>7. CASE SubscribeSend
  <2>1. /\ k0 \in Clients /\ call.topic \in Topics /\ m_topicMsg[k0][call.topic] # None
        /\ m_topicMsg' = m_topicMsg /\ pc' = "return"
        /\ UNCHANGED libVars \/ LibSend(k0, Req("SUBSCRIBE", call.topic))
    BY <1>0, <1>7, CallFields DEF SubscribeSend, SendOr, CallInv, Using, TopicInv, clientVars
  <2>2. CASE UNCHANGED libVars
    BY <1>1, <2>1, <2>2 DEF libVars
  <2>3. CASE LibSend(k0, Req("SUBSCRIBE", call.topic))
    <3>1. Queues(k0, Req("SUBSCRIBE", call.topic)) /\ Req("SUBSCRIBE", call.topic) \in Packet
      BY <2>1, <2>3, PacketTypes DEF LibSend, Queues
    <3>2. ASSUME NEW j \in Clients, NEW t \in Topics, m_topicMsg'[j][t] = None PROVE Forgotten(j, t)'
      <4>1. Forgotten(j, t) /\ (j = k0 => t # call.topic)
        BY <1>0, <2>1, <3>2
      <4>2. CASE j = k0
        <5>1. Req("SUBSCRIBE", call.topic) # Req("SUBSCRIBE", t)
          BY <4>1, <4>2 DEF Req
        <5> QED BY <1>0, <2>1, <3>1, <4>1, <5>1, QueueForgotten
      <4>3. CASE j # k0
        BY <1>0, <2>3, <4>1, <4>3 DEF LibSend, LibTypeOK, Forgotten, Wanted, Forgetting
      <4> QED BY <4>2, <4>3
    <3> QED BY <2>1, <3>2 DEF TopicInv
  <2> QED BY <2>1, <2>2, <2>3
<1>8. CASE toPublishTopicMsg \/ Disconnect
  <2>1. m_topicMsg' = m_topicMsg /\ pc' \notin {"erase", "subscribe"}
    BY <1>8 DEF toPublishTopicMsg, SendOr, Disconnect, clientVars
  <2>2. CASE UNCHANGED libVars
    BY <1>1, <2>1, <2>2 DEF libVars
  <2>3. ASSUME NEW k \in Clients, NEW p \in Packet, Queues(k, p), p.type \in {"PUBLISH", "DISCONNECT"}
        PROVE  TopicInv'
    <3>1. \A t \in Topics : p # Req("SUBSCRIBE", t)
      BY <2>3 DEF Req
    <3>2. \A j \in Clients, t \in Topics : m_topicMsg'[j][t] = None => Forgotten(j, t)'
      BY <1>0, <2>1, <2>3, <3>1, QueueForgotten
    <3> QED BY <2>1, <3>2 DEF TopicInv
  <2>4. CASE toPublishTopicMsg /\ ~UNCHANGED libVars
    <3>1. k0 \in Clients /\ call.topic \in Topics /\ call.msg \in Msgs
      BY <1>0, <2>4, CallFields DEF toPublishTopicMsg, CallInv, Using
    <3>2. Pub(call.topic, call.msg) \in Packet /\ Queues(k0, Pub(call.topic, call.msg))
      BY <2>4, <3>1, PacketTypes DEF toPublishTopicMsg, SendOr, LibSend, Queues
    <3> QED BY <2>3, <3>1, <3>2 DEF Pub
  <2>5. CASE Disconnect /\ ~UNCHANGED libVars
    <3>1. Found \in Clients /\ LibDisconnect(Found)
      BY <1>0, <2>5 DEF Disconnect, CallInv, TypeOK, Found
    <3>2. Pkt("DISCONNECT") \in Packet /\ Queues(Found, Pkt("DISCONNECT"))
      BY <3>1, PacketTypes DEF LibDisconnect, Queues
    <3> QED BY <2>3, <3>1, <3>2 DEF Pkt
  <2> QED BY <1>8, <2>2, <2>4, <2>5
<1>9. CASE UnsubscribeSend
  <2>1. /\ k0 \in Clients /\ call.topic \in Topics /\ m_topicMsg' = m_topicMsg /\ call' = call
        /\ \/ pc' = "return" /\ UNCHANGED libVars
           \/ pc' = "erase" /\ LibSend(k0, Req("UNSUBSCRIBE", call.topic))
    BY <1>0, <1>9, CallFields DEF UnsubscribeSend, CallInv, Using, clientVars
  <2>2. CASE UNCHANGED libVars /\ pc' = "return"
    BY <1>1, <2>1, <2>2 DEF libVars
  <2>3. CASE pc' = "erase" /\ LibSend(k0, Req("UNSUBSCRIBE", call.topic))
    <3> DEFINE p == Req("UNSUBSCRIBE", call.topic)
    <3>1. Queues(k0, p) /\ p \in Packet /\ \A t \in Topics : p # Req("SUBSCRIBE", t)
      BY <2>1, <2>3, PacketTypes DEF LibSend, Queues, Req
    <3> HIDE DEF p
    <3>2. \A j \in Clients, t \in Topics : m_topicMsg'[j][t] = None => Forgotten(j, t)'
      BY <1>0, <2>1, <3>1, QueueForgotten
    <3> USE DEF p
    <3>3. Forgotten(k0, call.topic)'
      <4>1. CASE loop[k0] = "running" /\ ~Broken(k0)
        <5>1. out'[k0] = Append(out[k0], p) /\ out[k0] \in Seq(Packet)
          BY <1>0, <2>1, <2>3, <4>1 DEF LibSend, LibTypeOK
        <5>2. /\ Len(out'[k0]) = Len(out[k0]) + 1 /\ out'[k0][Len(out[k0]) + 1] = p
              /\ Len(out[k0]) \in Nat
          BY <5>1, <3>1
        <5>3. Len(out[k0]) + 1 \in 1..Len(out'[k0])
              /\ (Len(out[k0]) + 1) + 1..Len(out'[k0]) = {}
          BY <5>2
        <5> QED BY <2>1, <5>2, <5>3 DEF Forgotten, Forgetting
      <4>2. CASE loop[k0] # "running" \/ Broken(k0)
        <5>1. session'[k0] = {} /\ out'[k0] = out[k0]
          BY <1>0, <2>1, <2>3, <4>2 DEF LibSend, Connection
        <5>2. \A i \in 1..Len(out[k0]) : out[k0][i].type # "SUBSCRIBE"
          BY <1>0, <2>1, <4>2 DEF Connection
        <5> QED BY <2>1, <5>1, <5>2 DEF Forgotten, Wanted, Req
      <4> QED BY <4>1, <4>2
    <3> QED BY <2>3, <3>2, <3>3 DEF TopicInv
  <2> QED BY <2>1, <2>2, <2>3
<1>10. CASE UnsubscribeErase
  <2>1. /\ k0 \in Clients /\ call.topic \in Topics /\ UNCHANGED <<out, session>> /\ pc' = "return"
        /\ m_topicMsg' = [m_topicMsg EXCEPT ![k0][call.topic] = None]
        /\ Forgotten(k0, call.topic)
    BY <1>0, <1>10, CallFields DEF UnsubscribeErase, CallInv, Using, libVars, TopicInv
  <2>2. \A j \in Clients, t \in Topics : m_topicMsg'[j][t] = None => Forgotten(j, t)
    BY <1>0, <2>1 DEF TypeOK
  <2> QED BY <2>1, <2>2 DEF TopicInv, Forgotten, Wanted, Forgetting
<1>11. CASE Environment \/ \E j \in Clients : LoopStep(j)
  <2>1. UNCHANGED <<m_topicMsg, pc, call>>
    BY <1>11, LoopFrame, EnvironmentFrame
       DEF apiVars, clientVars, LoopStep, on_connect, on_subscribe, on_message, on_message_store,
           on_disconnect, on_disconnect_reconnect, LoopRetry
  <2>2. pc = "erase" => k0 \in Clients /\ call.topic \in Topics
    BY <1>0, CallFields DEF CallInv, Using
  <2>3. \A k \in Clients, t \in Topics : Forgotten(k, t) => Forgotten(k, t)'
    BY <1>11, LoopForgotten
  <2>4. pc = "erase" => Forgotten(k0, call.topic)'
    BY <2>1, <2>2, <2>3 DEF TopicInv
  <2> QED BY <2>1, <2>3, <2>4 DEF TopicInv
<1>12. CASE \/ initMqttData \/ UserCalls \/ Finish \/ ConnectKnown \/ ConnectUsable \/ SetConnecting
            \/ Insert \/ SubscribeFind \/ UnsubscribeFind \/ LoopStop \/ setReconnectCfg
  <2>1. UNCHANGED libVars
    BY <1>12, CallsFrame
  <2>2. UNCHANGED m_topicMsg /\ pc' \notin {"erase", "subscribe"}
    BY <1>12 DEF clientVars, initMqttData, UserCalls, subMqttTopic, pubMqttTopicMsg, unsubMqttTopic,
      disconnectMqttBroker, setClientRecCfg, Begin, Finish, ConnectKnown, ConnectUsable,
      AfterConnect, SetConnecting, Insert, SubscribeFind, UnsubscribeFind, LoopStop, setReconnectCfg
  <2> QED BY <1>1, <2>1, <2>2 DEF libVars
<1> QED
  BY <1>2, <1>3, <1>4, <1>5, <1>6, <1>7, <1>8, <1>9, <1>10, <1>11, <1>12
     DEF Next, ApiStep, toConnectBroker, toSubscribeTopic, toUnsubscribeTopic, toDisconnectBroker

\* No subscription survives at a broker that m_topicMsg has forgotten, unless the
\* UNSUBSCRIBE that ends it is on its way.
THEOREM NoStray == Spec => []NoStraySubscription
<1>1. Init => TopicInv
  BY DEF Init, LibInit, TopicInv, Forgotten, Wanted
<1>2. TopicInv => NoStraySubscription
  BY DEF TopicInv, NoStraySubscription, Forgotten, Wanted
<1> QED BY <1>1, <1>2, Invariance, ConnectionInvariance, TopicStep, PTL DEF Spec
=============================================================================
