--------------------------- MODULE TopicBoardProofs ---------------------------
(***************************************************************************)
(* MqttClients writes only strings that were promised a topic, and         *)
(* implements TopicBoard; for any number of brokers, clients, topics,      *)
(* messages and results, any capacity and any faults.                      *)
(***************************************************************************)
EXTENDS MqttClientsProofs

\* A closed socket carries nothing and has no session.
ClosedInv ==
  \A k \in Clients : link[k] = "closed" => out[k] = <<>> /\ inn[k] = <<>> /\ session[k] = {}

\* A client is the one registered for its address, or is being built.
BeingBuilt(k) == pc \in Building /\ k = k0
OwnedInv == \A k \in Clients : Built(k) => m_mqttClientIns[addr[k]] = k \/ BeingBuilt(k)

\* Before it is registered, a client has no topics and no message in hand.
BareTopics == [t \in Topics |-> None]
BareInv ==
  \A k \in Clients :
    ~Built(k) \/ BeingBuilt(k) => m_topicMsg[k] = BareTopics /\ handler[k].kind # "message"

\* What the call knows of its topic at each of its steps.
StepInv ==
  /\ pc = "idle" => call = NoCall
  /\ pc \in {"disconnect", "loopStop", "unregister"} => call.op = "disconnect"
  /\ pc = "reconnectCfg" => call.op = "recCfg"
  /\ pc = "bind" => m_topicMsg[k0][call.topic] = None
  /\ pc = "subscribe" => m_topicMsg[k0][call.topic] = call.result
  /\ pc = "return" /\ call.op = "sub" /\ ret = "SUCCESS" =>
       Found # None /\ m_topicMsg[Found][call.topic] # None

\* A topic that can still bring a client a message: one in its session, one it
\* has asked for, one with a message on its way.
Live(k, t) ==
  \/ t \in session[k]
  \/ \E i \in 1..Len(out[k]) : out[k][i] = Req("SUBSCRIBE", t)
  \/ \E i \in 1..Len(inn[k]) : inn[k][i].type = "PUBLISH" /\ inn[k][i].topic = t

\* Stronger than Asked: a call counts only once its string is bound, and no more
\* once it has failed.
Granted(b, t, r) ==
  \/ <<b, t, r>> \in promised
  \/ /\ pc = "subscribe" \/ (pc = "return" /\ ret = "SUCCESS")
     /\ call.op = "sub" /\ call.addr = b /\ call.topic = t /\ call.result = r
LiveInv ==
  \A k \in Clients, t \in Topics :
    Live(k, t) /\ m_topicMsg[k][t] # None => Granted(addr[k], t, m_topicMsg[k][t])
HandInv ==
  \A k \in Clients : handler[k].kind = "message" =>
    link[k] # "closed" /\ Granted(addr[k], handler[k].topic, handler[k].result)

BoardInv == ClosedInv /\ OwnedInv /\ BareInv /\ StepInv /\ LiveInv /\ HandInv

-----------------------------------------------------------------------------
(* Traffic only makes topics less alive.                                    *)

EmptyConnection(k) == out[k] = <<>> /\ inn[k] = <<>> /\ session[k] = {}
Fewer(k) ==
  /\ \A t \in Topics : Live(k, t)' => Live(k, t)
  /\ link'[k] = "closed" => EmptyConnection(k)'

LEMMA FewerElements ==
  ASSUME NEW k \in Clients,
         \A i \in 1..Len(out'[k]) :
           \/ out'[k][i].type = "CONNECT"
           \/ \E j \in 1..Len(out[k]) : out'[k][i] = out[k][j],
         \A i \in 1..Len(inn'[k]) :
           \/ inn'[k][i].type # "PUBLISH"
           \/ \E j \in 1..Len(inn[k]) : inn'[k][i] = inn[k][j]
           \/ Live(k, inn'[k][i].topic),
         \A t \in session'[k] : Live(k, t),
         link'[k] = "closed" => EmptyConnection(k)'
  PROVE  Fewer(k)
<1> SUFFICES ASSUME NEW t \in Topics, Live(k, t)' PROVE Live(k, t)
  BY DEF Fewer
<1>1. CASE t \in session'[k]
  BY <1>1
<1>2. ASSUME NEW i \in 1..Len(out'[k]), out'[k][i] = Req("SUBSCRIBE", t) PROVE Live(k, t)
  <2>1. out'[k][i].type # "CONNECT"
    BY <1>2 DEF Req
  <2> QED BY <1>2, <2>1 DEF Live
<1>3. ASSUME NEW i \in 1..Len(inn'[k]), inn'[k][i].type = "PUBLISH", inn'[k][i].topic = t
      PROVE  Live(k, t)
  <2>1. CASE Live(k, inn'[k][i].topic)
    BY <1>3, <2>1
  <2>2. ASSUME NEW j \in 1..Len(inn[k]), inn'[k][i] = inn[k][j] PROVE Live(k, t)
    BY <1>3, <2>2 DEF Live
  <2> QED BY <1>3, <2>1, <2>2
<1> QED BY <1>1, <1>2, <1>3 DEF Live

LEMMA TailElements ==
  ASSUME NEW q \in Seq(Packet), q # <<>>
  PROVE  \A i \in 1..Len(Tail(q)) : \E j \in 1..Len(q) : Tail(q)[i] = q[j]
<1> TAKE i \in 1..Len(Tail(q))
<1>1. i + 1 \in 1..Len(q) /\ Tail(q)[i] = q[i + 1]
  OBVIOUS
<1> QED BY <1>1

LEMMA LoopFewer ==
  ASSUME Inv, ConnectionInv, ClosedInv, NEW k \in Clients, NEW j \in Clients, LoopStep(j)
  PROVE  Fewer(k)
<1>0. /\ TypeOK /\ LibTypeOK /\ CallbackInv /\ Connection(k) /\ out[k] \in Seq(Packet) /\ inn[k] \in Seq(Packet)
      /\ link[k] = "closed" => EmptyConnection(k)
  BY DEF Inv, TypeOK, LibTypeOK, ConnectionInv, ClosedInv, EmptyConnection
<1>1. CASE out'[k] = out[k] /\ inn'[k] = inn[k] /\ session'[k] = session[k] /\ link'[k] = link[k]
  BY <1>0, <1>1 DEF Fewer, Live, EmptyConnection
<1>2. CASE on_message_store(j)
  BY <1>1, <1>2 DEF on_message_store, libVars
<1>3. CASE on_connect(j) \/ on_subscribe(j) \/ on_message(j)
  <2>1. PICK l \in {"acked", link[j]} : LibReceive(j, l) /\ inn[j] # <<>>
    BY <1>3 DEF on_connect, on_subscribe, on_message, Reads, HeadIs
  <2>2. CASE j = k
    <3>1. /\ inn'[k] = Tail(inn[k]) /\ out'[k] = out[k] /\ session'[k] = session[k] /\ link'[k] = l
          /\ inn[k] # <<>>
      BY <1>0, <2>1, <2>2 DEF LibReceive, LibTypeOK
    <3>2. link'[k] # "closed"
      BY <1>0, <2>1, <2>2, <3>1 DEF EmptyConnection
    <3>3. \A i \in 1..Len(inn'[k]) : \E n \in 1..Len(inn[k]) : inn'[k][i] = inn[k][n]
      BY <1>0, <3>1, TailElements
    <3>4. \A t \in session'[k] : Live(k, t)
      BY <3>1 DEF Live
    <3> QED BY <3>1, <3>2, <3>3, <3>4, FewerElements
  <2>3. CASE j # k
    BY <1>0, <1>1, <2>1, <2>3 DEF LibReceive, LibTypeOK
  <2> QED BY <2>2, <2>3
<1>4. CASE on_disconnect(j)
  <2>1. LibClose(j, "ended") \/ LibClose(j, "backoff")
    BY <1>4 DEF on_disconnect
  <2>2. CASE j = k
    <3>1. out'[k] = <<>> /\ inn'[k] = <<>> /\ session'[k] = {}
      BY <1>0, <2>1, <2>2 DEF LibClose, LibTypeOK, Connection
    <3> QED BY <3>1 DEF Fewer, Live, EmptyConnection
  <2>3. CASE j # k
    BY <1>0, <1>1, <2>1, <2>3 DEF LibClose, LibTypeOK
  <2> QED BY <2>2, <2>3
<1>5. CASE on_disconnect_reconnect(j)
  <2>1. loop[j] = "backoff"
    BY <1>0, <1>5 DEF on_disconnect_reconnect, CallbackInv
  <2>2. UNCHANGED <<out, inn, session>> /\ \E l \in {"open", "closed"} : link' = [link EXCEPT ![j] = l]
    BY <1>5, Zenon DEF on_disconnect_reconnect, LibReopen
  <2>3. CASE j = k
    <3>1. EmptyConnection(k)
      BY <1>0, <2>1, <2>3 DEF Connection, EmptyConnection
    <3> QED BY <2>2, <3>1 DEF Fewer, Live, EmptyConnection
  <2>4. CASE j # k
    BY <1>0, <1>1, <2>2, <2>4 DEF LibTypeOK
  <2> QED BY <2>3, <2>4
<1>6. CASE LoopRetry(j)
  <2>1. /\ loop[j] = "backoff" /\ UNCHANGED <<inn, session>>
        /\ \/ UNCHANGED <<link, out>>
           \/ /\ link' = [link EXCEPT ![j] = "open"]
              /\ out' = [out EXCEPT ![j] = <<Pkt("CONNECT")>>]
           \/ link' = [link EXCEPT ![j] = "closed"] /\ UNCHANGED out
    BY <1>6 DEF LoopRetry, LibRetry
  <2>2. CASE j = k
    <3>1. EmptyConnection(k)
      BY <1>0, <2>1, <2>2 DEF Connection, EmptyConnection
    <3>2. /\ inn'[k] = <<>> /\ session'[k] = {}
          /\ \/ out'[k] = <<>>
             \/ out'[k] = <<Pkt("CONNECT")>> /\ link'[k] = "open"
      BY <1>0, <2>1, <2>2, <3>1 DEF LibTypeOK, EmptyConnection
    <3> QED BY <3>2, FewerElements DEF Pkt, EmptyConnection
  <2>3. CASE j # k
    BY <1>0, <1>1, <2>1, <2>3 DEF LibTypeOK
  <2> QED BY <2>2, <2>3
<1> QED BY <1>2, <1>3, <1>4, <1>5, <1>6 DEF LoopStep
LEMMA NetworkFewer ==
  ASSUME Inv, ConnectionInv, ClosedInv, NEW k \in Clients, Environment
  PROVE  Fewer(k)
<1>0. /\ TypeOK /\ LibTypeOK /\ Connection(k) /\ out[k] \in Seq(Packet) /\ inn[k] \in Seq(Packet)
      /\ link[k] = "closed" => EmptyConnection(k)
      /\ link' = link
  BY EnvironmentFrame DEF Inv, TypeOK, LibTypeOK, ConnectionInv, ClosedInv, EmptyConnection
<1>1. CASE out'[k] = out[k] /\ inn'[k] = inn[k] /\ session'[k] = session[k]
  BY <1>0, <1>1 DEF Fewer, Live, EmptyConnection
<1>2. ASSUME out'[k] = out[k] \/ (out'[k] = Tail(out[k]) /\ out[k] # <<>>) \/ out'[k] = <<>>
      PROVE  \A i \in 1..Len(out'[k]) : \E n \in 1..Len(out[k]) : out'[k][i] = out[k][n]
  <2>1. CASE out'[k] = out[k]
    BY <2>1
  <2>2. CASE out'[k] = Tail(out[k]) /\ out[k] # <<>>
    BY <1>0, <2>2, TailElements
  <2>3. CASE out'[k] = <<>>
    BY <2>3
  <2> QED BY <1>2, <2>1, <2>2, <2>3
<1>3. ASSUME NEW p \in Packet, inn'[k] = Append(inn[k], p)
      PROVE  \A i \in 1..Len(inn'[k]) :
               inn'[k][i] = p \/ \E n \in 1..Len(inn[k]) : inn'[k][i] = inn[k][n]
  BY <1>0, <1>3
<1>4. ASSUME NEW b, NEW t \in Topics, NEW m \in Msgs, Route(b, t, m), session' = session,
             out'[k] = out[k] \/ (out'[k] = Tail(out[k]) /\ out[k] # <<>>)
      PROVE  Fewer(k)
  <2>1. CASE inn'[k] = inn[k]
    <3>1. \A s \in session'[k] : Live(k, s)
      BY <1>4 DEF Live
    <3>2. link'[k] = "closed" => EmptyConnection(k)'
      BY <1>0, <1>4, <2>1 DEF EmptyConnection
    <3>3. \A i \in 1..Len(inn'[k]) : \E n \in 1..Len(inn[k]) : inn'[k][i] = inn[k][n]
      BY <2>1
    <3>4. \A i \in 1..Len(out'[k]) : \E n \in 1..Len(out[k]) : out'[k][i] = out[k][n]
      BY <1>2, <1>4
    <3> QED BY <3>1, <3>2, <3>3, <3>4, FewerElements
  <2>2. CASE inn'[k] # inn[k]
    <3>1. t \in session[k] /\ link[k] # "closed" /\ inn'[k] = Append(inn[k], Pub(t, m))
      BY <1>0, <1>4, <2>2 DEF Route, Subscribers, LibTypeOK
    <3>2. Live(k, t) /\ Pub(t, m) \in Packet /\ Pub(t, m).topic = t
      BY <3>1, PacketTypes DEF Live, Pub
    <3>3. \A i \in 1..Len(inn'[k]) :
            inn'[k][i] = Pub(t, m) \/ \E n \in 1..Len(inn[k]) : inn'[k][i] = inn[k][n]
      BY <1>3, <3>1, <3>2
    <3>4. \A s \in session'[k] : Live(k, s)
      BY <1>4 DEF Live
    <3> QED BY <1>0, <1>2, <1>4, <3>1, <3>2, <3>3, <3>4, FewerElements
  <2> QED BY <2>1, <2>2
<1>5. ASSUME NEW j \in Clients, BrokerAccept(j) PROVE Fewer(k)
  <2>1. CASE j = k
    <3>1. /\ out[k] # <<>> /\ out'[k] = Tail(out[k]) /\ session'[k] = {}
          /\ inn'[k] = Append(inn[k], Pkt("CONNACK"))
      BY <1>0, <1>5, <2>1 DEF BrokerAccept, BrokerReads, HeadIs, LibTypeOK, Connection
    <3>2. Pkt("CONNACK") \in Packet /\ Pkt("CONNACK").type # "PUBLISH" /\ link[k] # "closed"
      BY <1>0, <3>1, PacketTypes DEF Pkt, EmptyConnection
    <3>3. \A i \in 1..Len(inn'[k]) :
            inn'[k][i] = Pkt("CONNACK") \/ \E n \in 1..Len(inn[k]) : inn'[k][i] = inn[k][n]
      BY <1>3, <3>1, <3>2
    <3> QED BY <1>0, <1>2, <3>1, <3>2, <3>3, FewerElements
  <2>2. CASE j # k
    BY <1>0, <1>1, <1>5, <2>2 DEF BrokerAccept, BrokerReads, LibTypeOK
  <2> QED BY <2>1, <2>2
<1>6. ASSUME NEW j \in Clients, BrokerRefuse(j) PROVE Fewer(k)
  <2>1. CASE j = k
    <3>1. out[k] # <<>> /\ out[k][1].type = "CONNECT" /\ 1 \in 1..Len(out[k])
      BY <1>0, <1>6, <2>1 DEF BrokerRefuse, HeadIs, LibTypeOK
    <3>2. inn[k] = <<>> /\ session[k] = {} /\ link[k] # "closed"
      BY <1>0, <3>1 DEF Connection
    <3>3. inn'[k] = <<Pkt("REFUSED"), Pkt("EOF")>> /\ session'[k] = {} /\ out'[k] = <<>>
      BY <1>0, <1>6, <2>1, <3>2 DEF BrokerRefuse, LibTypeOK
    <3> QED BY <1>0, <3>2, <3>3 DEF Fewer, Live, Pkt
  <2>2. CASE j # k
    BY <1>0, <1>1, <1>6, <2>2 DEF BrokerRefuse, LibTypeOK
  <2> QED BY <2>1, <2>2
<1>7. ASSUME NEW j \in Clients, BrokerSubscribe(j) PROVE Fewer(k)
  <2> DEFINE t == Head(out[j]).topic
             m == retained[addr[j]][t]
             s == <<Pkt("SUBACK")>>
             q == IF m = None THEN <<>> ELSE <<Pub(t, m)>>
  <2>1. PICK x : /\ inn' = [inn EXCEPT ![j] = x]
                 /\ x = (inn[j] \o s) \o q \/ x = Append(inn[j], Pkt("SUBACK"))
    BY <1>7, SubscribeAnswers, Zenon
  <2>2. /\ session' = session \/ session' = [session EXCEPT ![j] = @ \cup {t}]
        /\ BrokerReads(j, "SUBSCRIBE")
    BY <1>7, Zenon DEF BrokerSubscribe
  <2>3. CASE j = k
    <3>1. /\ out[k] # <<>> /\ out[k][1].type = "SUBSCRIBE" /\ 1 \in 1..Len(out[k])
          /\ out'[k] = Tail(out[k]) /\ out[k][1] \in Packet /\ t = out[k][1].topic
      BY <1>0, <2>2, <2>3 DEF BrokerReads, HeadIs, LibTypeOK
    <3>2. out[k][1] = Req("SUBSCRIBE", t) /\ t \in Topics
      BY <3>1 DEF Packet, Req
    <3>3. Live(k, t) /\ link[k] # "closed"
      BY <1>0, <3>1, <3>2 DEF Live, EmptyConnection
    <3>4. \A u \in session'[k] : Live(k, u)
      BY <1>0, <2>2, <2>3, <3>3 DEF Live, LibTypeOK
    <3>5. q \in Seq(Packet) /\ \A i \in 1..Len(q) : q[i].topic = t
      <4>1. m = None \/ m \in Msgs
        BY <1>0, <2>3, <3>1, <3>2 DEF Inv, FreshInv, Fresh, Built, LibTypeOK
      <4> HIDE DEF t, m
      <4>2. m # None => Pub(t, m) \in Packet
        BY <3>2, <4>1, PacketTypes
      <4> QED BY <4>2 DEF Pub
    <3>6. Pkt("SUBACK") \in Packet /\ Pkt("SUBACK").type # "PUBLISH"
      BY PacketTypes DEF Pkt
    <3>7. \A i \in 1..Len(inn'[k]) :
            \/ inn'[k][i].type # "PUBLISH"
            \/ \E n \in 1..Len(inn[k]) : inn'[k][i] = inn[k][n]
            \/ Live(k, inn'[k][i].topic)
      <4> HIDE DEF q, t
      <4>1. inn'[k] = (inn[k] \o s) \o q \/ inn'[k] = Append(inn[k], Pkt("SUBACK"))
        <5> HIDE DEF s
        <5> QED BY <1>0, <2>1, <2>3 DEF LibTypeOK
      <4>2. CASE inn'[k] = Append(inn[k], Pkt("SUBACK"))
        BY <1>3, <3>6, <4>2
      <4>3. CASE inn'[k] = (inn[k] \o s) \o q
        <5>1. s \in Seq(Packet) /\ \A i \in 1..Len(s) : s[i].type # "PUBLISH"
          BY <3>6
        <5> HIDE DEF s
        <5>2. inn[k] \o s \in Seq(Packet)
          BY <1>0, <5>1
        <5>3. Parts(inn[k] \o s, inn[k], s) /\ Parts((inn[k] \o s) \o q, inn[k] \o s, q)
          BY ONLY <1>0, <3>5, <5>1, <5>2, ConcatElements
        <5> DEFINE u == inn[k] \o s
                   v == u \o q
        <5>4. \A i \in 1..Len(u) : u[i].type # "PUBLISH" \/ \E n \in 1..Len(inn[k]) : u[i] = inn[k][n]
          BY <5>1, <5>3 DEF Parts
        <5>5. Parts(v, u, q) /\ inn'[k] = v
          BY <4>3, <5>3
        <5> HIDE DEF u, v
        <5> QED BY <3>3, <3>5, <5>4, <5>5 DEF Parts
      <4> QED BY <4>1, <4>2, <4>3
    <3> QED BY <1>0, <1>2, <3>1, <3>3, <3>4, <3>7, FewerElements
  <2>4. CASE j # k
    <3>1. out'[k] = out[k] /\ session'[k] = session[k]
      BY <1>0, <2>2, <2>4 DEF BrokerReads, LibTypeOK
    <3>2. inn'[k] = inn[k]
      BY <1>0, <2>1, <2>4 DEF LibTypeOK
    <3> QED BY <1>1, <3>1, <3>2
  <2> QED BY <2>3, <2>4
<1>8. ASSUME NEW j \in Clients, BrokerUnsubscribe(j) PROVE Fewer(k)
  <2>1. CASE j = k
    <3>1. /\ out[k] # <<>> /\ out'[k] = Tail(out[k]) /\ session'[k] \subseteq session[k] /\ inn' = inn
      BY <1>0, <1>8, <2>1 DEF BrokerUnsubscribe, BrokerReads, HeadIs, LibTypeOK
    <3>2. \A s \in session'[k] : Live(k, s)
      BY <3>1 DEF Live
    <3>3. link[k] # "closed"
      BY <1>0, <3>1 DEF EmptyConnection
    <3> QED BY <1>0, <1>2, <3>1, <3>2, <3>3, FewerElements
  <2>2. CASE j # k
    BY <1>0, <1>1, <1>8, <2>2 DEF BrokerUnsubscribe, BrokerReads, LibTypeOK
  <2> QED BY <2>1, <2>2
<1>9. ASSUME NEW j \in Clients, BrokerPublish(j) PROVE Fewer(k)
  <2> DEFINE p == Head(out[j])
  <2>1. HeadIs(out[j], "PUBLISH") /\ out[j] \in Seq(Packet) /\ out' = [out EXCEPT ![j] = Tail(@)]
    BY <1>0, <1>9 DEF BrokerPublish, BrokerReads, LibTypeOK
  <2>2. p.topic \in Topics /\ p.msg \in Msgs
    BY <2>1, HeadPacket, PacketFields
  <2>3. Route(addr[j], p.topic, p.msg) /\ session' = session
    BY <1>9 DEF BrokerPublish, BrokerReads
  <2>4. (out'[k] = Tail(out[k]) /\ out[k] # <<>>) \/ out'[k] = out[k]
    BY <1>0, <2>1 DEF HeadIs, LibTypeOK
  <2> QED BY <1>4, <2>2, <2>3, <2>4
<1>10. ASSUME NEW j \in Clients, LoseConnection(j) PROVE Fewer(k)
  <2>1. CASE j = k
    <3>1. out'[k] = <<>> /\ session'[k] = {} /\ link[k] # "closed"
      BY <1>0, <1>10, <2>1 DEF LoseConnection, LibTypeOK, Connection
    <3>2. PICK n \in 0..Len(inn[k]) : inn'[k] = Append(SubSeq(inn[k], 1, n), Pkt("EOF"))
      BY <1>0, <1>10, <2>1 DEF LoseConnection, LibTypeOK
    <3>3. \A i \in 1..Len(inn'[k]) :
            (i \in 1..Len(inn[k]) /\ inn'[k][i] = inn[k][i]) \/ inn'[k][i] = Pkt("EOF")
      BY <1>0, <3>2, PacketTypes
    <3>4. \A i \in 1..Len(inn'[k]) :
            inn'[k][i].type # "PUBLISH" \/ \E l \in 1..Len(inn[k]) : inn'[k][i] = inn[k][l]
      BY <3>3 DEF Pkt
    <3> QED BY <1>0, <3>1, <3>4, FewerElements
  <2>2. CASE j # k
    <3>1. \E x, y : inn' = [inn EXCEPT ![j] = x] /\ session' = [session EXCEPT ![j] = y]
      BY <1>10, Zenon DEF LoseConnection
    <3>2. out' = [out EXCEPT ![j] = <<>>]
      BY <1>10 DEF LoseConnection
    <3> QED BY <1>0, <1>1, <2>2, <3>1, <3>2 DEF LibTypeOK
  <2> QED BY <2>1, <2>2
<1>11. ASSUME NEW b \in Brokers, NEW t \in Topics, NEW m \in Msgs, OthersPublish(b, t, m)
       PROVE  Fewer(k)
  BY <1>4, <1>11 DEF OthersPublish
<1> QED
  BY <1>5, <1>6, <1>7, <1>8, <1>9, <1>10, <1>11 DEF Environment, Network, BrokerStep
-----------------------------------------------------------------------------
(* Steps that leave the clients, their topics and their callbacks alone.    *)

Plain ==
  \/ UNCHANGED vars \/ initMqttData \/ UserCalls \/ Finish
  \/ ConnectKnown \/ ConnectUsable \/ SetConnecting \/ LoopStart
  \/ SubscribeFind \/ SubscribeSend \/ toPublishTopicMsg
  \/ UnsubscribeFind \/ UnsubscribeSend
  \/ Disconnect \/ LoopStop \/ setReconnectCfg

LEMMA NextCases ==
  ASSUME [Next]_vars
  PROVE  \/ Plain \/ ConnectNew \/ DropClient \/ Insert \/ SubscribeBind \/ UnsubscribeErase
         \/ Unregister \/ Environment \/ \E k \in Clients : LoopStep(k)
BY DEF Next, ApiStep, toConnectBroker, toSubscribeTopic, toUnsubscribeTopic, toDisconnectBroker, Plain

LEMMA PlainFrame ==
  ASSUME Plain
  PROVE  /\ UNCHANGED <<addr, m_mqttClientIns, m_topicMsg, handler, mail>>
         /\ pc \in Building => pc' \in Building /\ call' = call
         /\ pc' \in Building => pc \in Building
<1> USE DEF Building, Goto, Return, SameCall, vars, libVars, apiVars, clientVars
<1>1. CASE UNCHANGED vars \/ initMqttData
  BY <1>1 DEF initMqttData
<1>2. CASE UserCalls
  BY <1>2 DEF UserCalls, subMqttTopic, pubMqttTopicMsg, unsubMqttTopic, disconnectMqttBroker,
              setClientRecCfg, Begin
<1>3. CASE Finish \/ ConnectKnown \/ ConnectUsable \/ SetConnecting \/ LoopStart
  BY <1>3 DEF Finish, ConnectKnown, ConnectUsable, AfterConnect, SetConnecting, LoopStart, LibLoopStart
<1>4. CASE SubscribeFind \/ SubscribeSend \/ toPublishTopicMsg \/ UnsubscribeFind
  BY <1>4 DEF SubscribeFind, SubscribeSend, SendOr, LibSend, toPublishTopicMsg, UnsubscribeFind
<1>5. CASE UnsubscribeSend \/ Disconnect \/ LoopStop \/ setReconnectCfg
  BY <1>5 DEF UnsubscribeSend, LibSend, Disconnect, LibDisconnect, LoopStop, setReconnectCfg
<1> QED BY <1>1, <1>2, <1>3, <1>4, <1>5 DEF Plain

-----------------------------------------------------------------------------
(* The invariant, one conjunct at a time.                                   *)

LEMMA ClosedStep == Inv /\ ConnectionInv /\ ClosedInv /\ [Next]_vars => ClosedInv'
<1> SUFFICES ASSUME Inv, ConnectionInv, ClosedInv, [Next]_vars, NEW k \in Clients, link'[k] = "closed"
             PROVE  EmptyConnection(k)'
  BY DEF ClosedInv, EmptyConnection
<1>0. /\ TypeOK /\ LibTypeOK /\ CallInv /\ \A j \in Clients : ~Built(j) => Fresh(j) /\ session[j] = {}
      /\ link[k] = "closed" => EmptyConnection(k)
  BY DEF Inv, TypeOK, FreshInv, Fresh, ClosedInv, EmptyConnection
<1>1. CASE out'[k] = out[k] /\ inn'[k] = inn[k] /\ session'[k] = session[k] /\ link'[k] = link[k]
  BY <1>0, <1>1 DEF EmptyConnection
<1>2. ASSUME NEW j \in Clients, link[j] # "closed", UNCHANGED <<inn, session, link>>,
             \E x : out' = [out EXCEPT ![j] = x]
      PROVE  EmptyConnection(k)'
  BY <1>0, <1>1, <1>2 DEF LibTypeOK
<1>3. CASE UNCHANGED libVars
  BY <1>1, <1>3 DEF libVars
<1>4. CASE LoopStart
  BY <1>1, <1>4 DEF LoopStart, LibLoopStart
<1>5. CASE SubscribeSend \/ toPublishTopicMsg \/ UnsubscribeSend
  <2>1. k0 \in Clients
    BY <1>0, <1>5 DEF SubscribeSend, toPublishTopicMsg, UnsubscribeSend, CallInv, Using
  <2>2. UNCHANGED libVars \/ (link[k0] # "closed" /\ \E p : LibSend(k0, p))
    BY <1>5 DEF SubscribeSend, toPublishTopicMsg, UnsubscribeSend, SendOr
  <2>3. UNCHANGED <<inn, session, link>> /\ (out' = out \/ (link[k0] # "closed" /\ \E x : out' = [out EXCEPT ![k0] = x]))
    BY <2>2, Zenon DEF libVars, LibSend
  <2> QED BY <1>1, <1>2, <2>1, <2>3
<1>6. CASE Disconnect
  <2>1. CASE Found = None
    BY <1>3, <1>6, <2>1 DEF Disconnect
  <2>2. CASE Found # None
    <3>1. Found \in Clients /\ LibDisconnect(Found)
      BY <1>0, <1>6, <2>2, CallFields DEF Disconnect, CallInv, TypeOK, Found
    <3>2. UNCHANGED <<inn, session, link>> /\ (out' = out \/ (link[Found] # "closed" /\ \E x : out' = [out EXCEPT ![Found] = x]))
      BY <3>1, Zenon DEF LibDisconnect
    <3> QED BY <1>1, <1>2, <3>1, <3>2
  <2> QED BY <2>1, <2>2
<1>7. CASE ConnectNew
  <2>1. PICK j \in Clients, ok \in BOOLEAN :
          ~Built(j) /\ LibConnect(j, call.addr, g_clientId, cleanSession(g_clientId), ok)
    BY <1>7 DEF ConnectNew
  <2>2. CASE j = k
    BY <1>0, <2>1, <2>2 DEF LibConnect, LibTypeOK, Fresh, EmptyConnection, ClosedInv
  <2>3. CASE j # k
    BY <1>0, <1>1, <2>1, <2>3 DEF LibConnect, LibTypeOK
  <2> QED BY <2>2, <2>3
<1>8. CASE DropClient \/ Unregister
  <2>1. LibDestroy(k0) /\ k0 \in Clients
    BY <1>0, <1>8 DEF DropClient, Unregister, Destroy, CallInv, Building, Using
  <2>2. CASE k0 = k
    BY <1>0, <2>1, <2>2 DEF LibDestroy, LibTypeOK, EmptyConnection
  <2>3. CASE k0 # k
    BY <1>0, <1>1, <2>1, <2>3 DEF LibDestroy, LibTypeOK
  <2> QED BY <2>2, <2>3
<1>9. CASE Environment \/ \E j \in Clients : LoopStep(j)
  BY <1>9, LoopFewer, NetworkFewer DEF Fewer
<1>10. CASE UNCHANGED vars
  BY <1>3, <1>10 DEF vars
<1> QED
  BY <1>3, <1>4, <1>5, <1>6, <1>7, <1>8, <1>9, <1>10, CallsFrame
     DEF Next, ApiStep, toConnectBroker, toSubscribeTopic, toUnsubscribeTopic, toDisconnectBroker
LEMMA OwnedStep == Inv /\ OwnedInv /\ [Next]_vars => OwnedInv'
<1> SUFFICES ASSUME Inv, OwnedInv, [Next]_vars, NEW k \in Clients, Built(k)'
             PROVE  m_mqttClientIns'[addr'[k]] = k \/ BeingBuilt(k)'
  BY DEF OwnedInv
<1> USE DEF Built, BeingBuilt, k0, Goto, Return, SameCall
<1>0. /\ TypeOK /\ LibTypeOK /\ CallInv /\ RegistryInv
      /\ addr[k] # None => m_mqttClientIns[addr[k]] = k \/ BeingBuilt(k)
      /\ call # NoCall => call.addr \in Brokers
  BY CallFields DEF Inv, TypeOK, OwnedInv
<1>1. CASE Plain
  BY <1>0, <1>1, PlainFrame
<1>2. CASE ConnectNew
  <2>1. PICK j \in Clients, ok \in BOOLEAN :
          /\ LibConnect(j, call.addr, g_clientId, cleanSession(g_clientId), ok)
          /\ call' = [call EXCEPT !.client = j]
    BY <1>2 DEF ConnectNew
  <2>2. call'.client = j /\ pc' \in Building /\ pc \notin Building /\ m_mqttClientIns' = m_mqttClientIns
    BY <1>0, <1>2, <2>1, CallClient DEF ConnectNew, CallInv, Building
  <2>3. CASE j # k
    BY <1>0, <2>1, <2>2, <2>3 DEF LibConnect, LibTypeOK
  <2> QED BY <2>2, <2>3
<1>3. CASE DropClient
  BY <1>0, <1>3 DEF DropClient, Destroy, LibDestroy, LibTypeOK, CallInv, Building
<1>4. CASE Insert
  <2>1. /\ m_mqttClientIns' = [m_mqttClientIns EXCEPT ![call.addr] = k0] /\ addr' = addr
        /\ k0 \in Clients /\ addr[k0] = call.addr /\ Found = None /\ call.addr \in Brokers
    BY <1>0, <1>4 DEF Insert, CallInv, Building, libVars
  <2>2. CASE k = k0
    BY <1>0, <2>1, <2>2 DEF TypeOK
  <2>3. CASE k # k0
    BY <1>0, <2>1, <2>3, NoneAssumption DEF TypeOK, Found
  <2> QED BY <2>2, <2>3
<1>5. CASE SubscribeBind \/ UnsubscribeErase
  BY <1>0, <1>5 DEF SubscribeBind, UnsubscribeErase, libVars, Building
<1>6. CASE Unregister
  <2>1. /\ m_mqttClientIns' = [m_mqttClientIns EXCEPT ![call.addr] = None]
        /\ addr' = [addr EXCEPT ![k0] = None] /\ k0 \in Clients /\ Found = k0 /\ call.addr \in Brokers
        /\ pc \notin Building
    BY <1>0, <1>6 DEF Unregister, Destroy, LibDestroy, CallInv, Using, Building
  <2>2. k # k0 /\ addr'[k] = addr[k] /\ addr[k] \in Brokers
    BY <1>0, <2>1 DEF LibTypeOK
  <2>3. m_mqttClientIns[addr[k]] = k /\ addr[k] # call.addr
    BY <1>0, <2>1, <2>2 DEF Found
  <2> QED BY <1>0, <2>1, <2>2, <2>3 DEF TypeOK
<1>7. CASE Environment \/ \E j \in Clients : LoopStep(j)
  BY <1>0, <1>7, LoopFrame, EnvironmentFrame DEF apiVars
<1> QED BY <1>1, <1>2, <1>3, <1>4, <1>5, <1>6, <1>7, NextCases

LEMMA BareStep == Inv /\ OwnedInv /\ BareInv /\ [Next]_vars => BareInv'
<1> SUFFICES ASSUME Inv, OwnedInv, BareInv, [Next]_vars, NEW k \in Clients,
                    ~Built(k)' \/ BeingBuilt(k)'
             PROVE  m_topicMsg'[k] = BareTopics /\ handler'[k].kind # "message"
  BY DEF BareInv, BareTopics
<1> USE DEF Built, BeingBuilt, k0, Goto, Return, SameCall
<1> DEFINE Bare(j) == m_topicMsg[j] = BareTopics /\ handler[j].kind # "message"
<1>0. /\ TypeOK /\ LibTypeOK /\ CallInv /\ RegistryInv /\ FreshInv
      /\ \A j \in Clients : ~Built(j) \/ BeingBuilt(j) => Bare(j)
      /\ call # NoCall => call.addr \in Brokers
  BY CallFields DEF Inv, TypeOK, BareInv
<1> HIDE DEF Bare
<1>1. CASE Plain
  BY <1>0, <1>1, PlainFrame DEF Bare
<1>2. CASE ConnectNew
  <2>1. PICK j \in Clients, ok \in BOOLEAN :
          /\ ~Built(j)
          /\ LibConnect(j, call.addr, g_clientId, cleanSession(g_clientId), ok)
          /\ call' = [call EXCEPT !.client = j]
    BY <1>2 DEF ConnectNew
  <2>2. call'.client = j /\ UNCHANGED <<m_topicMsg, handler>>
    BY <1>0, <1>2, <2>1, CallClient DEF ConnectNew, CallInv, Building, clientVars
  <2>3. ~Built(k)
    BY <1>0, <2>1, <2>2 DEF LibConnect, LibTypeOK
  <2> QED BY <1>0, <2>2, <2>3 DEF Bare
<1>3. CASE DropClient \/ Unregister
  <2>1. /\ m_topicMsg' = [m_topicMsg EXCEPT ![k0] = BareTopics]
        /\ handler' = [handler EXCEPT ![k0] = Idle]
        /\ addr' = [addr EXCEPT ![k0] = None]
        /\ pc' \notin Building /\ k0 \in Clients
    BY <1>0, <1>3 DEF DropClient, Unregister, Destroy, LibDestroy, Building, Using, CallInv, BareTopics
  <2>2. CASE k = k0
    BY <1>0, <2>1, <2>2 DEF TypeOK, Idle
  <2>3. CASE k # k0
    <3>1. Bare(k)
      BY <1>0, <2>1, <2>3 DEF LibTypeOK
    <3> QED BY <1>0, <2>1, <2>3, <3>1 DEF TypeOK, Bare
  <2> QED BY <2>2, <2>3
<1>4. CASE Insert
  BY <1>0, <1>4 DEF Insert, Building, AfterConnect, libVars, clientVars, Bare
<1>5. CASE SubscribeBind \/ UnsubscribeErase
  <2>1. /\ \E x : m_topicMsg' = [m_topicMsg EXCEPT ![k0] = x]
        /\ handler' = handler /\ addr' = addr /\ pc' \notin Building
        /\ k0 \in Clients /\ Found = k0
    BY <1>0, <1>5 DEF SubscribeBind, UnsubscribeErase, Building, Using, CallInv, libVars
  <2>2. Built(k0)
    BY <1>0, <1>5, <2>1, NoneAssumption DEF RegistryInv, Found, SubscribeBind, UnsubscribeErase, CallInv
  <2> QED BY <1>0, <2>1, <2>2 DEF TypeOK, Bare
<1>6. ASSUME NEW j \in Clients, LoopStep(j) PROVE m_topicMsg'[k] = BareTopics /\ handler'[k].kind # "message"
  <2>1. Bare(k) /\ m_topicMsg' = m_topicMsg
    BY <1>0, <1>6, LoopFrame DEF apiVars, LoopStep, on_connect, on_subscribe, on_message, on_message_store,
      on_disconnect, on_disconnect_reconnect, LoopRetry, clientVars
  <2>2. CASE on_message(j)
    <3>1. Head(inn[j]).topic \in Topics
      BY <1>0, <2>2, HeadPacket, PacketFields DEF on_message, Reads, LibTypeOK
    <3>2. PICK r \in Lookup(j, Head(inn[j]).topic) :
            handler' = [handler EXCEPT ![j] = IF r = None THEN Idle
              ELSE [kind |-> "message", topic |-> Head(inn[j]).topic, msg |-> Head(inn[j]).msg, result |-> r]]
      BY <2>2 DEF on_message
    <3>3. j = k => r = None
      BY <2>1, <3>1, <3>2 DEF Lookup, Bare, BareTopics
    <3> QED BY <1>0, <2>1, <3>2, <3>3 DEF TypeOK, Bare, Idle
  <2>3. CASE ~on_message(j)
    <3>1. \/ handler' = handler
          \/ \E h \in {Idle, Reconnecting} : handler' = [handler EXCEPT ![j] = h]
      BY <1>6, <2>3 DEF LoopStep, on_connect, on_subscribe, on_message_store, on_disconnect,
         on_disconnect_reconnect, LoopRetry, clientVars
    <3> QED BY <1>0, <2>1, <3>1 DEF TypeOK, Bare, Idle, Reconnecting
  <2> QED BY <2>2, <2>3
<1>7. CASE Environment
  BY <1>0, <1>7, EnvironmentFrame DEF apiVars, clientVars, Bare
<1> QED BY <1>1, <1>2, <1>3, <1>4, <1>5, <1>6, <1>7, NextCases
LEMMA LoopTopics ==
  ASSUME Environment \/ \E j \in Clients : LoopStep(j)
  PROVE  UNCHANGED <<apiVars, addr, m_topicMsg>>
BY LoopFrame, EnvironmentFrame
   DEF apiVars, clientVars, LoopStep, on_connect, on_subscribe, on_message, on_message_store,
       on_disconnect, on_disconnect_reconnect, LoopRetry

LEMMA StepStep == Inv /\ StepInv /\ [Next]_vars => StepInv'
<1> SUFFICES ASSUME Inv, StepInv, [Next]_vars PROVE StepInv'
  OBVIOUS
<1> USE DEF StepInv, Goto, Return, SameCall, Found, k0
<1>0. /\ TypeOK /\ CallInv
      /\ call # NoCall => call.addr \in Brokers
      /\ call.op = "sub" => call.topic \in Topics /\ call.result \in Results
  BY CallFields DEF Inv, NoCall
<1>1. CASE UNCHANGED vars \/ initMqttData
  BY <1>1 DEF vars, apiVars, clientVars, initMqttData
<1>2. CASE UserCalls
  <2>1. PICK op, b, t, m, r, l :
          /\ Begin(op, b, t, m, r, l)
          /\ l \in {"connect", "unsubFind"} \/ (l = "disconnect" /\ op = "disconnect")
    BY <1>2 DEF UserCalls, subMqttTopic, pubMqttTopicMsg, unsubMqttTopic, disconnectMqttBroker,
                setClientRecCfg
  <2> QED BY <2>1 DEF Begin, NoCall
<1>3. CASE Finish
  BY <1>3 DEF Finish
<1>4. CASE ConnectKnown \/ UnsubscribeFind \/ Disconnect
  <2>1. call # NoCall /\ Found \in Clients \cup {None} /\ call' = [call EXCEPT !.client = Found]
    BY <1>0, <1>4 DEF ConnectKnown, UnsubscribeFind, Disconnect, CallInv, TypeOK
  <2>2. call'.op = call.op
    BY <1>0, <2>1, CallClient
  <2> QED BY <1>0, <1>4, <2>1, <2>2 DEF ConnectKnown, UnsubscribeFind, Disconnect, CallInv
<1>5. CASE ConnectNew
  BY <1>5 DEF ConnectNew
<1>6. CASE ConnectUsable \/ Insert
  BY <1>0, <1>6 DEF ConnectUsable, Insert, AfterConnect, CallInv, Building
<1>7. CASE SetConnecting \/ DropClient \/ LoopStart
  BY <1>7 DEF SetConnecting, DropClient, LoopStart
<1>8. CASE SubscribeFind \/ SubscribeSend
  <2>1. Found = k0 /\ Found # None /\ m_topicMsg' = m_topicMsg /\ m_mqttClientIns' = m_mqttClientIns
    BY <1>0, <1>8, NoneAssumption
       DEF SubscribeFind, SubscribeSend, CallInv, Using, clientVars
  <2>2. CASE SubscribeFind
    BY <1>0, <2>1, <2>2 DEF SubscribeFind, CallInv
  <2>3. CASE SubscribeSend
    BY <1>0, <2>1, <2>3, ResultsAssumption DEF SubscribeSend, SendOr, CallInv
  <2> QED BY <1>8, <2>2, <2>3
<1>9. CASE SubscribeBind
  <2>1. /\ m_topicMsg' = [m_topicMsg EXCEPT ![k0][call.topic] = call.result]
        /\ k0 \in Clients /\ call.topic \in Topics /\ pc' = "subscribe" /\ call' = call
    BY <1>0, <1>9 DEF SubscribeBind, CallInv, Using
  <2>2. m_topicMsg'[k0][call.topic] = call.result
    BY <1>0, <2>1 DEF TypeOK
  <2> QED BY <2>1, <2>2
<1>10. CASE toPublishTopicMsg \/ UnsubscribeSend \/ UnsubscribeErase
  BY <1>0, <1>10 DEF toPublishTopicMsg, SendOr, UnsubscribeSend, UnsubscribeErase, CallInv
<1>11. CASE LoopStop \/ Unregister \/ setReconnectCfg
  BY <1>11 DEF LoopStop, Unregister, setReconnectCfg
<1>12. CASE Environment \/ \E j \in Clients : LoopStep(j)
  BY <1>12, LoopTopics DEF apiVars
<1> QED
  BY <1>1, <1>2, <1>3, <1>4, <1>5, <1>6, <1>7, <1>8, <1>9, <1>10, <1>11, <1>12
     DEF Next, ApiStep, toConnectBroker, toSubscribeTopic, toUnsubscribeTopic, toDisconnectBroker

\* A grant is lost only when the call that holds it fails.
Fails == SubscribeSend /\ link[k0] = "closed"
LEMMA GrantedKept ==
  ASSUME Inv, [Next]_vars, ~Fails, NEW b, NEW t, NEW r, Granted(b, t, r)
  PROVE  Granted(b, t, r)'
<1> USE DEF Granted, Goto, Return, SameCall
<1>1. CASE UNCHANGED vars \/ initMqttData
  BY <1>1 DEF vars, apiVars, initMqttData
<1>2. CASE UserCalls
  BY <1>2 DEF UserCalls, subMqttTopic, pubMqttTopicMsg, unsubMqttTopic, disconnectMqttBroker,
              setClientRecCfg, Begin
<1>3. CASE Finish
  BY <1>3 DEF Finish
<1>4. CASE ConnectKnown \/ ConnectUsable \/ ConnectNew \/ SetConnecting \/ DropClient \/ LoopStart \/ Insert
  BY <1>4 DEF ConnectKnown, ConnectUsable, ConnectNew, SetConnecting, DropClient, LoopStart, Insert
<1>5. CASE SubscribeSend
  BY <1>5 DEF SubscribeSend, SendOr, Fails
<1>6. CASE SubscribeFind \/ SubscribeBind \/ toPublishTopicMsg
  BY <1>6 DEF SubscribeFind, SubscribeBind, toPublishTopicMsg
<1>7. CASE \/ UnsubscribeFind \/ UnsubscribeSend \/ UnsubscribeErase
           \/ Disconnect \/ LoopStop \/ Unregister \/ setReconnectCfg
  BY <1>7 DEF UnsubscribeFind, UnsubscribeSend, UnsubscribeErase, Disconnect, LoopStop, Unregister,
              setReconnectCfg
<1>8. CASE Environment \/ \E j \in Clients : LoopStep(j)
  BY <1>8, LoopTopics DEF apiVars
<1> QED
  BY <1>1, <1>2, <1>3, <1>4, <1>5, <1>6, <1>7, <1>8
     DEF Next, ApiStep, toConnectBroker, toSubscribeTopic, toUnsubscribeTopic, toDisconnectBroker

\* The call that fails grants nothing to any other client.
LEMMA FailsAlone ==
  ASSUME Inv, OwnedInv, Fails, NEW k \in Clients, Built(k), k # k0,
         NEW t, NEW r, Granted(addr[k], t, r)
  PROVE  Granted(addr[k], t, r)'
<1>1. pc = "subscribe" /\ m_mqttClientIns[addr[k]] = k /\ Found = k0 /\ promised' = promised
  BY DEF Inv, OwnedInv, BeingBuilt, Building, CallInv, Using, Fails, SubscribeSend, SameCall
<1>2. addr[k] # call.addr
  BY <1>1 DEF Found
<1>3. <<addr[k], t, r>> \in promised
  BY <1>2 DEF Granted
<1>4. addr' = addr
  BY DEF Fails, SubscribeSend, SendOr, libVars
<1> QED BY <1>1, <1>3, <1>4 DEF Granted
LEMMA QueueLive ==
  ASSUME TypeOK, NEW k \in Clients, NEW t \in Topics, NEW j \in Clients, NEW p \in Packet,
         Queues(j, p), Live(k, t)'
  PROVE  Live(k, t) \/ (j = k /\ p = Req("SUBSCRIBE", t))
<1>0. out \in [Clients -> Seq(Packet)] /\ out[k] \in Seq(Packet)
  BY DEF TypeOK, LibTypeOK
<1>1. UNCHANGED <<inn, session>>
  BY DEF Queues
<1>2. CASE out'[k] = out[k]
  BY <1>1, <1>2 DEF Live
<1>3. CASE j = k /\ out'[k] = Append(out[k], p)
  <2>1. \A i \in 1..Len(out'[k]) : out'[k][i] = p \/ \E n \in 1..Len(out[k]) : out'[k][i] = out[k][n]
    BY <1>0, <1>3
  <2> QED BY <1>1, <1>3, <2>1 DEF Live
<1> QED BY <1>0, <1>2, <1>3 DEF Queues

\* A topic of m_topicMsg that can still bring a message was granted.
LEMMA LiveStep ==
  Inv /\ ConnectionInv /\ ClosedInv /\ OwnedInv /\ StepInv /\ LiveInv /\ [Next]_vars => LiveInv'
<1> SUFFICES ASSUME Inv, ConnectionInv, ClosedInv, OwnedInv, StepInv, LiveInv, [Next]_vars,
                    NEW k \in Clients, NEW t \in Topics, Live(k, t)', m_topicMsg'[k][t] # None
             PROVE  Granted(addr[k], t, m_topicMsg[k][t])'
  BY DEF LiveInv
<1> DEFINE Goal == Granted(addr[k], t, m_topicMsg[k][t])'
<1> USE DEF Goto, Return, SameCall, k0
<1>0. /\ TypeOK /\ LibTypeOK /\ CallInv /\ RegistryInv /\ FreshInv
      /\ call # NoCall => call.addr \in Brokers
      /\ call.op = "sub" => call.topic \in Topics
      /\ call.op \in {"pub", "unsub"} => call.topic \in Topics
      /\ call.op = "pub" => call.msg \in Msgs
  BY CallFields DEF Inv, TypeOK, NoCall
<1>1. ASSUME Live(k, t), addr'[k] = addr[k], m_topicMsg'[k][t] = m_topicMsg[k][t], ~Fails
      PROVE  Goal
  <2>1. PICK b : b = addr[k]
    OBVIOUS
  <2>2. PICK r : r = m_topicMsg[k][t]
    OBVIOUS
  <2>3. Granted(b, t, r)
    BY <1>1, <2>1, <2>2 DEF LiveInv
  <2>4. Granted(b, t, r)'
    BY <1>1, <2>3, GrantedKept
  <2> QED BY <1>1, <2>1, <2>2, <2>4 DEF Granted
<1>2. CASE UNCHANGED <<libVars, m_topicMsg>> /\ ~Fails
  BY <1>1, <1>2 DEF Live, libVars
<1>3. CASE LoopStart
  BY <1>1, <1>3 DEF LoopStart, LibLoopStart, Live, clientVars, Fails, SubscribeSend
<1>4. CASE toPublishTopicMsg \/ UnsubscribeSend \/ Disconnect
  <2>1. ~Fails /\ addr' = addr /\ m_topicMsg' = m_topicMsg
    BY <1>4 DEF toPublishTopicMsg, UnsubscribeSend, Disconnect, Fails, SubscribeSend, SendOr, LibSend,
                LibDisconnect, libVars, clientVars
  <2>2. CASE UNCHANGED libVars
    BY <1>2, <2>1, <2>2
  <2>3. CASE ~UNCHANGED libVars
    <3>1. \E j \in Clients, p \in Packet : p.type # "SUBSCRIBE" /\ Queues(j, p)
      <4>1. CASE toPublishTopicMsg
        <5>1. k0 \in Clients /\ Pub(call.topic, call.msg) \in Packet /\ Pub(call.topic, call.msg).type # "SUBSCRIBE"
          BY <1>0, <4>1, PacketTypes DEF toPublishTopicMsg, CallInv, Using, Pub
        <5>2. Queues(k0, Pub(call.topic, call.msg))
          BY <2>3, <4>1 DEF toPublishTopicMsg, SendOr, LibSend, Queues
        <5> QED BY <5>1, <5>2
      <4>2. CASE UnsubscribeSend
        <5>1. /\ k0 \in Clients /\ Req("UNSUBSCRIBE", call.topic) \in Packet
              /\ Req("UNSUBSCRIBE", call.topic).type # "SUBSCRIBE"
          BY <1>0, <4>2, PacketTypes DEF UnsubscribeSend, CallInv, Using, Req
        <5>2. Queues(k0, Req("UNSUBSCRIBE", call.topic))
          BY <2>3, <4>2 DEF UnsubscribeSend, LibSend, Queues
        <5> QED BY <5>1, <5>2
      <4>3. CASE Disconnect
        <5>1. Found \in Clients /\ LibDisconnect(Found)
          BY <1>0, <2>3, <4>3 DEF Disconnect, CallInv, TypeOK, Found
        <5>2. Pkt("DISCONNECT") \in Packet /\ Pkt("DISCONNECT").type # "SUBSCRIBE"
          BY PacketTypes DEF Pkt
        <5>3. Queues(Found, Pkt("DISCONNECT"))
          BY <5>1 DEF LibDisconnect, Queues
        <5> QED BY <5>1, <5>2, <5>3
      <4> QED BY <1>4, <4>1, <4>2, <4>3
    <3>2. Live(k, t)
      BY <1>0, <3>1, QueueLive DEF Req
    <3> QED BY <1>1, <2>1, <3>2
  <2> QED BY <2>2, <2>3
<1>5. CASE SubscribeSend /\ ~Fails
  <2>1. /\ k0 \in Clients /\ Found = k0 /\ call.op = "sub" /\ link[k0] # "closed" /\ call.topic \in Topics
        /\ pc' = "return" /\ ret' = "SUCCESS" /\ call' = call /\ LibSend(k0, Req("SUBSCRIBE", call.topic))
        /\ addr' = addr /\ m_topicMsg' = m_topicMsg /\ m_topicMsg[k0][call.topic] = call.result
        /\ call.addr \in Brokers
    BY <1>0, <1>5 DEF SubscribeSend, Fails, SendOr, LibSend, CallInv, Using, StepInv, clientVars
  <2>2. Queues(k0, Req("SUBSCRIBE", call.topic)) /\ Req("SUBSCRIBE", call.topic) \in Packet
    BY <2>1, PacketTypes DEF LibSend, Queues
  <2>3. Live(k, t) \/ (k0 = k /\ t = call.topic)
    <3>1. Live(k, t) \/ (k0 = k /\ Req("SUBSCRIBE", call.topic) = Req("SUBSCRIBE", t))
      BY <1>0, <2>1, <2>2, QueueLive
    <3> QED BY <3>1 DEF Req
  <2>4. CASE k0 = k /\ t = call.topic
    <3>1. addr[k0] = call.addr
      BY <1>0, <2>1, NoneAssumption DEF RegistryInv, Found
    <3> QED BY <2>1, <2>4, <3>1 DEF Granted
  <2> QED BY <1>1, <1>5, <2>1, <2>3, <2>4
<1>6. CASE Fails
  <2>1. UNCHANGED <<libVars, m_topicMsg>> /\ k0 \in Clients /\ link[k0] = "closed"
    BY <1>0, <1>6 DEF Fails, SubscribeSend, SendOr, CallInv, Using, clientVars
  <2>2. Live(k, t)
    BY <2>1 DEF Live, libVars
  <2>3. k # k0 /\ Built(k)
    BY <1>0, <2>1, <2>2 DEF ClosedInv, FreshInv, Fresh, Live
  <2>4. PICK r : r = m_topicMsg[k][t]
    OBVIOUS
  <2>5. Granted(addr[k], t, r)
    BY <2>1, <2>2, <2>4 DEF LiveInv
  <2>6. Granted(addr[k], t, r)'
    BY <1>6, <2>3, <2>5, FailsAlone
  <2> QED BY <2>1, <2>4, <2>6 DEF Granted
<1>7. CASE ConnectNew
  <2>1. PICK j \in Clients, ok \in BOOLEAN :
          ~Built(j) /\ LibConnect(j, call.addr, g_clientId, cleanSession(g_clientId), ok)
    BY <1>7 DEF ConnectNew
  <2>2. m_topicMsg' = m_topicMsg /\ ~Fails
    BY <1>7 DEF ConnectNew, clientVars, Fails, SubscribeSend
  <2>3. CASE j = k
    <3>1. inn'[k] = <<>> /\ session'[k] = {} /\ (out'[k] = <<>> \/ out'[k] = <<Pkt("CONNECT")>>)
      BY <1>0, <2>1, <2>3 DEF LibConnect, LibTypeOK, FreshInv, Fresh, ClosedInv
    <3> QED BY <3>1 DEF Live, Pkt, Req
  <2>4. CASE j # k
    <3>1. out'[k] = out[k] /\ inn' = inn /\ session' = session /\ addr'[k] = addr[k]
      BY <1>0, <2>1, <2>4 DEF LibConnect, LibTypeOK
    <3> QED BY <1>1, <2>2, <3>1 DEF Live
  <2> QED BY <2>3, <2>4
<1>8. CASE DropClient \/ Unregister
  <2>1. /\ LibDestroy(k0) /\ k0 \in Clients /\ ~Fails
        /\ m_topicMsg' = [m_topicMsg EXCEPT ![k0] = [s \in Topics |-> None]]
    BY <1>0, <1>8 DEF DropClient, Unregister, Destroy, CallInv, Building, Using, Fails, SubscribeSend
  <2>2. k # k0
    BY <1>0, <2>1 DEF TypeOK
  <2>3. /\ out'[k] = out[k] /\ inn'[k] = inn[k] /\ session'[k] = session[k] /\ addr'[k] = addr[k]
        /\ m_topicMsg'[k] = m_topicMsg[k]
    BY <1>0, <2>1, <2>2 DEF LibDestroy, LibTypeOK, TypeOK
  <2> QED BY <1>1, <2>1, <2>3 DEF Live
<1>9. CASE SubscribeBind \/ UnsubscribeErase
  <2>1. /\ k0 \in Clients /\ Found = k0 /\ call.topic \in Topics /\ UNCHANGED libVars /\ ~Fails
        /\ call' = call /\ call.addr \in Brokers
        /\ \/ /\ m_topicMsg' = [m_topicMsg EXCEPT ![k0][call.topic] = call.result]
              /\ pc' = "subscribe" /\ call.op = "sub"
           \/ m_topicMsg' = [m_topicMsg EXCEPT ![k0][call.topic] = None]
    BY <1>0, <1>9 DEF SubscribeBind, UnsubscribeErase, CallInv, Using, Fails, SubscribeSend
  <2>2. CASE k = k0 /\ t = call.topic
    <3>1. addr[k0] = call.addr /\ addr' = addr
      BY <1>0, <2>1, NoneAssumption DEF RegistryInv, Found, libVars
    <3>2. m_topicMsg'[k][t] = call.result /\ pc' = "subscribe" /\ call.op = "sub"
      BY <1>0, <2>1, <2>2 DEF TypeOK
    <3> QED BY <2>1, <2>2, <3>1, <3>2 DEF Granted
  <2>3. CASE ~(k = k0 /\ t = call.topic)
    <3>1. m_topicMsg'[k][t] = m_topicMsg[k][t]
      BY <1>0, <2>1, <2>3 DEF TypeOK
    <3> QED BY <1>1, <2>1, <3>1 DEF Live, libVars
  <2> QED BY <2>2, <2>3
<1>10. CASE Environment \/ \E j \in Clients : LoopStep(j)
  <2>1. Live(k, t)
    BY <1>10, LoopFewer, NetworkFewer DEF Fewer
  <2>2. UNCHANGED <<pc, addr, m_topicMsg, ret>>
    BY <1>10, LoopTopics DEF apiVars
  <2>3. ~Fails \/ pc' # pc
    BY DEF Fails, SubscribeSend, SendOr
  <2> QED BY <1>1, <2>1, <2>2, <2>3
<1>11. CASE \/ UNCHANGED vars \/ initMqttData \/ UserCalls \/ Finish \/ ConnectKnown \/ ConnectUsable
            \/ SetConnecting \/ Insert \/ SubscribeFind \/ UnsubscribeFind \/ LoopStop \/ setReconnectCfg
  <2>1. UNCHANGED libVars
    BY <1>11, CallsFrame DEF vars
  <2>2. m_topicMsg' = m_topicMsg
    BY <1>11, PlainFrame DEF Plain, Insert, clientVars
  <2>3. CASE Fails
    BY <1>6, <2>3
  <2> QED BY <1>2, <2>1, <2>2, <2>3
<1> QED
  BY <1>3, <1>4, <1>5, <1>6, <1>7, <1>8, <1>9, <1>10, <1>11, NextCases DEF Plain
\* A message in hand goes to a string that was granted its topic.
LEMMA HandStep ==
  Inv /\ ConnectionInv /\ ClosedInv /\ OwnedInv /\ LiveInv /\ HandInv /\ [Next]_vars => HandInv'
<1> SUFFICES ASSUME Inv, ConnectionInv, ClosedInv, OwnedInv, LiveInv, HandInv, [Next]_vars,
                    NEW k \in Clients, handler'[k].kind = "message"
             PROVE  link'[k] # "closed" /\ Granted(addr[k], handler[k].topic, handler[k].result)'
  BY DEF HandInv
<1> DEFINE Goal == link'[k] # "closed" /\ Granted(addr[k], handler[k].topic, handler[k].result)'
<1> USE DEF Goto, Return, SameCall, k0
<1>0. /\ TypeOK /\ LibTypeOK /\ CallInv /\ FreshInv
      /\ Idle.kind # "message" /\ Reconnecting.kind # "message"
  BY DEF Inv, TypeOK, Idle, Reconnecting
<1>1. ASSUME handler'[k] = handler[k], addr'[k] = addr[k], link'[k] = link[k], ~Fails
      PROVE  Goal
  <2>1. PICK b : b = addr[k]
    OBVIOUS
  <2>2. PICK t : t = handler[k].topic
    OBVIOUS
  <2>3. PICK r : r = handler[k].result
    OBVIOUS
  <2>4. Granted(b, t, r) /\ link[k] # "closed"
    BY <1>1, <2>1, <2>2, <2>3 DEF HandInv
  <2>5. Granted(b, t, r)'
    BY <1>1, <2>4, GrantedKept
  <2> QED BY <1>1, <2>1, <2>2, <2>3, <2>4, <2>5 DEF Granted
<1>2. CASE Fails
  <2>1. UNCHANGED <<libVars, handler>> /\ k0 \in Clients /\ link[k0] = "closed"
    BY <1>0, <1>2 DEF Fails, SubscribeSend, SendOr, CallInv, Using, clientVars
  <2>2. k # k0 /\ Built(k)
    BY <1>0, <2>1 DEF HandInv, FreshInv, Fresh
  <2>3. PICK t : t = handler[k].topic
    OBVIOUS
  <2>4. PICK r : r = handler[k].result
    OBVIOUS
  <2>5. Granted(addr[k], t, r) /\ link[k] # "closed"
    BY <2>1, <2>3, <2>4 DEF HandInv
  <2>6. Granted(addr[k], t, r)'
    BY <1>2, <2>2, <2>5, FailsAlone
  <2> QED BY <2>1, <2>3, <2>4, <2>5, <2>6 DEF Granted, libVars
<1>3. CASE Plain
  <2>1. handler' = handler /\ addr' = addr
    BY <1>3, PlainFrame
  <2>2. link' = link
    <3>1. CASE LoopStart
      BY <3>1 DEF LoopStart, LibLoopStart
    <3>2. CASE SubscribeSend \/ toPublishTopicMsg \/ UnsubscribeSend \/ Disconnect
      BY <3>2, SendsQueue DEF Queues, libVars
    <3>3. CASE UNCHANGED libVars
      BY <3>3 DEF libVars
    <3> QED BY <1>3, <3>1, <3>2, <3>3, CallsFrame DEF Plain, vars
  <2> QED BY <1>1, <1>2, <2>1, <2>2
<1>4. CASE ConnectNew
  <2>1. PICK j \in Clients, ok \in BOOLEAN :
          ~Built(j) /\ LibConnect(j, call.addr, g_clientId, cleanSession(g_clientId), ok)
    BY <1>4 DEF ConnectNew
  <2>2. handler' = handler /\ ~Fails
    BY <1>4 DEF ConnectNew, clientVars, Fails, SubscribeSend
  <2>3. j # k
    BY <1>0, <2>1, <2>2 DEF FreshInv, Fresh
  <2> QED BY <1>0, <1>1, <2>1, <2>2, <2>3 DEF LibConnect, LibTypeOK
<1>5. CASE DropClient \/ Unregister
  <2>1. LibDestroy(k0) /\ k0 \in Clients /\ ~Fails /\ handler' = [handler EXCEPT ![k0] = Idle]
    BY <1>0, <1>5 DEF DropClient, Unregister, Destroy, CallInv, Building, Using, Fails, SubscribeSend
  <2>2. k # k0
    BY <1>0, <2>1 DEF TypeOK
  <2> QED BY <1>0, <1>1, <2>1, <2>2 DEF LibDestroy, LibTypeOK, TypeOK
<1>6. CASE Insert \/ SubscribeBind \/ UnsubscribeErase
  BY <1>1, <1>6 DEF Insert, SubscribeBind, UnsubscribeErase, libVars, clientVars, Fails, SubscribeSend
<1>7. CASE Environment
  <2>1. UNCHANGED <<handler, addr, link, pc>>
    BY <1>7, EnvironmentFrame DEF apiVars, clientVars
  <2> QED BY <1>1, <1>2, <2>1
<1>8. ASSUME NEW j \in Clients, LoopStep(j) PROVE Goal
  <2>1. UNCHANGED <<pc, addr, m_topicMsg, ret>>
    BY <1>8, LoopTopics DEF apiVars
  <2>2. ~Fails
    BY <2>1 DEF Fails, SubscribeSend, SendOr
  <2>3. CASE j # k
    <3>1. \/ link' = link \/ \E x : link' = [link EXCEPT ![j] = x]
      BY <1>8, Zenon DEF LoopStep, on_connect, on_subscribe, on_message, on_message_store, on_disconnect,
         on_disconnect_reconnect, LoopRetry, LibReceive, LibClose, LibReopen, LibRetry, libVars
    <3>2. \/ handler' = handler \/ \E x : handler' = [handler EXCEPT ![j] = x]
      BY <1>8, Zenon DEF LoopStep, on_connect, on_subscribe, on_message, on_message_store, on_disconnect,
         on_disconnect_reconnect, LoopRetry, clientVars
    <3>3. link'[k] = link[k] /\ handler'[k] = handler[k]
      BY <1>0, <2>3, <3>1, <3>2 DEF LibTypeOK, TypeOK
    <3> QED BY <1>1, <2>1, <2>2, <3>3
  <2>4. CASE j = k /\ ~on_message(k)
    <3>1. handler' = handler \/ \E h \in {Idle, Reconnecting} : handler' = [handler EXCEPT ![k] = h]
      BY <1>8, <2>4 DEF LoopStep, on_connect, on_subscribe, on_message_store, on_disconnect,
         on_disconnect_reconnect, LoopRetry, clientVars
    <3>2. handler' = handler => handler[k] = Idle \/ handler'[k].kind # "message"
      BY <1>0, <1>8, <2>4 DEF LoopStep, on_connect, on_subscribe, on_message_store, on_disconnect,
         on_disconnect_reconnect, LoopRetry, clientVars, TypeOK
    <3> QED BY <1>0, <3>1, <3>2 DEF TypeOK
  <2>5. CASE on_message(k)
    <3> DEFINE p == Head(inn[k])
    <3>1. p \in Packet /\ p.type = "PUBLISH" /\ p.topic \in Topics /\ inn[k] # <<>> /\ p = inn[k][1]
          /\ 1 \in 1..Len(inn[k])
      BY <1>0, <2>5, HeadPacket, PacketFields DEF on_message, Reads, HeadIs, LibTypeOK
    <3>2. PICK r \in Lookup(k, p.topic) :
            handler' = [handler EXCEPT ![k] = IF r = None THEN Idle
              ELSE [kind |-> "message", topic |-> p.topic, msg |-> p.msg, result |-> r]]
      BY <2>5 DEF on_message
    <3>3. link'[k] = link[k] /\ link[k] # "closed"
      BY <1>0, <2>5, <3>1 DEF on_message, LibReceive, LibTypeOK, ClosedInv
    <3>4. r # None /\ r = m_topicMsg[k][p.topic] /\ handler'[k].topic = p.topic /\ handler'[k].result = r
      BY <1>0, <3>2 DEF TypeOK, Lookup
    <3>5. Live(k, p.topic)
      BY <3>1 DEF Live
    <3>6. PICK b : b = addr[k]
      OBVIOUS
    <3>7. PICK t : t = p.topic
      OBVIOUS
    <3>8. Granted(b, t, r)
      BY <3>1, <3>4, <3>5, <3>6, <3>7 DEF LiveInv
    <3>9. Granted(b, t, r)'
      BY <2>2, <3>8, GrantedKept
    <3> QED BY <2>1, <3>3, <3>4, <3>6, <3>7, <3>9 DEF Granted
  <2> QED BY <2>3, <2>4, <2>5
<1> QED
  BY <1>3, <1>4, <1>5, <1>6, <1>7, <1>8, NextCases

LEMMA BoardInit == Init => BoardInv
BY DEF Init, LibInit, BoardInv, ClosedInv, OwnedInv, Built, BareInv, BareTopics, BeingBuilt, Building,
       Idle, StepInv, NoCall, LiveInv, HandInv

\* The invariant that the refinement rests on.
THEOREM BoardInvariance == Spec => []BoardInv
<1>1. Inv /\ ConnectionInv /\ BoardInv /\ [Next]_vars => BoardInv'
  BY ClosedStep, OwnedStep, BareStep, StepStep, LiveStep, HandStep DEF BoardInv
<1> QED BY <1>1, BoardInit, Invariance, ConnectionInvariance, PTL DEF Spec

\* Nobody's string is written but one that was promised the topic, or is being.
THEOREM OnlyPromisedWritten == Spec => WritesOnlyPromised
<1>1. Inv /\ BoardInv =>
        \A k \in Clients : on_message_store(k) => Asked(addr[k], handler[k].topic, handler[k].result)
  <2> SUFFICES ASSUME BoardInv, NEW k \in Clients, on_message_store(k)
               PROVE  Asked(addr[k], handler[k].topic, handler[k].result)
    OBVIOUS
  <2> QED BY DEF BoardInv, HandInv, on_message_store, Granted, Asked
<1>2. Inv /\ BoardInv /\ [Next]_vars =>
        [\A k \in Clients : on_message_store(k) => Asked(addr[k], handler[k].topic, handler[k].result)]_vars
  BY <1>1
<1> QED BY <1>2, Invariance, BoardInvariance, PTL DEF Spec, WritesOnlyPromised
-----------------------------------------------------------------------------
(* The refinement.                                                          *)

theBoard == [b \in Brokers |-> boardOf(b)]
theHand == [b \in Brokers |-> inHandOf(b)]
Stutter == UNCHANGED <<theBoard, theHand, mail, Asking, promised>>

LEMMA StutterSteps == Stutter => UNCHANGED Board!boardVars
BY DEF Stutter, Board!boardVars, theBoard, theHand

LEMMA AskingKept ==
  ASSUME TypeOK, call # NoCall, NEW k \in Clients \cup {None}, call' = [call EXCEPT !.client = k]
  PROVE  Asking' = Asking
<1>1. call'.op = call.op /\ call'.addr = call.addr
  BY CallClient
<1>2. call'.topic = call.topic /\ call'.result = call.result
  BY DEF TypeOK, Call, CallOf, NoCall
<1> QED BY <1>1, <1>2 DEF Asking

LEMMA BoardFrame ==
  ASSUME UNCHANGED <<m_mqttClientIns, m_topicMsg, handler>>
  PROVE  theBoard' = theBoard /\ theHand' = theHand
BY DEF theBoard, theHand, boardOf, inHandOf, Holding, Held, Registered

\* A client is registered once at most.
LEMMA RegisteredOnce ==
  ASSUME Inv, NEW b \in Brokers, NEW c \in Brokers, Registered(b) # None, Registered(b) = Registered(c)
  PROVE  b = c
BY DEF Inv, RegistryInv, Registered

\* A change of one client's topics and callback shows on its broker's board alone.
LEMMA OneBoard ==
  ASSUME Inv, NEW b \in Brokers, NEW k \in Clients, Registered(b) = k, m_mqttClientIns' = m_mqttClientIns,
         NEW c \in Brokers \ {b},
         \A j \in Clients \ {k} : m_topicMsg'[j] = m_topicMsg[j] /\ handler'[j] = handler[j]
  PROVE  boardOf(c)' = boardOf(c) /\ inHandOf(c)' = inHandOf(c)
<1>1. Registered(c) # k /\ Registered(c) \in Clients \cup {None} /\ Registered(c)' = Registered(c)
  BY RegisteredOnce, NoneAssumption DEF Inv, TypeOK, Registered
<1> QED BY <1>1 DEF boardOf, inHandOf, Holding, Held
\* The calls and their ends.
LEMMA BoardCalls ==
  ASSUME Inv, BoardInv, UserCalls \/ Finish
  PROVE  [Board!Next]_(Board!boardVars)
<1>0. /\ TypeOK /\ StepInv
      /\ pc = "idle" => call = NoCall
      /\ call.op = "sub" => /\ call.addr \in Brokers /\ call.topic \in Topics /\ call.result \in Results
                            /\ m_mqttClientIns[call.addr] \in Clients \cup {None}
  BY CallFields DEF Inv, BoardInv, StepInv, NoCall, TypeOK
<1>1. theBoard' = theBoard /\ theHand' = theHand /\ mail' = mail
  BY BoardFrame DEF UserCalls, subMqttTopic, pubMqttTopicMsg, unsubMqttTopic, disconnectMqttBroker,
                    setClientRecCfg, Begin, Finish, clientVars
<1>2. CASE UserCalls
  <2>1. pc = "idle" /\ promised' = promised
    BY <1>2 DEF UserCalls, subMqttTopic, pubMqttTopicMsg, unsubMqttTopic, disconnectMqttBroker,
                setClientRecCfg, Begin
  <2>0. Asking = {}
    BY <1>0, <2>1 DEF Asking, NoCall
  <2>2. ASSUME NEW b \in Brokers, NEW t \in Topics, NEW r \in Results, subMqttTopic(b, t, r)
        PROVE  Board!Next
    <3>1. Asking' = {<<b, t, r>>}
      BY <2>2 DEF subMqttTopic, Begin, NoCall, Asking
    <3>2. Board!Ask(<<b, t, r>>)
      BY <1>1, <2>0, <2>1, <3>1 DEF Board!Ask, theBoard, theHand
    <3> QED BY <3>2 DEF Board!Next, Board!Subscriptions
  <2>3. CASE \E op \in {"pub", "unsub", "disconnect", "recCfg"} : \E b, t, m, r, l : Begin(op, b, t, m, r, l)
    <3>1. Asking' = {}
      BY <2>3 DEF Begin, NoCall, Asking
    <3> QED BY <1>1, <2>0, <2>1, <3>1, StutterSteps DEF Stutter
  <2>4. \/ \E b \in Brokers, t \in Topics, r \in Results : subMqttTopic(b, t, r)
        \/ \E op \in {"pub", "unsub", "disconnect", "recCfg"} : \E b, t, m, r, l : Begin(op, b, t, m, r, l)
    BY <1>2, Zenon DEF UserCalls, pubMqttTopicMsg, unsubMqttTopic, disconnectMqttBroker, setClientRecCfg
  <2> QED BY <2>2, <2>3, <2>4
<1>3. CASE Finish
  <2>1. Asking' = {}
    BY <1>3 DEF Finish, NoCall, Asking
  <2>2. CASE call.op # "sub"
    <3>1. Asking = {} /\ promised' = promised
      BY <1>3, <2>2 DEF Finish, Asking
    <3> QED BY <1>1, <2>1, <3>1, StutterSteps DEF Stutter
  <2>3. CASE call.op = "sub" /\ ret = "SUCCESS"
    <3>1. /\ Asking = {<<call.addr, call.topic, call.result>>} /\ promised' = promised \cup Asking
          /\ call.addr \in Brokers /\ call.topic \in Topics /\ call.result \in Results
      BY <1>0, <1>3, <2>3 DEF Finish, Asking
    <3>2. boardOf(call.addr)[call.topic] # None
      BY <1>0, <1>3, <2>3 DEF StepInv, Finish, boardOf, Registered, Found
    <3>3. Board!Succeed(call.addr, call.topic, call.result)
      BY <1>1, <2>1, <3>1, <3>2 DEF Board!Succeed, theBoard, theHand
    <3> QED BY <3>1, <3>3 DEF Board!Next
  <2>4. CASE call.op = "sub" /\ ret # "SUCCESS"
    <3>1. Asking # {} /\ promised' = promised
      BY <1>3, <2>4 DEF Finish, Asking
    <3>2. Board!Fail
      BY <1>1, <2>1, <3>1 DEF Board!Fail, theBoard, theHand
    <3> QED BY <3>2 DEF Board!Next
  <2> QED BY <2>2, <2>3, <2>4
<1> QED BY <1>2, <1>3

\* The steps of the calls that change a topic or the registry.
LEMMA BoardEdits ==
  ASSUME Inv, BoardInv, SubscribeBind \/ UnsubscribeErase
  PROVE  [Board!Next]_(Board!boardVars)
<1> USE DEF k0
<1>0. /\ TypeOK /\ CallInv /\ StepInv /\ call # NoCall
      /\ call.addr \in Brokers /\ call.topic \in Topics /\ k0 \in Clients /\ Registered(call.addr) = k0
  BY CallFields DEF Inv, BoardInv, CallInv, Using, SubscribeBind, UnsubscribeErase, Found, Registered
<1>1. /\ UNCHANGED <<m_mqttClientIns, handler, mail, promised, Asking, call>>
      /\ \A j \in Clients \ {k0} : m_topicMsg'[j] = m_topicMsg[j] /\ handler'[j] = handler[j]
  BY <1>0 DEF SubscribeBind, UnsubscribeErase, SameCall, TypeOK, Asking
<1>2. theHand' = theHand
  BY <1>1 DEF theHand, inHandOf, Holding, Held, Registered
<1>3. \A c \in Brokers \ {call.addr} : boardOf(c)' = boardOf(c)
  BY <1>0, <1>1, OneBoard
<1>4. boardOf(call.addr) = m_topicMsg[k0] /\ boardOf(call.addr)' = m_topicMsg'[k0]
  BY <1>0, <1>1, NoneAssumption DEF boardOf, Registered
<1>5. ASSUME NEW r, m_topicMsg' = [m_topicMsg EXCEPT ![k0][call.topic] = r]
      PROVE  theBoard' = [theBoard EXCEPT ![call.addr][call.topic] = r]
  <2>1. m_topicMsg'[k0] = [m_topicMsg[k0] EXCEPT ![call.topic] = r]
    BY <1>0, <1>5 DEF TypeOK
  <2>2. \A b \in Brokers :
          theBoard'[b] = IF b = call.addr THEN [theBoard[b] EXCEPT ![call.topic] = r] ELSE theBoard[b]
    BY <1>0, <1>1, <1>3, <1>4, <2>1 DEF theBoard
  <2> QED BY <1>0, <2>2 DEF theBoard
<1>6. CASE SubscribeBind
  <2>1. Asking = {<<call.addr, call.topic, call.result>>} /\ call.result \in Results
    BY <1>0, <1>6, CallFields DEF SubscribeBind, CallInv, Asking
  <2>2. theBoard' = [theBoard EXCEPT ![call.addr][call.topic] = call.result]
    BY <1>5, <1>6 DEF SubscribeBind
  <2>3. theBoard[call.addr][call.topic] = None
    BY <1>0, <1>4, <1>6 DEF theBoard, StepInv, SubscribeBind
  <2>4. Board!Bind(call.addr, call.topic, call.result)
    BY <1>1, <1>2, <2>1, <2>2, <2>3 DEF Board!Bind, theBoard, theHand
  <2> QED BY <1>0, <2>1, <2>4 DEF Board!Next
<1>7. CASE UnsubscribeErase
  <2>1. Asking = {}
    BY <1>0, <1>7 DEF UnsubscribeErase, CallInv, Asking
  <2>2. m_topicMsg' = [m_topicMsg EXCEPT ![k0][call.topic] = None]
    BY <1>7 DEF UnsubscribeErase
  <2>3. theBoard' = [theBoard EXCEPT ![call.addr][call.topic] = None]
    BY <1>5, <2>2
  <2>4. CASE theBoard[call.addr][call.topic] = None
    <3>1. m_topicMsg[k0][call.topic] = None
      BY <1>0, <1>4, <2>4 DEF theBoard
    <3>2. m_topicMsg' = m_topicMsg
      BY <1>0, <2>2, <3>1 DEF TypeOK
    <3> QED BY <1>1, <3>2, BoardFrame, StutterSteps DEF Stutter
  <2>5. CASE theBoard[call.addr][call.topic] # None
    <3>1. Board!Unbind(call.addr, call.topic)
      BY <1>1, <1>2, <2>1, <2>3, <2>5 DEF Board!Unbind, theBoard, theHand
    <3> QED BY <1>0, <3>1 DEF Board!Next
  <2> QED BY <2>4, <2>5
<1> QED BY <1>6, <1>7
\* Building a client and letting it go: it shows on no board before Insert, and
\* Insert puts an empty one in the place of an empty one.
LEMMA BoardClients ==
  ASSUME Inv, BoardInv, ConnectNew \/ DropClient \/ Insert \/ Unregister
  PROVE  [Board!Next]_(Board!boardVars)
<1> USE DEF k0, Goto, Return, SameCall
<1>0. /\ TypeOK /\ CallInv /\ StepInv /\ RegistryInv /\ call # NoCall /\ call.addr \in Brokers
  BY CallFields DEF Inv, BoardInv, CallInv, ConnectNew, DropClient, Insert, Unregister
<1>1. CASE ConnectNew
  <2>1. UNCHANGED <<m_mqttClientIns, m_topicMsg, handler, mail, promised>>
    BY <1>1 DEF ConnectNew, clientVars
  <2>2. Asking' = Asking
    BY <1>0, <1>1, AskingKept DEF ConnectNew
  <2> QED BY <2>1, <2>2, BoardFrame, StutterSteps DEF Stutter
<1>2. CASE DropClient
  <2>1. /\ k0 \in Clients /\ Found = None /\ addr[k0] = call.addr
        /\ UNCHANGED <<m_mqttClientIns, mail, promised, Asking>>
        /\ \A j \in Clients \ {k0} : m_topicMsg'[j] = m_topicMsg[j] /\ handler'[j] = handler[j]
    BY <1>0, <1>2 DEF DropClient, Destroy, CallInv, Building, TypeOK, Asking
  <2>2. \A b \in Brokers : Registered(b) # k0 /\ Registered(b) \in Clients \cup {None}
    BY <1>0, <2>1, NoneAssumption DEF Registered, RegistryInv, Found, TypeOK
  <2>3. \A b \in Brokers : boardOf(b)' = boardOf(b) /\ inHandOf(b)' = inHandOf(b)
    BY <2>1, <2>2 DEF boardOf, inHandOf, Holding, Held, Registered
  <2>4. theBoard' = theBoard /\ theHand' = theHand
    BY <2>3 DEF theBoard, theHand
  <2> QED BY <2>1, <2>4, StutterSteps DEF Stutter
<1>3. CASE Insert
  <2>1. /\ k0 \in Clients /\ Registered(call.addr) = None
        /\ m_mqttClientIns' = [m_mqttClientIns EXCEPT ![call.addr] = k0]
        /\ UNCHANGED <<m_topicMsg, handler, mail, promised, call>>
    BY <1>0, <1>3 DEF Insert, CallInv, Building, Found, Registered, clientVars
  <2>2. m_topicMsg[k0] = BareTopics /\ handler[k0].kind # "message"
    BY <1>3, <2>1 DEF BoardInv, BareInv, BeingBuilt, Building, Insert
  <2>3. \A b \in Brokers : Registered(b)' = IF b = call.addr THEN k0 ELSE Registered(b)
    BY <1>0, <2>1 DEF TypeOK, Registered
  <2>4. \A b \in Brokers : boardOf(b)' = boardOf(b)
    BY <2>1, <2>2, <2>3, NoneAssumption DEF boardOf, BareTopics
  <2>5. \A b \in Brokers : inHandOf(b)' = inHandOf(b)
    BY <2>1, <2>2, <2>3 DEF inHandOf, Holding, Held
  <2>6. theBoard' = theBoard /\ theHand' = theHand /\ Asking' = Asking
    BY <2>1, <2>4, <2>5 DEF theBoard, theHand, Asking
  <2> QED BY <2>1, <2>6, StutterSteps DEF Stutter
<1>4. CASE Unregister
  <2>1. /\ k0 \in Clients /\ Registered(call.addr) = k0 /\ Asking = {} /\ handler[k0].kind # "message"
        /\ m_mqttClientIns' = [m_mqttClientIns EXCEPT ![call.addr] = None]
        /\ UNCHANGED <<mail, promised, call>>
        /\ \A j \in Clients \ {k0} : m_topicMsg'[j] = m_topicMsg[j] /\ handler'[j] = handler[j]
    BY <1>0, <1>4 DEF Unregister, Destroy, CallInv, Using, Found, Registered, TypeOK, StepInv, Asking,
                      Inv, CallbackInv
  <2>2. \A b \in Brokers : Registered(b)' = IF b = call.addr THEN None ELSE Registered(b)
    BY <1>0, <2>1 DEF TypeOK, Registered
  <2>3. \A b \in Brokers \ {call.addr} : Registered(b) # k0 /\ Registered(b) \in Clients \cup {None}
    BY <1>0, <2>1, RegisteredOnce, NoneAssumption DEF TypeOK, Registered
  <2>4. \A b \in Brokers : boardOf(b)' = IF b = call.addr THEN BareTopics ELSE boardOf(b)
    BY <2>1, <2>2, <2>3 DEF boardOf, BareTopics
  <2>5. inHandOf(call.addr) = {} /\ \A b \in Brokers : inHandOf(b)' = inHandOf(b)
    <3>1. inHandOf(call.addr) = {}
      BY <2>1 DEF inHandOf, Holding
    <3>2. \A b \in Brokers \ {call.addr} : inHandOf(b)' = inHandOf(b)
      BY <2>1, <2>2, <2>3 DEF inHandOf, Holding, Held
    <3>3. \A b \in Brokers : b = call.addr => inHandOf(b)' = {}
      BY <2>2 DEF inHandOf, Holding
    <3> QED BY <1>0, <3>1, <3>2, <3>3
  <2>6. Asking' = {} /\ theHand' = theHand /\ theBoard' = [theBoard EXCEPT ![call.addr] = BareTopics]
    BY <1>0, <2>1, <2>4, <2>5 DEF theBoard, theHand, Asking
  <2>7. CASE theBoard[call.addr] = BareTopics
    <3>1. theBoard' = theBoard
      BY <2>6, <2>7 DEF theBoard
    <3> QED BY <2>1, <2>6, <3>1, StutterSteps DEF Stutter
  <2>8. CASE theBoard[call.addr] # BareTopics
    <3>1. theHand[call.addr] = {}
      BY <1>0, <2>5 DEF theHand
    <3>2. Board!Clear(call.addr)
      BY <2>1, <2>6, <2>8, <3>1 DEF Board!Clear, Board!Bare, BareTopics, theBoard, theHand
    <3> QED BY <1>0, <3>2 DEF Board!Next
  <2> QED BY <2>7, <2>8
<1> QED BY <1>1, <1>2, <1>3, <1>4

\* The callbacks that take a message and store it.
LEMMA BoardMessages ==
  ASSUME Inv, BoardInv, NEW k \in Clients, on_message(k) \/ on_message_store(k)
  PROVE  [Board!Next]_(Board!boardVars)
<1>0. /\ TypeOK /\ LibTypeOK /\ FreshInv /\ LoopStep(k)
      /\ UNCHANGED <<apiVars, m_topicMsg>> /\ Asking' = Asking
  BY LoopTopics DEF Inv, TypeOK, LoopStep, apiVars, Asking
<1>1. Built(k)
  BY <1>0 DEF FreshInv, Fresh, on_message, on_message_store, Reads, HeadIs, Idle
<1>2. theBoard' = theBoard
  BY <1>0 DEF theBoard, boardOf, Registered, apiVars
<1> DEFINE b == addr[k]
<1>3. b \in Brokers
  BY <1>0, <1>1 DEF LibTypeOK, Built
<1>4. CASE handler' = handler /\ on_message(k)
  BY <1>0, <1>4, BoardFrame, StutterSteps DEF Stutter, on_message, apiVars
<1>5. ASSUME m_mqttClientIns[b] = k, NEW h, handler' = [handler EXCEPT ![k] = h]
      PROVE  theHand' = [theHand EXCEPT ![b] = IF h.kind = "message" THEN {Held(h)} ELSE {}]
  <2>0. PICK c \in Brokers : c = b
    BY <1>3
  <2>1. \A d \in Brokers \ {c} : inHandOf(d)' = inHandOf(d)
    <3>1. \A j \in Clients \ {k} : m_topicMsg'[j] = m_topicMsg[j] /\ handler'[j] = handler[j]
      BY <1>0, <1>5 DEF TypeOK
    <3> QED BY <1>0, <1>5, <2>0, <3>1, OneBoard DEF Registered, apiVars
  <2>2. inHandOf(c)' = IF h.kind = "message" THEN {Held(h)} ELSE {}
    BY <1>0, <1>5, <2>0, NoneAssumption DEF inHandOf, Holding, Held, Registered, apiVars, TypeOK
  <2> QED BY <2>0, <2>1, <2>2 DEF theHand
<1>6. CASE on_message(k) /\ handler' # handler
  <2> DEFINE p == Head(inn[k])
  <2>1. p.topic \in Topics /\ p.msg \in Msgs
    BY <1>0, <1>6, HeadPacket, PacketFields DEF on_message, Reads, LibTypeOK
  <2>2. PICK r \in Lookup(k, p.topic) :
          handler' = [handler EXCEPT ![k] = IF r = None THEN Idle
            ELSE [kind |-> "message", topic |-> p.topic, msg |-> p.msg, result |-> r]]
    BY <1>6 DEF on_message
  <2> DEFINE h == [kind |-> "message", topic |-> p.topic, msg |-> p.msg, result |-> r]
  <2>3. handler[k] = Idle /\ r # None
    BY <1>0, <1>6, <2>2 DEF on_message, TypeOK
  <2>4. r = m_topicMsg[k][p.topic] /\ m_topicMsg[k] # BareTopics
    BY <2>1, <2>2, <2>3 DEF Lookup, BareTopics
  <2>5. m_mqttClientIns[b] = k
    BY <1>1, <2>4 DEF BoardInv, OwnedInv, BareInv
  <2>6. theBoard[b][p.topic] = r
    BY <1>3, <2>4, <2>5, NoneAssumption DEF theBoard, boardOf, Registered
  <2>7. theHand[b] = {}
    <3>1. handler[k].kind # "message"
      BY <2>3 DEF Idle
    <3> QED BY <1>3, <2>5, <3>1 DEF theHand, inHandOf, Holding, Registered
  <2>8. handler' = [handler EXCEPT ![k] = h]
    BY <2>2, <2>3
  <2>9. theHand' = [theHand EXCEPT ![b] = {Held(h)}]
    <3>1. h.kind = "message"
      OBVIOUS
    <3> HIDE DEF h, b
    <3> QED BY <1>5, <2>5, <2>8, <3>1
  <2>10. Held(h) = [topic |-> p.topic, msg |-> p.msg, result |-> theBoard[b][p.topic]]
    BY <2>6 DEF Held
  <2>11. UNCHANGED <<mail, promised, Asking>>
    BY <1>0, <1>6 DEF on_message, apiVars
  <2>12. Board!Take(b, p.topic, p.msg)
    <3> HIDE DEF h, p, b
    <3> QED BY <1>2, <2>6, <2>3, <2>7, <2>9, <2>10, <2>11 DEF Board!Take, theBoard, theHand
  <2> QED BY <1>3, <2>1, <2>12 DEF Board!Next
<1>7. CASE on_message_store(k)
  <2> DEFINE h == handler[k]
  <2>1. h.kind = "message" /\ handler' = [handler EXCEPT ![k] = Idle] /\ Idle.kind # "message"
        /\ mail' = [mail EXCEPT ![h.result] = [topic |-> h.topic, msg |-> h.msg]]
    BY <1>7 DEF on_message_store, Stored, Idle
  <2>2. m_mqttClientIns[b] = k
    BY <1>1, <2>1 DEF BoardInv, OwnedInv, BareInv
  <2>3. theHand' = [theHand EXCEPT ![b] = {}]
    BY <1>5, <2>1, <2>2
  <2>4. theHand[b] = {Held(h)}
    BY <1>3, <2>1, <2>2, NoneAssumption DEF theHand, inHandOf, Holding, Registered
  <2>5. <<b, h.topic, h.result>> \in promised \cup Asking
    BY <2>1 DEF BoardInv, HandInv, Granted, Asking
  <2>6. promised' = promised
    BY <1>0 DEF apiVars
  <2>7. Held(h).topic = h.topic /\ Held(h).result = h.result /\ Held(h).msg = h.msg
    BY DEF Held
  <2>8. Board!Write(b)
    <3> HIDE DEF h, b
    <3> QED BY <1>0, <1>2, <2>1, <2>3, <2>4, <2>5, <2>6, <2>7 DEF Board!Write, theBoard, theHand
  <2> QED BY <1>3, <2>8 DEF Board!Next
<1> QED BY <1>4, <1>6, <1>7

LEMMA BoardStep == Inv /\ BoardInv /\ [Next]_vars => [Board!Next]_(Board!boardVars)
<1> SUFFICES ASSUME Inv, BoardInv, [Next]_vars PROVE [Board!Next]_(Board!boardVars)
  OBVIOUS
<1> USE DEF Goto, Return, SameCall
<1>0. TypeOK /\ CallInv /\ (call # NoCall => call.addr \in Brokers)
  BY CallFields DEF Inv
<1>1. CASE Plain /\ ~UserCalls /\ ~Finish
  <2>1. UNCHANGED <<m_mqttClientIns, m_topicMsg, handler, mail>>
    BY <1>1, PlainFrame
  <2>2. promised' = promised
    BY <1>1 DEF Plain, vars, apiVars, initMqttData, ConnectKnown, ConnectUsable, SetConnecting, LoopStart,
      SubscribeFind, SubscribeSend, SendOr, toPublishTopicMsg, UnsubscribeFind, UnsubscribeSend, Disconnect,
      LoopStop, setReconnectCfg
  <2>3. Asking' = Asking
    <3>1. CASE ConnectKnown \/ UnsubscribeFind \/ Disconnect
      <4>1. call # NoCall /\ Found \in Clients \cup {None} /\ call' = [call EXCEPT !.client = Found]
        BY <1>0, <3>1 DEF ConnectKnown, UnsubscribeFind, Disconnect, CallInv, TypeOK, Found
      <4> QED BY <1>0, <4>1, AskingKept
    <3>2. CASE call' = call
      BY <3>2 DEF Asking
    <3> QED BY <1>1, <3>1, <3>2 DEF Plain, vars, apiVars, initMqttData, ConnectUsable, SetConnecting,
          LoopStart, SubscribeFind, SubscribeSend, toPublishTopicMsg, UnsubscribeSend, LoopStop, setReconnectCfg
  <2> QED BY <2>1, <2>2, <2>3, BoardFrame, StutterSteps DEF Stutter
<1>2. CASE Environment
  BY <1>2, EnvironmentFrame, BoardFrame, StutterSteps DEF Stutter, apiVars, clientVars, Asking
<1>3. ASSUME NEW k \in Clients, LoopStep(k), ~on_message(k), ~on_message_store(k)
      PROVE  [Board!Next]_(Board!boardVars)
  <2>1. UNCHANGED <<apiVars, m_topicMsg, mail>> /\ Asking' = Asking
    BY <1>3, LoopTopics DEF LoopStep, on_connect, on_subscribe, on_disconnect, on_disconnect_reconnect,
       LoopRetry, apiVars, clientVars, Asking
  <2>2. \A j \in Clients : handler'[j] # handler[j] =>
          handler[j].kind # "message" /\ handler'[j].kind # "message"
    BY <1>0, <1>3 DEF LoopStep, on_connect, on_subscribe, on_disconnect, on_disconnect_reconnect,
       LoopRetry, clientVars, TypeOK, Idle, Reconnecting
  <2>3. theBoard' = theBoard
    BY <2>1 DEF theBoard, boardOf, Registered, apiVars
  <2>4. \A b \in Brokers : inHandOf(b)' = inHandOf(b)
    <3> SUFFICES ASSUME NEW b \in Brokers PROVE inHandOf(b)' = inHandOf(b)
      OBVIOUS
    <3>1. Registered(b)' = Registered(b) /\ (Registered(b) # None => Registered(b) \in Clients)
      BY <1>0, <2>1 DEF Registered, apiVars, TypeOK
    <3> QED BY <2>2, <3>1 DEF inHandOf, Holding, Held
  <2>5. theHand' = theHand /\ promised' = promised
    BY <2>1, <2>4 DEF theHand, apiVars
  <2> QED BY <2>1, <2>3, <2>5, StutterSteps DEF Stutter
<1> QED
  BY <1>1, <1>2, <1>3, NextCases, BoardCalls, BoardEdits, BoardClients, BoardMessages

\* Subscribing promises what TopicBoard says, whatever the connections do.
THEOREM Implements == Spec => ImplementsTopicBoard
<1>1. Init => Board!Init
  BY DEF Init, Board!Init, Board!Bare, boardOf, inHandOf, Holding, Registered, Asking, NoCall, Empty
<1> QED
  BY <1>1, BoardStep, Invariance, BoardInvariance, PTL DEF Spec, ImplementsTopicBoard, Board!Spec
=============================================================================
