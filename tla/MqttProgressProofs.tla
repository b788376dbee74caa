-------------------------- MODULE MqttProgressProofs --------------------------
(***************************************************************************)
(* That nothing in MqttClients waits for what will not come: the safety    *)
(* that EveryCallReturns and Reconnects rest on, for any number of         *)
(* brokers, clients, topics, messages and results.                         *)
(***************************************************************************)
EXTENDS MqttClientsProofs

\* What a network thread has still to act on.
Hearing(k) == Broken(k) \/ Queued(out[k], "CONNECT") \/ Queued(inn[k], "CONNACK")
Stopped(k) == Broken(k) \/ Queued(out[k], "DISCONNECT")

\* A thread has a socket; until the connection is confirmed or refused that is
\* under way, a request to stop is under way too, and it ends for no other reason.
Progress(k) ==
  /\ loop[k] = "running" => link[k] # "closed"
  /\ (loop[k] \in {"none", "running"} /\ link[k] = "open") => Hearing(k)
  /\ (stopping[k] /\ loop[k] = "running") => Stopped(k)
  /\ loop[k] = "ended" => stopping[k]
  /\ loop[k] = "none" => ~stopping[k]
ThreadInv == \A k \in Clients : Progress(k)

\* A client comes into the map with a thread, and is joined once asked to stop.
JoinInv ==
  /\ pc = "loopStart" => link[k0] # "closed"
  /\ pc = "insert" => loop[k0] # "none"
  /\ \A b \in Brokers : Client(b) # None => loop[Client(b)] # "none"
  /\ pc = "loopStop" => stopping[k0]

-----------------------------------------------------------------------------
(* Queues.                                                                  *)

LEMMA QueuedAppend ==
  ASSUME NEW q \in Seq(Packet), NEW p \in Packet, NEW ty
  PROVE  Queued(Append(q, p), ty) <=> Queued(q, ty) \/ p.type = ty
<1>1. /\ Len(Append(q, p)) = Len(q) + 1
      /\ \A i \in 1..Len(q) : Append(q, p)[i] = q[i]
      /\ Append(q, p)[Len(q) + 1] = p
  OBVIOUS
<1>2. Queued(q, ty) => Queued(Append(q, p), ty)
  BY <1>1 DEF Queued
<1>3. p.type = ty => Queued(Append(q, p), ty)
  BY <1>1 DEF Queued
<1>4. Queued(Append(q, p), ty) => Queued(q, ty) \/ p.type = ty
  BY <1>1 DEF Queued
<1> QED BY <1>2, <1>3, <1>4

LEMMA QueuedTail ==
  ASSUME NEW q \in Seq(Packet), q # <<>>, NEW ty, Queued(q, ty), Head(q).type # ty
  PROVE  Queued(Tail(q), ty)
<1>1. PICK i \in 1..Len(q) : q[i].type = ty
  BY DEF Queued
<1>2. i # 1
  BY <1>1
<1>3. i - 1 \in 1..Len(Tail(q)) /\ Tail(q)[i - 1] = q[i]
  BY <1>2
<1> QED BY <1>1, <1>3 DEF Queued

LEMMA QueuedConcat ==
  ASSUME NEW q \in Seq(Packet), NEW r \in Seq(Packet), NEW ty, Queued(q, ty)
  PROVE  Queued(q \o r, ty)
<1>1. PICK i \in 1..Len(q) : q[i].type = ty
  BY DEF Queued
<1>2. i \in 1..Len(q \o r) /\ (q \o r)[i] = q[i]
  OBVIOUS
<1> QED BY <1>1, <1>2 DEF Queued

LEMMA QueuedOne ==
  ASSUME NEW p \in Packet PROVE Queued(<<p>>, p.type)
<1>1. Len(<<p>>) = 1 /\ <<p>>[1] = p
  OBVIOUS
<1> QED BY <1>1 DEF Queued

\* What is kept while a client's socket and thread stay as they are.
Kept(k) ==
  /\ Broken(k) => Broken(k)'
  /\ Hearing(k) => Hearing(k)'
  /\ Stopped(k) => Stopped(k)'
LEMMA ProgressKept ==
  ASSUME NEW k \in Clients, Progress(k), Kept(k),
         link'[k] = link[k], loop'[k] = loop[k], stopping'[k] = stopping[k]
  PROVE  Progress(k)'
BY Zenon DEF Progress, Kept

LEMMA SameKept ==
  ASSUME NEW k \in Clients, out'[k] = out[k], inn'[k] = inn[k]
  PROVE  Kept(k)
BY DEF Kept, Hearing, Stopped, Broken, Queued

\* It is kept while the packets that matter stay where they are.
LEMMA PacketsKept ==
  ASSUME NEW k \in Clients,
         \A ty \in {"CONNECT", "DISCONNECT"} : Queued(out[k], ty) => Queued(out'[k], ty),
         \A ty \in {"EOF", "CONNACK"} : Queued(inn[k], ty) => Queued(inn'[k], ty)
  PROVE  Kept(k)
<1>1. Broken(k) <=> Queued(inn[k], "EOF")
  BY DEF Broken, Queued
<1>2. Broken(k)' <=> Queued(inn'[k], "EOF")
  BY DEF Broken, Queued
<1>3. /\ Queued(out[k], "CONNECT")' <=> Queued(out'[k], "CONNECT")
      /\ Queued(out[k], "DISCONNECT")' <=> Queued(out'[k], "DISCONNECT")
      /\ Queued(inn[k], "CONNACK")' <=> Queued(inn'[k], "CONNACK")
  BY DEF Queued
<1> QED BY <1>1, <1>2, <1>3 DEF Kept, Hearing, Stopped

-----------------------------------------------------------------------------
(* A thread goes on having something to act on.                             *)

\* The steps of the network thread.
LEMMA ThreadLoop ==
  ASSUME Inv, ConnectionInv, ThreadInv, NEW k \in Clients, NEW j \in Clients, LoopStep(j)
  PROVE  Progress(k)'
<1>0. /\ TypeOK /\ LibTypeOK /\ CallbackInv /\ Progress(k) /\ Connection(k)
      /\ out[k] \in Seq(Packet) /\ inn[k] \in Seq(Packet)
  BY DEF Inv, TypeOK, LibTypeOK, ConnectionInv, ThreadInv
<1>1. CASE on_message_store(j)
  <2>1. UNCHANGED libVars
    BY <1>1 DEF on_message_store
  <2> QED BY <2>1, ProgressKept, SameKept DEF libVars, ThreadInv
<1>2. CASE on_connect(j) \/ on_subscribe(j) \/ on_message(j)
  <2>1. PICK l \in LinkStates, ty \in {"CONNACK", "REFUSED", "SUBACK", "PUBLISH"} :
          /\ LibReceive(j, l) /\ HeadIs(inn[j], ty) /\ loop[j] = "running"
          /\ l = IF ty = "CONNACK" THEN "acked" ELSE link[j]
    BY <1>0, <1>2 DEF on_connect, on_subscribe, on_message, Reads, LibTypeOK, LinkStates
  <2>2. CASE j # k
    <3>1. /\ out'[k] = out[k] /\ inn'[k] = inn[k]
          /\ link'[k] = link[k] /\ loop'[k] = loop[k] /\ stopping'[k] = stopping[k]
      BY <1>0, <2>1, <2>2 DEF LibReceive, LibTypeOK
    <3> QED BY <1>0, <3>1, ProgressKept, SameKept
  <2>3. CASE j = k
    <3>1. /\ inn[k] # <<>> /\ Head(inn[k]).type = ty /\ inn'[k] = Tail(inn[k]) /\ link'[k] = l
          /\ UNCHANGED <<out, loop, stopping>> /\ loop[k] = "running"
      BY <1>0, <2>1, <2>3 DEF LibReceive, LibTypeOK, HeadIs
    <3>2. Queued(inn[k], "EOF") => Queued(inn'[k], "EOF")
      BY <1>0, <2>1, <3>1, QueuedTail
    <3>3. CASE ty = "CONNACK"
      <4>1. Broken(k) => Broken(k)'
        BY <3>2 DEF Broken, Queued
      <4>2. Queued(out[k], "DISCONNECT") => Queued(out[k], "DISCONNECT")'
        BY <3>1
      <4> QED BY <1>0, <2>1, <3>1, <3>3, <4>1, <4>2 DEF Progress, Stopped
    <3>4. CASE ty # "CONNACK"
      <4>1. Queued(inn[k], "CONNACK") => Queued(inn'[k], "CONNACK")
        BY <1>0, <3>1, <3>4, QueuedTail
      <4>2. Kept(k)
        BY <3>1, <3>2, <4>1, PacketsKept
      <4> QED BY <1>0, <2>1, <2>3, <3>1, <3>4, <4>2, ProgressKept
    <3> QED BY <3>3, <3>4
  <2> QED BY <2>2, <2>3
<1>3. CASE on_disconnect(j)
  <2>1. CASE j # k
    <3>1. LibClose(j, "ended") \/ LibClose(j, "backoff")
      BY <1>3 DEF on_disconnect
    <3>2. /\ out'[k] = out[k] /\ inn'[k] = inn[k]
          /\ link'[k] = link[k] /\ loop'[k] = loop[k] /\ stopping'[k] = stopping[k]
      BY <1>0, <2>1, <3>1 DEF LibClose, LibTypeOK
    <3> QED BY <1>0, <3>2, ProgressKept, SameKept
  <2>2. CASE j = k
    <3>1. stopping' = stopping /\ loop'[k] = IF stopping[k] THEN "ended" ELSE "backoff"
      BY <1>0, <1>3, <2>2 DEF on_disconnect, LibClose, LibTypeOK
    <3> QED BY <3>1 DEF Progress
  <2> QED BY <2>1, <2>2
<1>4. CASE on_disconnect_reconnect(j)
  <2>1. loop[j] = "backoff"
    BY <1>0, <1>4 DEF on_disconnect_reconnect, CallbackInv
  <2>2. /\ UNCHANGED <<loop, out, inn, stopping>>
        /\ \E l \in {"open", "closed"} : link' = [link EXCEPT ![j] = l]
    BY <1>4, Zenon DEF on_disconnect_reconnect, LibReopen
  <2>3. CASE j # k
    <3>1. link'[k] = link[k]
      BY <1>0, <2>2, <2>3 DEF LibTypeOK
    <3> QED BY <1>0, <2>2, <3>1, ProgressKept, SameKept
  <2>4. CASE j = k
    BY <2>1, <2>2, <2>4 DEF Progress
  <2> QED BY <2>3, <2>4
<1>5. CASE LoopRetry(j)
  <2>1. /\ loop[j] = "backoff" /\ UNCHANGED <<stopping, inn>>
        /\ \/ stopping[j] /\ loop' = [loop EXCEPT ![j] = "ended"] /\ UNCHANGED <<link, out>>
           \/ /\ ~stopping[j] /\ loop' = [loop EXCEPT ![j] = "running"]
              /\ link' = [link EXCEPT ![j] = "open"]
              /\ out' = [out EXCEPT ![j] = <<Pkt("CONNECT")>>]
           \/ link' = [link EXCEPT ![j] = "closed"] /\ UNCHANGED <<loop, out>>
    BY <1>5 DEF LoopRetry, LibRetry
  <2>2. CASE j # k
    <3>1. /\ out'[k] = out[k] /\ inn'[k] = inn[k]
          /\ link'[k] = link[k] /\ loop'[k] = loop[k] /\ stopping'[k] = stopping[k]
      BY <1>0, <2>1, <2>2 DEF LibTypeOK
    <3> QED BY <1>0, <3>1, ProgressKept, SameKept
  <2>3. CASE j = k
    <3>1. CASE loop'[k] = "running"
      <4>1. ~stopping[k] /\ link'[k] = "open" /\ out'[k] = <<Pkt("CONNECT")>>
        BY <1>0, <2>1, <2>3, <3>1 DEF LibTypeOK
      <4>2. Queued(out[k], "CONNECT")'
        BY <4>1, PacketTypes, QueuedOne DEF Pkt
      <4> QED BY <2>1, <3>1, <4>1, <4>2 DEF Progress, Hearing
    <3>2. CASE loop'[k] # "running"
      <4>1. loop'[k] = "backoff" \/ (loop'[k] = "ended" /\ stopping[k])
        BY <1>0, <2>1, <2>3, <3>2 DEF LibTypeOK
      <4> QED BY <2>1, <4>1 DEF Progress
    <3> QED BY <3>1, <3>2
  <2> QED BY <2>2, <2>3
<1> QED BY <1>1, <1>2, <1>3, <1>4, <1>5 DEF LoopStep

\* The steps of the network and of the brokers.
LEMMA ThreadNetwork ==
  ASSUME Inv, ConnectionInv, ThreadInv, NEW k \in Clients, Environment
  PROVE  Progress(k)'
<1>0. /\ TypeOK /\ LibTypeOK /\ Progress(k) /\ Connection(k)
      /\ \A i \in Clients : out[i] # <<>> => Built(i)
      /\ out[k] \in Seq(Packet) /\ inn[k] \in Seq(Packet)
      /\ LibTypeOK'
  <2>1. \A i \in Clients : out[i] # <<>> => Built(i)
    BY DEF Inv, FreshInv, Fresh
  <2> QED BY <2>1, NetworkType DEF Inv, TypeOK, LibTypeOK, ConnectionInv, ThreadInv, Environment
<1>1. link'[k] = link[k] /\ loop'[k] = loop[k]
  BY EnvironmentFrame
<1>2. stopping' = stopping
  BY DEF Environment, Network, BrokerStep, BrokerAccept, BrokerRefuse, BrokerSubscribe,
         BrokerUnsubscribe, BrokerPublish, BrokerReads, LoseConnection, OthersPublish
<1>3. ASSUME Kept(k) PROVE Progress(k)'
  BY <1>0, <1>1, <1>2, <1>3, ProgressKept
<1>4. ASSUME Broken(k)' PROVE Progress(k)'
  BY <1>0, <1>1, <1>2, <1>4 DEF Progress, Hearing, Stopped
\* A packet that only a broker reads goes, and packets come after those of inn.
<1>5. ASSUME \/ out'[k] = out[k]
             \/ /\ out[k] # <<>> /\ out'[k] = Tail(out[k])
                /\ Head(out[k]).type \in {"SUBSCRIBE", "UNSUBSCRIBE", "PUBLISH"},
             \/ inn'[k] = inn[k]
             \/ \E q \in Seq(Packet) : inn'[k] = inn[k] \o q
      PROVE  Progress(k)'
  <2>1. \A ty \in {"CONNECT", "DISCONNECT"} : Queued(out[k], ty) => Queued(out'[k], ty)
    BY <1>0, <1>5, QueuedTail
  <2>2. \A ty \in {"EOF", "CONNACK"} : Queued(inn[k], ty) => Queued(inn'[k], ty)
    BY <1>0, <1>5, QueuedConcat
  <2> QED BY <1>3, <2>1, <2>2, PacketsKept
<1>6. ASSUME NEW t \in Topics, NEW m \in Msgs, NEW b, Route(b, t, m),
             \/ out'[k] = out[k]
             \/ /\ out[k] # <<>> /\ out'[k] = Tail(out[k])
                /\ Head(out[k]).type \in {"SUBSCRIBE", "UNSUBSCRIBE", "PUBLISH"}
      PROVE  Progress(k)'
  <2>1. inn'[k] = inn[k] \/ inn'[k] = Append(inn[k], Pub(t, m))
    BY <1>6 DEF Route
  <2>2. <<Pub(t, m)>> \in Seq(Packet) /\ Append(inn[k], Pub(t, m)) = inn[k] \o <<Pub(t, m)>>
    BY <1>0, PacketTypes
  <2> QED BY <1>5, <1>6, <2>1, <2>2
<1>7. ASSUME NEW j \in Clients, BrokerAccept(j) PROVE Progress(k)'
  <2>1. CASE j # k
    BY <1>0, <1>3, <1>7, <2>1, SameKept DEF BrokerAccept, BrokerReads, LibTypeOK
  <2>2. CASE j = k
    <3>1. /\ out[k] # <<>> /\ Head(out[k]).type = "CONNECT" /\ out'[k] = Tail(out[k])
          /\ inn'[k] = Append(inn[k], Pkt("CONNACK"))
      BY <1>0, <1>7, <2>2 DEF BrokerAccept, BrokerReads, HeadIs, LibTypeOK
    <3>2. Queued(out[k], "DISCONNECT") => Queued(out'[k], "DISCONNECT")
      BY <1>0, <3>1, QueuedTail
    <3>3. Queued(inn'[k], "CONNACK") /\ (Queued(inn[k], "EOF") => Queued(inn'[k], "EOF"))
      BY <1>0, <3>1, PacketTypes, QueuedAppend DEF Pkt
    <3>4. Hearing(k)' /\ (Stopped(k) => Stopped(k)')
      BY <3>2, <3>3 DEF Hearing, Stopped, Broken, Queued
    <3> QED BY <1>0, <1>1, <1>2, <3>4 DEF Progress
  <2> QED BY <2>1, <2>2
<1>8. ASSUME NEW j \in Clients, BrokerRefuse(j) PROVE Progress(k)'
  <2>1. CASE j # k
    BY <1>0, <1>3, <1>8, <2>1, SameKept DEF BrokerRefuse, LibTypeOK
  <2>2. CASE j = k
    <3> DEFINE q == <<Pkt("REFUSED"), Pkt("EOF")>>
    <3>1. inn'[k] = inn[k] \o q
      BY <1>0, <1>8, <2>2 DEF BrokerRefuse, LibTypeOK
    <3>2. q \in Seq(Packet)
      BY PacketTypes
    <3>3. Len(inn'[k]) = Len(inn[k]) + 2 /\ inn'[k][Len(inn[k]) + 2] = Pkt("EOF")
      BY <1>0, <3>1, <3>2
    <3>4. Broken(k)'
      BY <1>0, <3>3 DEF Broken, Pkt
    <3> QED BY <1>4, <3>4
  <2> QED BY <2>1, <2>2
<1>9. ASSUME NEW j \in Clients, BrokerSubscribe(j) PROVE Progress(k)'
  <2> DEFINE t == Head(out[j]).topic
             m == retained[addr[j]][t]
             q == IF m = None THEN <<>> ELSE <<Pub(t, m)>>
             s == <<Pkt("SUBACK")>>
  <2>1. HeadIs(out[j], "SUBSCRIBE") /\ out' = [out EXCEPT ![j] = Tail(@)]
    BY <1>9, Zenon DEF BrokerSubscribe, BrokerReads
  <2>2. PICK x : /\ inn' = [inn EXCEPT ![j] = x]
                 /\ x = (inn[j] \o s) \o q \/ x = Append(inn[j], Pkt("SUBACK"))
    BY <1>9, SubscribeAnswers, Zenon
  <2>3. CASE j # k
    BY <1>0, <1>3, <2>1, <2>2, <2>3, SameKept DEF LibTypeOK
  <2>4. CASE j = k
    <3>1. t \in Topics /\ (m = None \/ m \in Msgs)
      BY <1>0, <2>1, <2>4, HeadPacket, PacketFields DEF HeadIs, LibTypeOK, Built
    <3>2. q \in Seq(Packet) /\ s \in Seq(Packet)
      <4> HIDE DEF t, m
      <4>1. m # None => Pub(t, m) \in Packet
        BY <3>1, PacketTypes
      <4> QED BY <4>1, PacketTypes
    <3>3. inn'[k] = x
      BY <1>0, <2>2, <2>4 DEF LibTypeOK
    <3>4. \E r \in Seq(Packet) : inn'[k] = inn[k] \o r
      <4> DEFINE u == inn[k]
      <4>1. Append(inn[k], Pkt("SUBACK")) = inn[k] \o s
        BY <1>0
      <4>2. u \in Seq(Packet)
        BY <1>0
      <4> HIDE DEF q, s, u
      <4>3. (u \o s) \o q = u \o (s \o q) /\ s \o q \in Seq(Packet)
        BY ONLY <3>2, <4>2
      <4> USE DEF u
      <4> QED BY <2>2, <2>4, <3>2, <3>3, <4>1, <4>3
    <3>5. out[k] # <<>> /\ out'[k] = Tail(out[k]) /\ Head(out[k]).type = "SUBSCRIBE"
      BY <1>0, <2>1, <2>4 DEF HeadIs, LibTypeOK
    <3> QED BY <1>5, <3>4, <3>5
  <2> QED BY <2>3, <2>4
<1>10. ASSUME NEW j \in Clients, BrokerUnsubscribe(j) PROVE Progress(k)'
  <2>1. HeadIs(out[j], "UNSUBSCRIBE") /\ out' = [out EXCEPT ![j] = Tail(@)] /\ inn' = inn
    BY <1>10 DEF BrokerUnsubscribe, BrokerReads
  <2>2. \/ out'[k] = out[k]
        \/ out[k] # <<>> /\ out'[k] = Tail(out[k]) /\ Head(out[k]).type = "UNSUBSCRIBE"
    BY <1>0, <2>1 DEF HeadIs, LibTypeOK
  <2> QED BY <1>5, <2>1, <2>2
<1>11. ASSUME NEW j \in Clients, BrokerPublish(j) PROVE Progress(k)'
  <2> DEFINE p == Head(out[j])
  <2>1. HeadIs(out[j], "PUBLISH") /\ out[j] \in Seq(Packet) /\ out' = [out EXCEPT ![j] = Tail(@)]
    BY <1>0, <1>11 DEF BrokerPublish, BrokerReads, LibTypeOK
  <2>2. p.topic \in Topics /\ p.msg \in Msgs
    BY <2>1, HeadPacket, PacketFields
  <2>3. Route(addr[j], p.topic, p.msg)
    BY <1>11 DEF BrokerPublish
  <2>4. \/ out'[k] = out[k]
        \/ out[k] # <<>> /\ out'[k] = Tail(out[k]) /\ Head(out[k]).type = "PUBLISH"
    BY <1>0, <2>1 DEF HeadIs, LibTypeOK
  <2> QED BY <1>6, <2>2, <2>3, <2>4
<1>12. ASSUME NEW j \in Clients, LoseConnection(j) PROVE Progress(k)'
  <2>1. CASE j # k
    <3>1. \E x : inn' = [inn EXCEPT ![j] = x]
      BY <1>12, Zenon DEF LoseConnection
    <3>2. out' = [out EXCEPT ![j] = <<>>]
      BY <1>12 DEF LoseConnection
    <3>3. inn'[k] = inn[k] /\ out'[k] = out[k]
      BY <1>0, <2>1, <3>1, <3>2 DEF LibTypeOK
    <3> QED BY <1>3, <3>3, SameKept
  <2>2. CASE j = k
    <3>1. PICK n \in 0..Len(inn[k]) : inn'[k] = Append(SubSeq(inn[k], 1, n), Pkt("EOF"))
      BY <1>0, <1>12, <2>2 DEF LoseConnection, LibTypeOK
    <3> DEFINE u == SubSeq(inn[k], 1, n)
    <3>2. u \in Seq(Packet) /\ Pkt("EOF") \in Packet /\ Pkt("EOF").type = "EOF"
      BY <1>0, PacketTypes DEF Pkt
    <3> HIDE DEF u
    <3>3. Queued(Append(u, Pkt("EOF")), "EOF")
      BY <3>2, QueuedAppend
    <3>4. Queued(inn'[k], "EOF")
      BY <3>1, <3>3 DEF u
    <3>5. Broken(k)'
      BY <3>4 DEF Broken, Queued
    <3> QED BY <1>4, <3>5
  <2> QED BY <2>1, <2>2
<1>13. ASSUME NEW b \in Brokers, NEW t \in Topics, NEW m \in Msgs, OthersPublish(b, t, m)
       PROVE  Progress(k)'
  BY <1>6, <1>13 DEF OthersPublish
<1> QED BY <1>7, <1>8, <1>9, <1>10, <1>11, <1>12, <1>13 DEF Environment, Network, BrokerStep

\* The steps of the API thread that build clients, start threads, queue packets or
\* destroy clients.
LEMMA ThreadCalls ==
  ASSUME Inv, ThreadInv, JoinInv, NEW k \in Clients,
         \/ ConnectNew \/ DropClient \/ Unregister \/ LoopStart
         \/ SubscribeSend \/ toPublishTopicMsg \/ UnsubscribeSend \/ Disconnect
  PROVE  Progress(k)'
<1>0. /\ TypeOK /\ LibTypeOK /\ CallInv /\ Progress(k)
      /\ out[k] \in Seq(Packet) /\ inn[k] \in Seq(Packet)
      /\ \A i \in Clients : ~Built(i) => Fresh(i)
  BY DEF Inv, TypeOK, LibTypeOK, ThreadInv, FreshInv
<1>1. CASE ConnectNew
  <2>1. PICK j \in Clients, ok \in BOOLEAN :
          ~Built(j) /\ LibConnect(j, call.addr, g_clientId, cleanSession(g_clientId), ok)
    BY <1>1 DEF ConnectNew
  <2>2. CASE j # k
    <3>1. /\ out'[k] = out[k] /\ inn'[k] = inn[k]
          /\ link'[k] = link[k] /\ loop'[k] = loop[k] /\ stopping'[k] = stopping[k]
      BY <1>0, <2>1, <2>2 DEF LibConnect, LibTypeOK
    <3> QED BY <1>0, <3>1, ProgressKept, SameKept
  <2>3. CASE j = k
    <3>1. loop'[k] = "none" /\ ~stopping'[k]
      BY <1>0, <2>1, <2>3 DEF LibConnect, Fresh, Progress
    <3>2. link'[k] = "open" => out'[k] = <<Pkt("CONNECT")>>
      BY <1>0, <2>1, <2>3 DEF LibConnect, LibTypeOK
    <3>3. link'[k] = "open" => Queued(out[k], "CONNECT")'
      BY <3>2, PacketTypes, QueuedOne DEF Pkt
    <3> QED BY <3>1, <3>3 DEF Progress, Hearing
  <2> QED BY <2>2, <2>3
<1>2. CASE DropClient \/ Unregister
  <2>1. LibDestroy(k0)
    BY <1>2 DEF DropClient, Unregister, Destroy
  <2>2. CASE k0 # k
    <3>1. /\ out'[k] = out[k] /\ inn'[k] = inn[k]
          /\ link'[k] = link[k] /\ loop'[k] = loop[k] /\ stopping'[k] = stopping[k]
      BY <1>0, <2>1, <2>2 DEF LibDestroy, LibTypeOK
    <3> QED BY <1>0, <3>1, ProgressKept, SameKept
  <2>3. CASE k0 = k
    BY <1>0, <2>1, <2>3 DEF LibDestroy, LibTypeOK, Progress
  <2> QED BY <2>2, <2>3
<1>3. CASE LoopStart
  <2>1. k0 \in Clients /\ loop[k0] = "none" /\ link[k0] # "closed"
    BY <1>0, <1>3 DEF LoopStart, CallInv, Building, JoinInv
  <2>2. /\ UNCHANGED <<link, stopping, out, inn>>
        /\ \E l \in {"running", "failed"} : loop' = [loop EXCEPT ![k0] = l]
    BY <1>3 DEF LoopStart, LibLoopStart
  <2>3. CASE k0 # k
    <3>1. loop'[k] = loop[k]
      BY <1>0, <2>2, <2>3 DEF LibTypeOK
    <3> QED BY <1>0, <2>2, <3>1, ProgressKept, SameKept
  <2>4. CASE k0 = k
    <3>1. Hearing(k) => Hearing(k)'
      BY <2>2 DEF Hearing, Broken, Queued
    <3>2. loop'[k] \in {"running", "failed"}
      BY <1>0, <2>2, <2>4 DEF LibTypeOK
    <3> QED BY <1>0, <2>1, <2>2, <2>4, <3>1, <3>2 DEF Progress
  <2> QED BY <2>3, <2>4
<1>4. ASSUME NEW j \in Clients, NEW p \in Packet, Queues(j, p) PROVE Kept(k)
  <2>1. inn' = inn /\ (out'[k] = out[k] \/ out'[k] = Append(out[k], p))
    BY <1>0, <1>4 DEF Queues, LibTypeOK
  <2>2. \A ty \in {"CONNECT", "DISCONNECT"} : Queued(out[k], ty) => Queued(out'[k], ty)
    BY <1>0, <2>1, QueuedAppend
  <2> QED BY <2>1, <2>2, PacketsKept
<1>5. CASE SubscribeSend \/ toPublishTopicMsg \/ UnsubscribeSend
  <2>1. UNCHANGED stopping
    BY <1>5 DEF SubscribeSend, toPublishTopicMsg, UnsubscribeSend, SendOr, LibSend, libVars
  <2>2. CASE UNCHANGED libVars
    BY <1>0, <2>2, ProgressKept, SameKept DEF libVars
  <2>3. CASE ~UNCHANGED libVars
    <3>1. PICK j \in Clients, p \in Packet : Queues(j, p)
      BY <1>5, <2>3, SendsQueue
    <3>2. link' = link /\ loop' = loop
      BY <3>1 DEF Queues
    <3> QED BY <1>0, <1>4, <2>1, <3>1, <3>2, ProgressKept
  <2> QED BY <2>2, <2>3
<1>6. CASE Disconnect
  <2>1. CASE Found = None
    BY <1>0, <1>6, <2>1, ProgressKept, SameKept DEF Disconnect, libVars
  <2>2. CASE Found # None
    <3> DEFINE j == Found
    <3>1. j \in Clients /\ LibDisconnect(j) /\ loop[j] # "none"
      <4>1. call.addr \in Brokers
        BY <1>0, <1>6, CallFields DEF Disconnect, CallInv
      <4> QED BY <1>0, <1>6, <2>2, <4>1 DEF Disconnect, JoinInv, Client, Found, TypeOK
    <3>2. Queues(j, Pkt("DISCONNECT"))
      BY <3>1 DEF LibDisconnect, Queues
    <3>3. link' = link /\ loop' = loop /\ Kept(k)
      BY <1>4, <3>1, <3>2, PacketTypes DEF Queues
    <3> HIDE DEF j
    <3>4. CASE j # k
      <4>1. stopping'[k] = stopping[k]
        BY <1>0, <3>1, <3>4 DEF LibDisconnect, LibTypeOK
      <4> QED BY <1>0, <3>3, <4>1, ProgressKept
    <3>5. CASE j = k
      <4>1. stopping'[k]
        BY <1>0, <3>1, <3>5 DEF LibDisconnect, LibTypeOK
      <4>2. loop[k] = "running" => Stopped(k)'
        <5>1. CASE Broken(k)
          BY <3>3, <5>1 DEF Kept, Stopped
        <5>2. CASE loop[k] = "running" /\ ~Broken(k)
          <6>1. link[k] # "closed"
            BY <1>0, <5>2 DEF Progress
          <6>2. out'[k] = Append(out[k], Pkt("DISCONNECT"))
            BY <1>0, <3>1, <3>5, <5>2, <6>1 DEF LibDisconnect, LibTypeOK
          <6>3. Queued(out'[k], "DISCONNECT")
            BY <1>0, <6>2, PacketTypes, QueuedAppend DEF Pkt
          <6> QED BY <6>3 DEF Stopped, Queued
        <5> QED BY <5>1, <5>2
      <4> QED BY <1>0, <3>1, <3>3, <3>5, <4>1, <4>2, Zenon DEF Progress, Kept
    <3> QED BY <3>4, <3>5
  <2> QED BY <2>1, <2>2
<1> QED BY <1>1, <1>2, <1>3, <1>5, <1>6

LEMMA ThreadStep == Inv /\ ConnectionInv /\ ThreadInv /\ JoinInv /\ [Next]_vars => ThreadInv'
<1> SUFFICES ASSUME Inv, ConnectionInv, ThreadInv, JoinInv, [Next]_vars, NEW k \in Clients
             PROVE  Progress(k)'
  BY DEF ThreadInv
<1>1. CASE UNCHANGED libVars
  BY <1>1, ProgressKept, SameKept DEF libVars, ThreadInv
<1>2. CASE UNCHANGED vars
  BY <1>1, <1>2 DEF vars
<1> QED
  BY <1>1, <1>2, CallsFrame, ThreadLoop, ThreadNetwork, ThreadCalls
     DEF Next, ApiStep, toConnectBroker, toSubscribeTopic, toUnsubscribeTopic, toDisconnectBroker

LEMMA JoinStep == Inv /\ JoinInv /\ [Next]_vars => JoinInv'
<1> SUFFICES ASSUME Inv, JoinInv, [Next]_vars PROVE JoinInv'
  OBVIOUS
<1> USE DEF JoinInv, Client, k0
<1>0. /\ TypeOK /\ LibTypeOK /\ CallInv /\ CallbackInv /\ RegistryInv
      /\ \A i \in Clients : ~Built(i) => Fresh(i)
      /\ call # NoCall => call.addr \in Brokers
      /\ \A b \in Brokers : Client(b) # None => Client(b) \in Clients
  BY CallFields DEF Inv, TypeOK, FreshInv
<1>1. ASSUME UNCHANGED libVars, UNCHANGED <<m_mqttClientIns, call, pc>> PROVE JoinInv'
  BY <1>1 DEF libVars
<1>2. CASE UNCHANGED vars
  BY <1>1, <1>2 DEF vars, apiVars
<1>3. CASE ConnectNew
  <2>1. pc' = "setConnecting" /\ loop' = loop /\ m_mqttClientIns' = m_mqttClientIns
    BY <1>3 DEF ConnectNew, LibConnect, Goto
  <2> QED BY <2>1
<1>4. CASE DropClient \/ Unregister
  <2>1. k0 \in Clients /\ LibDestroy(k0) /\ pc' = "return" /\ call' = call
    BY <1>0, <1>4 DEF DropClient, Unregister, Destroy, Return, SameCall, CallInv, Building, Using
  <2>2. call # NoCall /\ call.addr \in Brokers
    BY <1>0, <1>4 DEF DropClient, Unregister, CallInv
  <2>3. ASSUME NEW b \in Brokers, Client(b)' # None PROVE Client(b)' = Client(b) /\ Client(b) # k0
    <3>1. CASE DropClient
      <4>1. m_mqttClientIns' = m_mqttClientIns /\ Found = None /\ addr[k0] = call.addr
        BY <1>0, <3>1 DEF DropClient, SameCall, CallInv, Building
      <4> QED BY <1>0, <2>3, <4>1 DEF RegistryInv, Found
    <3>2. CASE Unregister
      <4>1. m_mqttClientIns' = [m_mqttClientIns EXCEPT ![call.addr] = None] /\ Found = k0
        BY <1>0, <3>2 DEF Unregister, CallInv, Using
      <4>2. b # call.addr
        BY <1>0, <2>2, <2>3, <4>1 DEF TypeOK
      <4>3. Client(b)' = Client(b)
        BY <1>0, <4>1, <4>2 DEF TypeOK
      <4>4. addr[k0] = call.addr
        BY <1>0, <2>1, <2>2, <4>1, NoneAssumption DEF RegistryInv, Found
      <4> QED BY <1>0, <2>3, <4>2, <4>3, <4>4 DEF RegistryInv
    <3> QED BY <1>4, <3>1, <3>2
  <2>4. \A j \in Clients : j # k0 => loop'[j] = loop[j]
    BY <1>0, <2>1 DEF LibDestroy, LibTypeOK
  <2>5. ASSUME NEW b \in Brokers, Client(b)' # None PROVE loop'[Client(b)'] # "none"
    BY <1>0, <2>3, <2>4, <2>5
  <2> QED BY <2>1, <2>5
<1>5. CASE LoopStart
  <2>1. k0 \in Clients /\ pc' = "insert" /\ call' = call /\ m_mqttClientIns' = m_mqttClientIns
    BY <1>0, <1>5 DEF LoopStart, Goto, SameCall, CallInv, Building
  <2>2. \E l \in {"running", "failed"} : loop' = [loop EXCEPT ![k0] = l]
    BY <1>5 DEF LoopStart, LibLoopStart
  <2>3. loop'[k0] # "none" /\ \A j \in Clients : loop[j] # "none" => loop'[j] # "none"
    BY <1>0, <2>1, <2>2 DEF LibTypeOK
  <2> QED BY <1>0, <2>1, <2>3
<1>6. CASE Insert
  <2>1. /\ k0 \in Clients /\ call' = call /\ loop' = loop /\ link' = link /\ stopping' = stopping
        /\ m_mqttClientIns' = [m_mqttClientIns EXCEPT ![call.addr] = k0]
        /\ loop[k0] # "none" /\ pc' \in {"return", "find", "publish", "reconnectCfg"}
    BY <1>0, <1>6 DEF Insert, CallInv, Building, libVars, Goto, Return, AfterConnect
  <2>2. \A b \in Brokers : Client(b)' = Client(b) \/ Client(b)' = k0
    BY <1>0, <2>1 DEF TypeOK
  <2> QED BY <2>1, <2>2
<1>7. CASE SetConnecting
  <2>1. UNCHANGED libVars /\ UNCHANGED <<m_mqttClientIns, call>> /\ pc' \in {"drop", "loopStart"}
        /\ (pc' = "loopStart" => link[k0] # "closed")
    BY <1>7 DEF SetConnecting, Goto, SameCall
  <2> QED BY <2>1 DEF libVars
<1>8. CASE Disconnect
  <2>1. /\ m_mqttClientIns' = m_mqttClientIns /\ loop' = loop /\ pc' \in {"return", "loopStop"}
        /\ call' = [call EXCEPT !.client = Found]
    BY <1>8 DEF Disconnect, LibDisconnect, libVars, Goto, Return
  <2>2. ASSUME pc' = "loopStop" PROVE stopping'[call'.client]
    <3>1. Found # None /\ LibDisconnect(Found)
      BY <1>8, <2>2 DEF Disconnect, Return
    <3>2. call # NoCall /\ call.addr \in Brokers
      BY <1>0, <1>8 DEF Disconnect, CallInv
    <3>3. Found \in Clients
      BY <1>0, <3>1, <3>2 DEF Found
    <3>4. call'.client = Found
      BY <1>0, <2>1, <3>2, <3>3, CallClient
    <3> QED BY <1>0, <3>1, <3>3, <3>4 DEF LibDisconnect, LibTypeOK
  <2> QED BY <2>1, <2>2
<1>9. CASE initMqttData \/ UserCalls \/ Finish \/ ConnectKnown \/ ConnectUsable \/ SubscribeFind
           \/ SubscribeBind \/ UnsubscribeFind \/ UnsubscribeErase \/ LoopStop \/ setReconnectCfg
  <2>1. /\ UNCHANGED libVars /\ UNCHANGED m_mqttClientIns
        /\ pc' \notin {"loopStart", "insert", "loopStop"}
    BY <1>9, CallsFrame
       DEF initMqttData, UserCalls, subMqttTopic, pubMqttTopicMsg, unsubMqttTopic,
           disconnectMqttBroker, setClientRecCfg, Begin, Finish, ConnectKnown, ConnectUsable,
           SubscribeFind, SubscribeBind, UnsubscribeFind, UnsubscribeErase, LoopStop,
           setReconnectCfg, Goto, Return, SameCall, AfterConnect
  <2> QED BY <2>1 DEF libVars
<1>10. CASE SubscribeSend \/ toPublishTopicMsg \/ UnsubscribeSend
  <2>1. /\ loop' = loop /\ UNCHANGED m_mqttClientIns
        /\ pc' \notin {"loopStart", "insert", "loopStop"}
    BY <1>10 DEF SubscribeSend, toPublishTopicMsg, UnsubscribeSend, SendOr, LibSend, libVars, Goto,
                 Return, SameCall
  <2> QED BY <2>1
<1>11. ASSUME NEW j \in Clients, LoopStep(j) PROVE JoinInv'
  <2>1. UNCHANGED <<m_mqttClientIns, call, pc>>
    BY <1>11, LoopFrame DEF apiVars
  <2>2. stopping' = stopping
    BY <1>11 DEF LoopStep, on_connect, on_subscribe, on_message, on_message_store, on_disconnect,
       on_disconnect_reconnect, LoopRetry, LibReceive, LibClose, LibReopen, LibRetry, libVars
  <2>3. \A i \in Clients : loop[i] # "none" => loop'[i] # "none"
    <3>1. ASSUME NEW i \in Clients, loop'[i] # loop[i] PROVE loop'[i] # "none"
      <4>1. j = i /\ (on_disconnect(j) \/ LoopRetry(j))
        BY <1>0, <1>11, <3>1, LoopOfOthers
      <4> QED BY <1>0, <4>1 DEF on_disconnect, LoopRetry, LibClose, LibRetry, LibTypeOK
    <3> QED BY <3>1
  <2>4. ASSUME NEW i \in Clients, loop[i] = "none" PROVE link'[i] = link[i]
    <3>1. CASE i = j
      BY <1>0, <1>11, <2>4, <3>1
         DEF LoopStep, on_connect, on_subscribe, on_message, on_message_store, on_disconnect, Gone,
             Reads, on_disconnect_reconnect, LoopRetry, LibRetry, CallbackInv, libVars
    <3>2. CASE i # j
      BY <1>0, <1>11, <3>2
         DEF LoopStep, on_connect, on_subscribe, on_message, on_message_store, on_disconnect,
             on_disconnect_reconnect, LoopRetry, LibReceive, LibClose, LibReopen, LibRetry, libVars,
             LibTypeOK
    <3> QED BY <3>1, <3>2
  <2>5. pc = "loopStart" => k0 \in Clients /\ loop[k0] = "none"
    BY <1>0 DEF CallInv, Building
  <2>6. pc = "insert" => k0 \in Clients
    BY <1>0 DEF CallInv, Building
  <2> QED BY <1>0, <2>1, <2>2, <2>3, <2>4, <2>5, <2>6
<1>12. CASE Environment
  <2>1. stopping' = stopping
    BY <1>12 DEF Environment, Network, BrokerStep, BrokerAccept, BrokerRefuse, BrokerSubscribe,
         BrokerUnsubscribe, BrokerPublish, BrokerReads, LoseConnection, OthersPublish
  <2> QED BY <1>12, <2>1, EnvironmentFrame DEF apiVars
<1> QED
  BY <1>2, <1>3, <1>4, <1>5, <1>6, <1>7, <1>8, <1>9, <1>10, <1>11, <1>12
     DEF Next, ApiStep, toConnectBroker, toSubscribeTopic, toUnsubscribeTopic, toDisconnectBroker

-----------------------------------------------------------------------------
(* What follows.                                                            *)

THEOREM ProgressInvariance == Spec => [](ThreadInv /\ JoinInv)
<1>1. Init => ThreadInv /\ JoinInv
  BY DEF Init, LibInit, ThreadInv, Progress, JoinInv, Client
<1>2. Inv /\ ConnectionInv /\ (ThreadInv /\ JoinInv) /\ [Next]_vars => (ThreadInv /\ JoinInv)'
  BY ThreadStep, JoinStep
<1> QED BY <1>1, <1>2, Invariance, ConnectionInvariance, PTL DEF Spec

\* loop_stop() never joins a network thread that has no reason to end.
THEOREM JoinsEnd == Spec => []JoinEnds
<1>1. Inv /\ ThreadInv /\ JoinInv => JoinEnds
  <2> SUFFICES ASSUME Inv, ThreadInv, JoinInv, pc = "loopStop"
               PROVE  loop[k0] \in {"ended", "failed"} \/ (stopping[k0] /\ Leaving(k0))
    BY DEF JoinEnds
  <2>1. k0 \in Clients /\ Found = k0 /\ call.addr \in Brokers /\ loop[k0] \in LoopStates
    BY CallFields DEF Inv, CallInv, Using, TypeOK, LibTypeOK
  <2>2. loop[k0] # "none" /\ stopping[k0]
    BY <2>1, NoneAssumption DEF JoinInv, Client, Found
  <2>3. loop[k0] = "running" => Stopped(k0)
    BY <2>1, <2>2 DEF ThreadInv, Progress
  <2> QED BY <2>1, <2>2, <2>3 DEF LoopStates, Leaving, Stopped
<1> QED BY <1>1, Invariance, ProgressInvariance, PTL

\* A client of the map is connected, or its network thread has something to act on.
THEOREM NobodyStranded == Spec => []NeverStranded
<1>1. Inv /\ ThreadInv /\ JoinInv /\ AckedIsKnown => NeverStranded
  <2> SUFFICES ASSUME Inv, ThreadInv, JoinInv, AckedIsKnown,
                      NEW b \in Brokers, Client(b) # None, ~stopping[Client(b)],
                      loop[Client(b)] # "failed", ~Up(b)
               PROVE  Recovering(Client(b))
    BY DEF NeverStranded
  <2> DEFINE k == Client(b)
  <2>1. k \in Clients /\ loop[k] \in LoopStates /\ link[k] \in LinkStates
    BY DEF Inv, TypeOK, LibTypeOK, Client
  <2>2. loop[k] # "none" /\ loop[k] # "ended"
    BY <2>1 DEF JoinInv, ThreadInv, Progress
  <2>3. link[k] # "acked"
    BY <2>1 DEF AckedIsKnown, Up
  <2>4. loop[k] = "running" => Hearing(k)
    BY <2>1, <2>3 DEF ThreadInv, Progress, LinkStates
  <2> QED BY <2>1, <2>2, <2>4 DEF LoopStates, Recovering, Hearing
<1> QED BY <1>1, Invariance, ProgressInvariance, AckedKnown, PTL
=============================================================================
