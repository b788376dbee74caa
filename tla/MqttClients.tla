----------------------------- MODULE MqttClients -----------------------------
(***************************************************************************)
(* communicateViaMQTT: MqttCommWays (the interface), MqttClientIns (the    *)
(* registry of one client per broker address) and MqttClient (the          *)
(* callbacks that the library's network thread runs).                      *)
(*                                                                         *)
(* One API thread makes the calls: m_mqttClientIns has no lock, so a       *)
(* second one would be undefined behaviour at the first insertion.  Each   *)
(* call advances in steps, because the network thread of every client runs *)
(* between them: m_mutex is taken by the callbacks and, before that thread *)
(* exists, by toConnectBroker, but never by the calls that read            *)
(* m_clientStatus or edit m_topicMsg.  A callback holds the mutex of its   *)
(* client for as long as `handler' is not Idle.                            *)
(***************************************************************************)
EXTENDS Mosquitto

CONSTANTS
  Results,  \* the caller's result strings, passed by reference
  Ops       \* bound: the interface functions the API thread calls

ASSUME ResultsAssumption == None \notin Results

VARIABLES
  m_mqttClientIns,  \* broker address -> client, None: not in the map
  g_clientId,       \* is g_clientId non-empty?
  m_clientStatus,   \* client -> client_status_code
  m_topicMsg,       \* client -> topic -> the result it refers to, None: absent
  handler,          \* client -> the callback its network thread is inside of
  mail,             \* result -> what the string holds
  pc, call, ret,    \* the API thread: position, arguments, code to return
  promised          \* history: <<broker, topic, result>> of subscriptions answered SUCCESS

apiVars == <<m_mqttClientIns, g_clientId, pc, call, ret, promised>>
clientVars == <<m_clientStatus, m_topicMsg, handler, mail>>
vars == <<libVars, apiVars, clientVars>>

Status == {"unset", "_FAILED", "CONNECTING", "CONNECT_SUC"}
Codes == {"SUCCESS", "CONNECT_FAILED", "SUBSCRIBE_FAILED", "PUBLISH_FAILED",
          "UNSUBSCRIBE_FAILED", "DISCONNECT_FAILED"}
Pcs == {"idle", "connect", "usable", "setConnecting", "drop", "loopStart", "insert",
        "find", "bind", "subscribe", "publish", "unsubFind", "unsubscribe", "erase",
        "reconnectCfg", "disconnect", "loopStop", "unregister", "return"}
AllOps == {"init", "sub", "pub", "unsub", "disconnect", "recCfg"}
ASSUME OpsAssumption == Ops \subseteq AllOps

\* A call and its arguments; client is the one it has found or built.
CallOf(op, ts, ms, rs) == [op: {op}, addr: Brokers, topic: ts, msg: ms, result: rs,
                           client: Clients \cup {None}]
NoCall == [op |-> "none", addr |-> None, topic |-> None, msg |-> None,
           result |-> None, client |-> None]
Call == {NoCall} \cup CallOf("sub", Topics, {None}, Results)
                 \cup CallOf("pub", Topics, Msgs, {None})
                 \cup CallOf("unsub", Topics, {None}, {None})
                 \cup CallOf("disconnect", {None}, {None}, {None})
                 \cup CallOf("recCfg", {None}, {None}, {None})
\* What a callback that is not over remembers.
Idle == [kind |-> "idle", topic |-> None, msg |-> None, result |-> None]
Reconnecting == [Idle EXCEPT !.kind = "reconnect"]
Storing == [kind: {"message"}, topic: Topics, msg: Msgs, result: Results]
Handler == {Idle, Reconnecting} \cup Storing
\* The message a string holds, and whatever bytes follow its payload.
Mail == [topic: Topics \cup {None}, msg: Msgs \cup {None}]
Empty == [topic |-> None, msg |-> None]

TypeOK ==
  /\ LibTypeOK
  /\ m_mqttClientIns \in [Brokers -> Clients \cup {None}]
  /\ g_clientId \in BOOLEAN
  /\ m_clientStatus \in [Clients -> Status]
  /\ m_topicMsg \in [Clients -> [Topics -> Results \cup {None}]]
  /\ handler \in [Clients -> Handler]
  /\ mail \in [Results -> Mail]
  /\ pc \in Pcs
  /\ call \in Call
  /\ ret \in Codes
  /\ promised \subseteq Brokers \X Topics \X Results

Init ==
  /\ LibInit
  /\ m_mqttClientIns = [b \in Brokers |-> None]
  /\ g_clientId = FALSE
  /\ m_clientStatus = [k \in Clients |-> "unset"]
  /\ m_topicMsg = [k \in Clients |-> [t \in Topics |-> None]]
  /\ handler = [k \in Clients |-> Idle]
  /\ mail = [r \in Results |-> Empty]
  /\ pc = "idle"
  /\ call = NoCall
  /\ ret = "SUCCESS"
  /\ promised = {}

-----------------------------------------------------------------------------
(* The calls.                                                               *)

k0 == call.client
\* Fault: the key leaves out the port, so that two brokers of a host share a client.
FoundAny ==
  IF \A b \in Brokers : m_mqttClientIns[b] = None THEN None
  ELSE m_mqttClientIns[CHOOSE b \in Brokers : m_mqttClientIns[b] # None]
Found == m_mqttClientIns[call.addr]
getClientUsability(k) == m_clientStatus[k] # "_FAILED"

Goto(l) == pc' = l /\ ret' = ret
Return(code) == pc' = "return" /\ ret' = code

\* A step of the API thread that leaves the registry and its arguments alone.
SameCall == UNCHANGED <<m_mqttClientIns, g_clientId, call, promised>>

\* Where a function continues once toConnectBroker answered true.
AfterConnect == CASE call.op = "sub" -> "find"
                  [] call.op = "pub" -> "publish"
                  [] OTHER -> "reconnectCfg"

initMqttData ==
  /\ "init" \in Ops
  /\ pc = "idle"
  /\ g_clientId' = ~g_clientId
  /\ UNCHANGED <<libVars, clientVars, m_mqttClientIns, pc, call, ret, promised>>

\* The user calls op of MqttCommWays; bound: packets do not pile up unread.
Begin(op, b, t, m, r, l) ==
  /\ op \in Ops
  /\ pc = "idle"
  /\ \A k \in Clients : Len(out[k]) < Capacity
  /\ Goto(l)
  /\ call' = [NoCall EXCEPT !.op = op, !.addr = b, !.topic = t, !.msg = m, !.result = r]
  /\ UNCHANGED <<libVars, clientVars, m_mqttClientIns, g_clientId, promised>>

subMqttTopic(b, t, r) == Begin("sub", b, t, None, r, "connect")
pubMqttTopicMsg(b, t, m) == Begin("pub", b, t, m, None, "connect")
unsubMqttTopic(b, t) == Begin("unsub", b, t, None, None, "unsubFind")
disconnectMqttBroker(b) == Begin("disconnect", b, None, None, None, "disconnect")
setClientRecCfg(b) == Begin("recCfg", b, None, None, None, "connect")

UserCalls ==
  \E b \in Brokers :
    \/ \E t \in Topics, r \in Results : subMqttTopic(b, t, r)
    \/ \E t \in Topics, m \in Msgs : pubMqttTopicMsg(b, t, m)
    \/ \E t \in Topics : unsubMqttTopic(b, t)
    \/ disconnectMqttBroker(b)
    \/ setClientRecCfg(b)

\* The call returns ret to the user.
Finish ==
  /\ pc = "return"
  /\ pc' = "idle"
  /\ call' = NoCall
  /\ ret' = "SUCCESS"
  /\ promised' = IF call.op = "sub" /\ ret = "SUCCESS"
                 THEN promised \cup {<<call.addr, call.topic, call.result>>} ELSE promised
  /\ UNCHANGED <<libVars, clientVars, m_mqttClientIns, g_clientId>>

\* toConnectBroker, the address is in the map.  The second that it sleeps when
\* the status is CONNECTING is time in which other steps may run, no more.
ConnectKnown ==
  /\ pc = "connect"
  /\ Found # None
  /\ Goto("usable")
  /\ call' = [call EXCEPT !.client = Found]
  /\ UNCHANGED <<libVars, clientVars, m_mqttClientIns, g_clientId, promised>>

ConnectUsable ==
  /\ pc = "usable"
  /\ IF getClientUsability(k0) THEN Goto(AfterConnect) ELSE Return("CONNECT_FAILED")
  /\ SameCall
  /\ UNCHANGED <<libVars, clientVars>>

\* toConnectBroker, new address: the clean_session it asks for.
\* Fault: with a client id, a session that the broker keeps.
cleanSessionUnnamed(id) == ~id
cleanSession(id) == IF id THEN id ELSE TRUE

ConnectNew ==
  /\ pc = "connect"
  /\ Found = None
  /\ \E k \in Clients, ok \in BOOLEAN :
       /\ ~Built(k)
       /\ ok \/ "connect" \in Faults
       /\ LibConnect(k, call.addr, g_clientId, cleanSession(g_clientId), ok)
       /\ call' = [call EXCEPT !.client = k]
  /\ Goto("setConnecting")
  /\ UNCHANGED <<clientVars, m_mqttClientIns, g_clientId, promised>>

\* Fault: loop_start() comes before the assignment of CONNECTING.
SetConnectingLate ==
  /\ pc = "setConnecting"
  /\ IF loop[k0] = "none" /\ link[k0] # "closed"
     THEN /\ LibLoopStart(k0, TRUE)
          /\ Goto(pc)
          /\ m_clientStatus' = m_clientStatus
     ELSE /\ handler[k0] = Idle
          /\ m_clientStatus' = [m_clientStatus EXCEPT ![k0] = "CONNECTING"]
          /\ Goto(IF link[k0] = "closed" THEN "drop" ELSE "insert")
          /\ UNCHANGED libVars
  /\ SameCall
  /\ UNCHANGED <<m_topicMsg, handler, mail>>

SetConnecting ==
  /\ pc = "setConnecting"
  /\ handler[k0] = Idle
  /\ m_clientStatus' = [m_clientStatus EXCEPT ![k0] = "CONNECTING"]
  /\ Goto(IF link[k0] = "closed" THEN "drop" ELSE "loopStart")
  /\ SameCall
  /\ UNCHANGED <<libVars, m_topicMsg, handler, mail>>

\* The last reference to client k goes.
Destroy(k) ==
  /\ LibDestroy(k)
  /\ m_clientStatus' = [m_clientStatus EXCEPT ![k] = "unset"]
  /\ m_topicMsg' = [m_topicMsg EXCEPT ![k] = [t \in Topics |-> None]]
  /\ handler' = [handler EXCEPT ![k] = Idle]
  /\ mail' = mail

DropClient ==
  /\ pc = "drop"
  /\ Destroy(k0)
  /\ Return("CONNECT_FAILED")
  /\ SameCall

LoopStart ==
  /\ pc = "loopStart"
  /\ \E ok \in BOOLEAN : (ok \/ "thread" \in Faults) /\ LibLoopStart(k0, ok)
  /\ Goto("insert")
  /\ SameCall
  /\ UNCHANGED clientVars

\* Into the map, whether or not the network thread started.
Insert ==
  /\ pc = "insert"
  /\ m_mqttClientIns' = [m_mqttClientIns EXCEPT ![call.addr] = k0]
  /\ IF loop[k0] = "failed" THEN Return("CONNECT_FAILED") ELSE Goto(AfterConnect)
  /\ UNCHANGED <<libVars, clientVars, g_clientId, call, promised>>

toConnectBroker == ConnectKnown \/ ConnectUsable \/ ConnectNew \/ SetConnecting
                     \/ DropClient \/ LoopStart \/ Insert

-----------------------------------------------------------------------------
\* Fault: a topic that is bound already is bound anew.
SubscribeFindAlways ==
  /\ pc = "find"
  /\ Goto("bind")
  /\ SameCall
  /\ UNCHANGED <<libVars, clientVars>>

\* toSubscribeTopic; the address is in the map, toConnectBroker saw to that.
SubscribeFind ==
  /\ pc = "find"
  /\ IF m_topicMsg[k0][call.topic] = None THEN Goto("bind")
     ELSE Return(IF getClientUsability(k0) THEN "SUCCESS" ELSE "SUBSCRIBE_FAILED")
  /\ SameCall
  /\ UNCHANGED <<libVars, clientVars>>

SubscribeBind ==
  /\ pc = "bind"
  /\ m_topicMsg' = [m_topicMsg EXCEPT ![k0][call.topic] = call.result]
  /\ Goto("subscribe")
  /\ SameCall
  /\ UNCHANGED <<libVars, m_clientStatus, handler, mail>>

\* A library call that sends p, and the code the function returns for it.
SendOr(p, failure) ==
  IF link[k0] = "closed" THEN Return(failure) /\ UNCHANGED libVars
  ELSE Return("SUCCESS") /\ LibSend(k0, p)

\* Fault: no SUBSCRIBE is sent before the connection is confirmed.
SubscribeSendWhenConnected ==
  /\ pc = "subscribe"
  /\ IF m_clientStatus[k0] = "CONNECT_SUC"
     THEN SendOr(Req("SUBSCRIBE", call.topic), "SUBSCRIBE_FAILED")
     ELSE Return("SUCCESS") /\ UNCHANGED libVars
  /\ SameCall
  /\ UNCHANGED clientVars

SubscribeSend ==
  /\ pc = "subscribe"
  /\ SendOr(Req("SUBSCRIBE", call.topic), "SUBSCRIBE_FAILED")
  /\ SameCall
  /\ UNCHANGED clientVars

toSubscribeTopic == SubscribeFind \/ SubscribeBind \/ SubscribeSend

toPublishTopicMsg ==
  /\ pc = "publish"
  /\ SendOr(Pub(call.topic, call.msg), "PUBLISH_FAILED")
  /\ SameCall
  /\ UNCHANGED clientVars

UnsubscribeFind ==
  /\ pc = "unsubFind"
  /\ IF Found # None /\ m_topicMsg[Found][call.topic] # None
     THEN Goto("unsubscribe") ELSE Return("UNSUBSCRIBE_FAILED")
  /\ call' = [call EXCEPT !.client = Found]
  /\ UNCHANGED <<libVars, clientVars, m_mqttClientIns, g_clientId, promised>>

UnsubscribeSend ==
  /\ pc = "unsubscribe"
  /\ IF link[k0] = "closed" THEN Return("UNSUBSCRIBE_FAILED") /\ UNCHANGED libVars
     ELSE Goto("erase") /\ LibSend(k0, Req("UNSUBSCRIBE", call.topic))
  /\ SameCall
  /\ UNCHANGED clientVars

\* Fault: clear() for erase(topicName).
UnsubscribeClear ==
  /\ pc = "erase"
  /\ m_topicMsg' = [m_topicMsg EXCEPT ![k0] = [t \in Topics |-> None]]
  /\ Return("SUCCESS")
  /\ SameCall
  /\ UNCHANGED <<libVars, m_clientStatus, handler, mail>>

UnsubscribeErase ==
  /\ pc = "erase"
  /\ m_topicMsg' = [m_topicMsg EXCEPT ![k0][call.topic] = None]
  /\ Return("SUCCESS")
  /\ SameCall
  /\ UNCHANGED <<libVars, m_clientStatus, handler, mail>>

toUnsubscribeTopic == UnsubscribeFind \/ UnsubscribeSend \/ UnsubscribeErase

\* Fault: the client is erased without loop_stop().
DisconnectNoJoin ==
  /\ pc = "disconnect"
  /\ IF Found = None THEN Return("DISCONNECT_FAILED") /\ UNCHANGED libVars
     ELSE /\ LibDisconnect(Found)
          /\ IF link[Found] = "closed" THEN Return("DISCONNECT_FAILED") ELSE Goto("unregister")
  /\ call' = [call EXCEPT !.client = Found]
  /\ UNCHANGED <<clientVars, m_mqttClientIns, g_clientId, promised>>

\* Fault: loop_stop() comes before disconnect().
DisconnectLate ==
  /\ pc = "disconnect"
  /\ IF Found = None THEN Return("DISCONNECT_FAILED") ELSE Goto("loopStop")
  /\ call' = [call EXCEPT !.client = Found]
  /\ UNCHANGED <<libVars, clientVars, m_mqttClientIns, g_clientId, promised>>

Disconnect ==
  /\ pc = "disconnect"
  /\ IF Found = None THEN Return("DISCONNECT_FAILED") /\ UNCHANGED libVars
     ELSE /\ LibDisconnect(Found)
          /\ IF link[Found] = "closed" THEN Return("DISCONNECT_FAILED") ELSE Goto("loopStop")
  /\ call' = [call EXCEPT !.client = Found]
  /\ UNCHANGED <<clientVars, m_mqttClientIns, g_clientId, promised>>

\* loop_stop() joins the network thread.
LoopStop ==
  /\ pc = "loopStop"
  /\ loop[k0] \in {"ended", "failed"}
  /\ Goto("unregister")
  /\ SameCall
  /\ UNCHANGED <<libVars, clientVars>>

Unregister ==
  /\ pc = "unregister"
  /\ m_mqttClientIns' = [m_mqttClientIns EXCEPT ![call.addr] = None]
  /\ Destroy(k0)
  /\ Return("SUCCESS")
  /\ UNCHANGED <<g_clientId, call, promised>>

toDisconnectBroker == Disconnect \/ LoopStop \/ Unregister

\* reconnect_delay_set only changes how long the backoff lasts.
setReconnectCfg ==
  /\ pc = "reconnectCfg"
  /\ Return("SUCCESS")
  /\ SameCall
  /\ UNCHANGED <<libVars, clientVars>>

ApiStep == toConnectBroker \/ toSubscribeTopic \/ toPublishTopicMsg
             \/ toUnsubscribeTopic \/ toDisconnectBroker \/ setReconnectCfg \/ Finish

-----------------------------------------------------------------------------
(* The callbacks, run by the network thread of client k.                    *)

\* Fault: a CONNACK that confirms the connection clears m_topicMsg, as the session
\* is a clean one.
on_connect_clear(k) ==
  /\ handler[k] = Idle
  /\ \/ /\ Reads(k, "CONNACK")
        /\ LibReceive(k, "acked")
        /\ m_clientStatus' = [m_clientStatus EXCEPT ![k] = "CONNECT_SUC"]
        /\ m_topicMsg' = [m_topicMsg EXCEPT ![k] = [t \in Topics |-> None]]
     \/ /\ Reads(k, "REFUSED")
        /\ LibReceive(k, link[k])
        /\ m_clientStatus' = [m_clientStatus EXCEPT ![k] = "_FAILED"]
        /\ m_topicMsg' = m_topicMsg
  /\ UNCHANGED <<apiVars, handler, mail>>

\* Fault: only the first outcome counts.
on_connect_once(k) ==
  /\ handler[k] = Idle
  /\ Reads(k, "CONNACK") \/ Reads(k, "REFUSED")
  /\ LibReceive(k, IF Reads(k, "CONNACK") THEN "acked" ELSE link[k])
  /\ m_clientStatus' = [m_clientStatus EXCEPT ![k] =
       IF @ # "CONNECTING" THEN @ ELSE IF Reads(k, "CONNACK") THEN "CONNECT_SUC" ELSE "_FAILED"]
  /\ UNCHANGED <<apiVars, m_topicMsg, handler, mail>>

on_connect(k) ==
  /\ handler[k] = Idle
  /\ \/ /\ Reads(k, "CONNACK")
        /\ LibReceive(k, "acked")
        /\ m_clientStatus' = [m_clientStatus EXCEPT ![k] = "CONNECT_SUC"]
     \/ /\ Reads(k, "REFUSED")
        /\ LibReceive(k, link[k])
        /\ m_clientStatus' = [m_clientStatus EXCEPT ![k] = "_FAILED"]
  /\ UNCHANGED <<apiVars, m_topicMsg, handler, mail>>

on_subscribe(k) ==
  /\ handler[k] = Idle
  /\ Reads(k, "SUBACK")
  /\ LibReceive(k, link[k])
  /\ m_clientStatus' = [m_clientStatus EXCEPT ![k] = "CONNECT_SUC"]
  /\ UNCHANGED <<apiVars, m_topicMsg, handler, mail>>

\* The API thread inserts into or erases from m_topicMsg of k, without m_mutex:
\* a lookup at that moment may miss what the map holds.
InFlux(k) == k0 = k /\ pc \in {"bind", "erase"}
Lookup(k, t) == IF InFlux(k) THEN {m_topicMsg[k][t], None} ELSE {m_topicMsg[k][t]}

\* Fault: the iterator is used without comparing it with end().
on_message_unchecked(k) ==
  LET p == Head(inn[k]) IN
  /\ handler[k] = Idle
  /\ Reads(k, "PUBLISH")
  /\ LibReceive(k, link[k])
  /\ \E r \in Lookup(k, p.topic) :
       handler' = [handler EXCEPT ![k] =
         [kind |-> "message", topic |-> p.topic, msg |-> p.msg, result |-> r]]
  /\ UNCHANGED <<apiVars, m_clientStatus, m_topicMsg, mail>>

\* on_message up to the lookup; an unknown topic is dropped.
on_message(k) ==
  LET p == Head(inn[k]) IN
  /\ handler[k] = Idle
  /\ Reads(k, "PUBLISH")
  /\ LibReceive(k, link[k])
  /\ \E r \in Lookup(k, p.topic) :
       handler' = [handler EXCEPT ![k] =
         IF r = None THEN Idle
         ELSE [kind |-> "message", topic |-> p.topic, msg |-> p.msg, result |-> r]]
  /\ UNCHANGED <<apiVars, m_clientStatus, m_topicMsg, mail>>

\* The payload is copied into a buffer without a terminating NUL and assigned
\* as a C string: what follows the buffer in memory may follow the payload.
Stored(h) == [topic |-> h.topic, msg |-> h.msg]
on_message_store(k) ==
  /\ handler[k].kind = "message"
  /\ mail' = [mail EXCEPT ![handler[k].result] = Stored(handler[k])]
  /\ handler' = [handler EXCEPT ![k] = Idle]
  /\ UNCHANGED <<libVars, apiVars, m_clientStatus, m_topicMsg>>

\* The connection is gone, or the DISCONNECT is written: rc is 0 if and only if
\* disconnect() was called.
Gone(k) ==
  \/ Reads(k, "EOF")
  \/ /\ loop[k] = "running"
     /\ stopping[k]
     /\ HeadIs(out[k], "DISCONNECT")

\* Fault: the loop is left however the connection ended.
on_disconnect_ends(k) ==
  /\ handler[k] = Idle
  /\ Gone(k)
  /\ LibClose(k, "ended")
  /\ m_clientStatus' = [m_clientStatus EXCEPT ![k] = "_FAILED"]
  /\ UNCHANGED <<apiVars, m_topicMsg, handler, mail>>

on_disconnect(k) ==
  /\ handler[k] = Idle
  /\ Gone(k)
  /\ IF stopping[k]
     THEN /\ LibClose(k, "ended")
          /\ m_clientStatus' = [m_clientStatus EXCEPT ![k] = "_FAILED"]
          /\ handler' = handler
     ELSE /\ LibClose(k, "backoff")
          /\ handler' = [handler EXCEPT ![k] = Reconnecting]
          /\ m_clientStatus' = m_clientStatus
  /\ UNCHANGED <<apiVars, m_topicMsg, mail>>

\* reconnect() inside on_disconnect; its result is ignored.
on_disconnect_reconnect(k) ==
  /\ handler[k].kind = "reconnect"
  /\ \E ok \in BOOLEAN : (ok \/ "connect" \in Faults) /\ LibReopen(k, ok)
  /\ handler' = [handler EXCEPT ![k] = Idle]
  /\ UNCHANGED <<apiVars, m_clientStatus, m_topicMsg, mail>>

LoopRetry(k) ==
  /\ handler[k] = Idle
  /\ LibRetry(k)
  /\ UNCHANGED <<apiVars, clientVars>>

LoopStep(k) == on_connect(k) \/ on_subscribe(k) \/ on_message(k) \/ on_message_store(k)
                 \/ on_disconnect(k) \/ on_disconnect_reconnect(k) \/ LoopRetry(k)

Environment == Network /\ UNCHANGED <<apiVars, clientVars>>

Next == initMqttData \/ UserCalls \/ ApiStep \/ (\E k \in Clients : LoopStep(k)) \/ Environment

Spec == Init /\ [][Next]_vars

\* The API thread and the network threads run, and a network thread writes in
\* each of its rounds, however much there is to read; a broker answers however
\* much others publish, and neither a broker nor the network turns a client away
\* for ever.
Fairness ==
  /\ WF_vars(ApiStep)
  /\ \A k \in Clients :
       /\ WF_vars(LoopStep(k))
       /\ SF_vars(BrokerStep(k) /\ UNCHANGED <<apiVars, clientVars>>)
       /\ SF_vars(on_disconnect(k))
       /\ SF_vars(BrokerAccept(k) /\ UNCHANGED <<apiVars, clientVars>>)
       /\ SF_vars(Reads(k, "CONNACK") /\ on_connect(k))
       /\ SF_vars(LibRetry(k) /\ loop'[k] # "backoff" /\ LoopRetry(k))

FairSpec == Spec /\ Fairness

-----------------------------------------------------------------------------
(* Safety.                                                                  *)

\* A client that has its CONNACK is known to be connected: toConnectBroker sets
\* CONNECTING before the network thread that reports the outcome exists, and no
\* later write of m_clientStatus takes the outcome back.
AckedIsKnown == \A k \in Clients : link[k] = "acked" => m_clientStatus[k] = "CONNECT_SUC"

\* When toDisconnectBroker lets go of a client, its network thread is over and
\* no callback is inside it: nothing can still write into a result string.
QuietWhenErased ==
  pc = "unregister" => loop[k0] # "running" /\ loop[k0] # "backoff" /\ handler[k0] = Idle

\* Whoever joins a network thread does not wait for nothing: the thread is over,
\* or it was asked to stop and will see that, in its backoff, at the end of a
\* broken connection, or where it has written the DISCONNECT.
Queued(q, ty) == \E i \in 1..Len(q) : q[i].type = ty
Leaving(k) ==
  \/ loop[k] = "backoff"
  \/ loop[k] = "running" /\ (Broken(k) \/ Queued(out[k], "DISCONNECT"))
JoinEnds ==
  pc = "loopStop" => loop[k0] \in {"ended", "failed"} \/ (stopping[k0] /\ Leaving(k0))

\* No client of the map is stranded: unless the user asked to disconnect it, or its
\* thread could not be started, it is connected and says so, or something is under
\* way that its thread will act on: the retry, an EOF, a CONNECT or a CONNACK.
Client(b) == m_mqttClientIns[b]
Up(b) ==
  /\ Client(b) # None
  /\ link[Client(b)] = "acked"
  /\ m_clientStatus[Client(b)] = "CONNECT_SUC"
Recovering(k) ==
  \/ loop[k] = "backoff"
  \/ /\ loop[k] = "running"
     /\ Broken(k) \/ Queued(out[k], "CONNECT") \/ Queued(inn[k], "CONNACK")
NeverStranded ==
  \A b \in Brokers :
    Client(b) # None =>
      \/ stopping[Client(b)]
      \/ loop[Client(b)] = "failed"
      \/ Up(b)
      \/ Recovering(Client(b))

\* The broker sends a client only topics the client has in m_topicMsg, or has
\* asked it to forget in an UNSUBSCRIBE still on its way: no subscription
\* survives that no call can take back.
Forgetting(k, t) ==
  \E i \in 1..Len(out[k]) :
    /\ out[k][i] = Req("UNSUBSCRIBE", t)
    /\ \A j \in i + 1..Len(out[k]) : out[k][j] # Req("SUBSCRIBE", t)
NoStraySubscription ==
  \A k \in Clients, t \in Topics :
    t \in session[k] => m_topicMsg[k][t] # None \/ Forgetting(k, t)

\* A client writes a message into a result string only if a subscription of its
\* topic, at its broker, into that very string was answered SUCCESS, or is being
\* made: a caller whose subscription failed may let its string go.
Asked(b, t, r) ==
  \/ <<b, t, r>> \in promised
  \/ call.op = "sub" /\ call.addr = b /\ call.topic = t /\ call.result = r
WritesOnlyPromised ==
  [][\A k \in Clients :
       on_message_store(k) => Asked(addr[k], handler[k].topic, handler[k].result)]_vars

-----------------------------------------------------------------------------
(* The refinement of TopicBoard.                                            *)

\* Broker b's board is the m_topicMsg of the client registered for it, the
\* message in hand the one its callback on_message is about to store.
Registered(b) == m_mqttClientIns[b]
boardOf(b) == IF Registered(b) = None THEN [t \in Topics |-> None] ELSE m_topicMsg[Registered(b)]
Holding(b) == Registered(b) # None /\ handler[Registered(b)].kind = "message"
Held(h) == [topic |-> h.topic, msg |-> h.msg, result |-> h.result]
inHandOf(b) == IF Holding(b) THEN {Held(handler[Registered(b)])} ELSE {}
Asking == IF call.op = "sub" THEN {<<call.addr, call.topic, call.result>>} ELSE {}

Board == INSTANCE TopicBoard WITH
  board  <- [b \in Brokers |-> boardOf(b)],
  inHand <- [b \in Brokers |-> inHandOf(b)],
  asking <- Asking

\* Whatever the connections do, subscribing keeps what TopicBoard promises: the
\* first string bound to a topic of a broker is the one its messages go to until
\* an unsubscription or a disconnection, nobody else's string is written, and
\* nothing is in hand once a client is let go.
ImplementsTopicBoard == Board!Spec

-----------------------------------------------------------------------------
(* Liveness, under Fairness.                                                *)

\* Every call comes back, also the one that joins a network thread: the thread
\* never waits for the API thread, and disconnect() comes before loop_stop().
EveryCallReturns == pc # "idle" ~> pc = "idle"

Down(b) == Client(b) # None /\ link[Client(b)] = "closed"

\* A client that lost its connection is connected again, and says so, unless the
\* user asked to disconnect it.
Reconnects ==
  \A b \in Brokers :
    (Down(b) /\ ~stopping[Client(b)])
      ~> (Client(b) = None \/ stopping[Client(b)] \/ Up(b))

\* The retained message of a topic reaches a result subscribed to it, however
\* the subscription and the publication interleave; for a result that is used for
\* one topic, since a message of another topic replaces it.
Subscribed(b, t, r) ==
  /\ Client(b) # None
  /\ m_topicMsg[Client(b)][t] = r
  /\ <<b, t, r>> \in promised
RetainedArrives ==
  \A b \in Brokers, t \in Topics, r \in Results :
    (Subscribed(b, t, r) /\ retained[b][t] # None)
      ~> (mail[r].topic = t \/ ~Subscribed(b, t, r))

-----------------------------------------------------------------------------
(* What comments and declarations of the code say, and the code does not do. *)

\* mqttclient_instances.h: toSubscribeTopic returns whether the subscription
\* succeeded ("@return").  A failed subscribe() leaves the topic in m_topicMsg,
\* and the next call for it succeeds without a SUBSCRIBE.
OnItsWay ==
  \/ call.topic \in session[k0]
  \/ Broken(k0)
  \/ \E i \in 1..Len(out[k0]) : out[k0][i] = Req("SUBSCRIBE", call.topic)
SubscribeSucceeds == pc = "return" /\ call.op = "sub" /\ ret = "SUCCESS"
SubscribeReachesBroker == [][~SubscribeSucceeds /\ SubscribeSucceeds' => OnItsWay']_vars

\* mqttclient_instances.h: toUnsubscribeTopic returns whether the subscription
\* was cancelled.  A callback that already holds the result writes it later.
UnsubscribeSilences ==
  [][\A k \in Clients :
       LET h == handler[k] IN
       on_message_store(k) => \/ m_topicMsg[k][h.topic] = h.result
                              \/ call.op = "unsub" /\ call.topic = h.topic]_vars
=============================================================================
