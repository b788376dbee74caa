------------------------------ MODULE Mosquitto ------------------------------
(***************************************************************************)
(* The MQTT client library (mosquittopp over libmosquitto 2.0) and the     *)
(* brokers, as communicateViaMQTT uses them.  None of this is code of the  *)
(* repository: the library ships as a header and a shared object under     *)
(* src/thirdparty, and the brokers are other machines.                     *)
(*                                                                         *)
(* A client object owns a socket, a queue of packets that its network      *)
(* thread has still to write (and the broker to read), and the bytes on    *)
(* their way back, as a queue of packets that the network thread reads in  *)
(* order and turns into callbacks.  Packets carry a type, a topic and a    *)
(* message; None stands for an absent field.  Publishing is at QoS 0: the  *)
(* library's own redelivery of QoS 1 and 2 is left out.                    *)
(***************************************************************************)
EXTENDS Naturals, Sequences

CONSTANTS
  Brokers,    \* broker addresses, "host:port"
  Clients,    \* pool of client objects; a destroyed one may be built again
  Topics,
  Msgs,       \* payloads
  None,       \* the absent broker, client, topic, message or result
  Capacity,   \* bound: packets queued in one direction of a connection
  Faults      \* bound: what may go wrong

ASSUME CapacityAssumption == Capacity \in Nat \ {0, 1}
ASSUME FaultsAssumption ==
  Faults \subseteq {"connect",   \* connect() fails, a broker refuses a client
                    "thread",    \* loop_start() cannot create its thread
                    "loss",      \* a connection breaks
                    "reject"}    \* a broker grants no subscription
ASSUME NoneAssumption == None \notin Brokers \cup Clients \cup Topics \cup Msgs

VARIABLES
  addr,      \* the broker a client object was built for, None: no such object
  named,     \* was it built with a client id?
  clean,     \* its clean_session flag
  link,      \* its socket: "closed", "open" (no CONNACK handled yet), "acked"
  loop,      \* its network thread
  stopping,  \* the library's request_disconnect flag
  out,       \* packets to the broker
  inn,       \* packets to the client; EOF last once the connection broke
  session,   \* the topics the broker has the client subscribed to
  retained   \* the message the broker retains for a topic

libVars == <<addr, named, clean, link, loop, stopping, out, inn, session, retained>>

LinkStates == {"closed", "open", "acked"}
LoopStates == {"none",      \* loop_start not called yet
               "running",   \* reading and writing packets
               "backoff",   \* between a lost connection and its own reconnect
               "ended",     \* returned after disconnect()
               "failed"}    \* loop_start could not create it
Packet ==
  [type: {"CONNECT", "CONNACK", "REFUSED", "SUBACK", "DISCONNECT", "EOF"},
   topic: {None}, msg: {None}]
  \cup [type: {"SUBSCRIBE", "UNSUBSCRIBE"}, topic: Topics, msg: {None}]
  \cup [type: {"PUBLISH"}, topic: Topics, msg: Msgs]

Pkt(ty) == [type |-> ty, topic |-> None, msg |-> None]
Req(ty, t) == [type |-> ty, topic |-> t, msg |-> None]
Pub(t, m) == [type |-> "PUBLISH", topic |-> t, msg |-> m]

LibTypeOK ==
  /\ addr \in [Clients -> Brokers \cup {None}]
  /\ named \in [Clients -> BOOLEAN]
  /\ clean \in [Clients -> BOOLEAN]
  /\ link \in [Clients -> LinkStates]
  /\ loop \in [Clients -> LoopStates]
  /\ stopping \in [Clients -> BOOLEAN]
  /\ out \in [Clients -> Seq(Packet)]
  /\ inn \in [Clients -> Seq(Packet)]
  /\ session \in [Clients -> SUBSET Topics]
  /\ retained \in [Brokers -> [Topics -> Msgs \cup {None}]]

LibInit ==
  /\ addr = [k \in Clients |-> None]
  /\ named = [k \in Clients |-> FALSE]
  /\ clean = [k \in Clients |-> TRUE]
  /\ link = [k \in Clients |-> "closed"]
  /\ loop = [k \in Clients |-> "none"]
  /\ stopping = [k \in Clients |-> FALSE]
  /\ out = [k \in Clients |-> <<>>]
  /\ inn = [k \in Clients |-> <<>>]
  /\ session = [k \in Clients |-> {}]
  /\ retained = [b \in Brokers |-> [t \in Topics |-> None]]

Built(k) == addr[k] # None
HeadIs(q, ty) == q # <<>> /\ Head(q).type = ty
Broken(k) == \E i \in 1..Len(inn[k]) : inn[k][i].type = "EOF"
Room(k, n) == Len(inn[k]) + n <= Capacity
\* The network thread reads the next packet when no callback is running.
Reads(k, ty) == loop[k] = "running" /\ HeadIs(inn[k], ty)

-----------------------------------------------------------------------------
(* Calls of the library.  Each one says what becomes of every libVars.      *)

\* mosquittopp(id, clean_session) and connect(): the socket opens, and the
\* CONNECT packet leaves at once, or connect() fails.
LibConnect(k, b, id, cleanSession, ok) ==
  /\ addr' = [addr EXCEPT ![k] = b]
  /\ named' = [named EXCEPT ![k] = id]
  /\ clean' = [clean EXCEPT ![k] = cleanSession]
  /\ link' = [link EXCEPT ![k] = IF ok THEN "open" ELSE "closed"]
  /\ out' = [out EXCEPT ![k] = IF ok THEN <<Pkt("CONNECT")>> ELSE <<>>]
  /\ UNCHANGED <<loop, stopping, inn, session, retained>>

LibLoopStart(k, ok) ==
  /\ loop' = [loop EXCEPT ![k] = IF ok THEN "running" ELSE "failed"]
  /\ UNCHANGED <<addr, named, clean, link, stopping, out, inn, session, retained>>

\* subscribe(), unsubscribe(), publish() on an open socket: the packet is
\* queued.  It is written only by a running network thread on a connection
\* that works; what is queued on a broken connection or during the backoff is
\* thrown away by the next reconnect.
LibSend(k, p) ==
  /\ out' = IF loop[k] = "running" /\ ~Broken(k)
            THEN [out EXCEPT ![k] = Append(@, p)] ELSE out
  /\ UNCHANGED <<addr, named, clean, link, loop, stopping, inn, session, retained>>

\* disconnect() leaves its request behind even when it answers NO_CONN.
LibDisconnect(k) ==
  /\ stopping' = [stopping EXCEPT ![k] = TRUE]
  /\ out' = IF link[k] # "closed" /\ loop[k] = "running" /\ ~Broken(k)
            THEN [out EXCEPT ![k] = Append(@, Pkt("DISCONNECT"))] ELSE out
  /\ UNCHANGED <<addr, named, clean, link, loop, inn, session, retained>>

\* The destructor; it cancels and joins a network thread still running.
LibDestroy(k) ==
  /\ addr' = [addr EXCEPT ![k] = None]
  /\ named' = [named EXCEPT ![k] = FALSE]
  /\ clean' = [clean EXCEPT ![k] = TRUE]
  /\ link' = [link EXCEPT ![k] = "closed"]
  /\ loop' = [loop EXCEPT ![k] = "none"]
  /\ stopping' = [stopping EXCEPT ![k] = FALSE]
  /\ out' = [out EXCEPT ![k] = <<>>]
  /\ inn' = [inn EXCEPT ![k] = <<>>]
  /\ session' = [session EXCEPT ![k] = {}]
  /\ UNCHANGED retained

-----------------------------------------------------------------------------
(* The network thread, as far as the library alone decides.                 *)

\* It consumes the packet it hands to a callback; the link becomes l.
LibReceive(k, l) ==
  /\ inn' = [inn EXCEPT ![k] = Tail(@)]
  /\ link' = [link EXCEPT ![k] = l]
  /\ UNCHANGED <<addr, named, clean, loop, stopping, out, session, retained>>

\* The socket is closed and the thread goes to state l.
LibClose(k, l) ==
  /\ link' = [link EXCEPT ![k] = "closed"]
  /\ loop' = [loop EXCEPT ![k] = l]
  /\ out' = [out EXCEPT ![k] = <<>>]
  /\ inn' = [inn EXCEPT ![k] = <<>>]
  /\ session' = [session EXCEPT ![k] = IF clean[k] THEN {} ELSE @]
  /\ UNCHANGED <<addr, named, clean, stopping, retained>>

\* reconnect() called from a callback: a new socket at best.  Its CONNECT is
\* only queued, because the thread that would write it is the caller.
LibReopen(k, ok) ==
  /\ link' = [link EXCEPT ![k] = IF ok THEN "open" ELSE "closed"]
  /\ UNCHANGED <<addr, named, clean, loop, stopping, out, inn, session, retained>>

\* After a lost connection and its delay, the thread stops if disconnect()
\* asked it to, without a callback, and otherwise connects again, closing
\* whatever socket a callback opened meanwhile.
LibRetry(k) ==
  /\ loop[k] = "backoff"
  /\ IF stopping[k]
     THEN /\ loop' = [loop EXCEPT ![k] = "ended"]
          /\ UNCHANGED <<link, out>>
     ELSE \/ /\ loop' = [loop EXCEPT ![k] = "running"]
             /\ link' = [link EXCEPT ![k] = "open"]
             /\ out' = [out EXCEPT ![k] = <<Pkt("CONNECT")>>]
          \/ /\ "connect" \in Faults
             /\ link' = [link EXCEPT ![k] = "closed"]
             /\ UNCHANGED <<loop, out>>
  /\ UNCHANGED <<addr, named, clean, stopping, inn, session, retained>>

-----------------------------------------------------------------------------
(* The network and the brokers.                                             *)

\* The connection breaks: what the broker still had to read is lost, and of
\* what it had sent the client gets some first packets.
LoseConnection(k) ==
  /\ "loss" \in Faults
  /\ link[k] # "closed"
  /\ loop[k] \in {"none", "running"}
  /\ ~Broken(k)
  /\ \E n \in 0..Len(inn[k]) :
       inn' = [inn EXCEPT ![k] = Append(SubSeq(@, 1, n), Pkt("EOF"))]
  /\ out' = [out EXCEPT ![k] = <<>>]
  /\ session' = [session EXCEPT ![k] = IF clean[k] THEN {} ELSE @]
  /\ UNCHANGED <<addr, named, clean, link, loop, stopping, retained>>

\* The broker reads packet ty of client k.  A socket whose network thread does
\* not run sends nothing but its first CONNECT.
BrokerReads(k, ty) ==
  /\ HeadIs(out[k], ty)
  /\ loop[k] \in {"none", "running"}
  /\ out' = [out EXCEPT ![k] = Tail(@)]
  /\ UNCHANGED <<addr, named, clean, link, loop, stopping>>

BrokerAccept(k) ==
  /\ BrokerReads(k, "CONNECT")
  /\ Room(k, 1)
  /\ inn' = [inn EXCEPT ![k] = Append(@, Pkt("CONNACK"))]
  /\ session' = [session EXCEPT ![k] = IF clean[k] THEN {} ELSE @]
  /\ UNCHANGED retained

\* CONNACK with a reason code, and the broker closes the connection.
BrokerRefuse(k) ==
  /\ "connect" \in Faults
  /\ HeadIs(out[k], "CONNECT")
  /\ loop[k] \in {"none", "running"}
  /\ Room(k, 1)
  /\ inn' = [inn EXCEPT ![k] = @ \o <<Pkt("REFUSED"), Pkt("EOF")>>]
  /\ out' = [out EXCEPT ![k] = <<>>]
  /\ UNCHANGED <<addr, named, clean, link, loop, stopping, session, retained>>

\* SUBACK, and the retained message of the topic if there is one; or a SUBACK
\* that grants nothing.
BrokerSubscribe(k) ==
  LET t == Head(out[k]).topic
      m == retained[addr[k]][t]
  IN /\ BrokerReads(k, "SUBSCRIBE")
     /\ Room(k, 2)
     /\ \/ /\ session' = [session EXCEPT ![k] = @ \cup {t}]
           /\ inn' = [inn EXCEPT ![k] =
                @ \o <<Pkt("SUBACK")>> \o (IF m = None THEN <<>> ELSE <<Pub(t, m)>>)]
        \/ /\ "reject" \in Faults
           /\ session' = session
           /\ inn' = [inn EXCEPT ![k] = Append(@, Pkt("SUBACK"))]
     /\ UNCHANGED retained

BrokerUnsubscribe(k) ==
  /\ BrokerReads(k, "UNSUBSCRIBE")
  /\ session' = [session EXCEPT ![k] = @ \ {Head(out[k]).topic}]
  /\ UNCHANGED <<inn, retained>>

\* Broker b sends message m of topic t to the connected subscribers.
Subscribers(b, t) ==
  {k \in Clients : addr[k] = b /\ t \in session[k] /\ link[k] # "closed" /\ ~Broken(k)}

Route(b, t, m) ==
  /\ \A k \in Subscribers(b, t) : Room(k, 1)
  /\ inn' = [k \in Clients |-> IF k \in Subscribers(b, t)
                               THEN Append(inn[k], Pub(t, m)) ELSE inn[k]]

\* A message published with the retain flag (g_pubRetain).
BrokerPublish(k) ==
  LET p == Head(out[k])
      b == addr[k]
  IN /\ BrokerReads(k, "PUBLISH")
     /\ Route(b, p.topic, p.msg)
     /\ retained' = [retained EXCEPT ![b][p.topic] = p.msg]
     /\ UNCHANGED session

\* Some other client of broker b publishes; bound: never the last packet that
\* fits, so that there is room for the replies of the broker time and again.
OthersPublish(b, t, m) ==
  /\ \A k \in Subscribers(b, t) : Room(k, 2)
  /\ Route(b, t, m)
  /\ inn' # inn
  /\ UNCHANGED <<addr, named, clean, link, loop, stopping, out, session, retained>>

BrokerStep(k) ==
  \/ BrokerAccept(k)
  \/ BrokerSubscribe(k)
  \/ BrokerUnsubscribe(k)
  \/ BrokerPublish(k)

Network ==
  \/ \E k \in Clients : BrokerStep(k) \/ BrokerRefuse(k) \/ LoseConnection(k)
  \/ \E b \in Brokers, t \in Topics, m \in Msgs : OthersPublish(b, t, m)
=============================================================================
