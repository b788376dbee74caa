------------------------------ MODULE TopicBoard ------------------------------
(***************************************************************************)
(* What subscribing promises, without clients, connections or packets: for *)
(* each broker a board that says into which string the messages of a topic *)
(* go.  The first string bound to a topic keeps it until the topic is      *)
(* taken off the board; a later subscription succeeds without its string.  *)
(* A broker has at most one message in hand, which may be written after    *)
(* its topic was taken off, but not after the whole board was cleared.     *)
(***************************************************************************)
CONSTANTS Brokers, Topics, Msgs, Results, None

VARIABLES
  board,     \* broker -> topic -> the string bound to it, or None
  inHand,    \* broker -> the message about to be written, if any
  mail,      \* string -> the message it holds
  asking,    \* the subscription being made, if any
  promised   \* the subscriptions that succeeded

boardVars == <<board, inHand, mail, asking, promised>>

Subscriptions == Brokers \X Topics \X Results
Bare == [t \in Topics |-> None]

Init ==
  /\ board = [b \in Brokers |-> Bare]
  /\ inHand = [b \in Brokers |-> {}]
  /\ mail = [r \in Results |-> [topic |-> None, msg |-> None]]
  /\ asking = {}
  /\ promised = {}

Ask(s) ==
  /\ asking = {}
  /\ asking' = {s}
  /\ UNCHANGED <<board, inHand, mail, promised>>

Bind(b, t, r) ==
  /\ asking = {<<b, t, r>>}
  /\ board[b][t] = None
  /\ board' = [board EXCEPT ![b][t] = r]
  /\ UNCHANGED <<inHand, mail, asking, promised>>

\* A subscription that succeeds finds its topic on the board.
Succeed(b, t, r) ==
  /\ asking = {<<b, t, r>>}
  /\ board[b][t] # None
  /\ asking' = {}
  /\ promised' = promised \cup asking
  /\ UNCHANGED <<board, inHand, mail>>

Fail ==
  /\ asking # {}
  /\ asking' = {}
  /\ UNCHANGED <<board, inHand, mail, promised>>

Unbind(b, t) ==
  /\ asking = {}
  /\ board[b][t] # None
  /\ board' = [board EXCEPT ![b][t] = None]
  /\ UNCHANGED <<inHand, mail, asking, promised>>

Clear(b) ==
  /\ asking = {}
  /\ inHand[b] = {}
  /\ board[b] # Bare
  /\ board' = [board EXCEPT ![b] = Bare]
  /\ UNCHANGED <<inHand, mail, asking, promised>>

Take(b, t, m) ==
  /\ inHand[b] = {}
  /\ board[b][t] # None
  /\ inHand' = [inHand EXCEPT ![b] = {[topic |-> t, msg |-> m, result |-> board[b][t]]}]
  /\ UNCHANGED <<board, mail, asking, promised>>

\* Only a string that was asked to take the topic of this broker is written.
Write(b) ==
  /\ \E h \in inHand[b] :
       /\ <<b, h.topic, h.result>> \in promised \cup asking
       /\ mail' = [mail EXCEPT ![h.result] = [topic |-> h.topic, msg |-> h.msg]]
  /\ inHand' = [inHand EXCEPT ![b] = {}]
  /\ UNCHANGED <<board, asking, promised>>

Next ==
  \/ \E s \in Subscriptions : Ask(s)
  \/ \E b \in Brokers, t \in Topics, r \in Results : Bind(b, t, r) \/ Succeed(b, t, r)
  \/ Fail
  \/ \E b \in Brokers : Clear(b) \/ Write(b) \/ \E t \in Topics : Unbind(b, t)
  \/ \E b \in Brokers, t \in Topics, m \in Msgs : Take(b, t, m)

Spec == Init /\ [][Next]_boardVars
=============================================================================
