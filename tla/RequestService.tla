--------------------------- MODULE RequestService ---------------------------
(***************************************************************************)
(* What HttpReqWays promises a caller, without tasks, series and callbacks *)
(* of a library: requests are asked together, each is answered once, in    *)
(* turn if that was asked, and the caller goes on with all the answers, in *)
(* the order of its requests.  The service may end instead, at any time,   *)
(* and for all of its callers; what it never does is to answer in part.    *)
(***************************************************************************)
EXTENDS Naturals

CONSTANTS Callers, MaxRequests

VARIABLES
  up,        \* has the service not ended?
  requests,  \* caller -> the number of requests it asked last
  inTurn,    \* caller -> must each be answered before the next is made?
  waiting,   \* caller -> does it wait for its answers?
  brought,   \* caller -> the requests that are answered, while it waits
  answers    \* caller -> what it got, when it does not

serviceVars == <<up, requests, inTurn, waiting, brought, answers>>

Init ==
  /\ up = TRUE
  /\ requests = [c \in Callers |-> 0] /\ inTurn = [c \in Callers |-> FALSE]
  /\ waiting = [c \in Callers |-> FALSE]
  /\ brought = [c \in Callers |-> {}] /\ answers = [c \in Callers |-> <<>>]

Ask(c, n, turns) ==
  /\ up /\ ~waiting[c]
  /\ requests' = [requests EXCEPT ![c] = n] /\ inTurn' = [inTurn EXCEPT ![c] = turns]
  /\ waiting' = [waiting EXCEPT ![c] = TRUE]
  /\ answers' = [answers EXCEPT ![c] = <<>>]
  /\ UNCHANGED <<up, brought>>

\* Request i is answered, once.
Bring(c, i) ==
  /\ up /\ waiting[c]
  /\ i \in 1..requests[c] \ brought[c]
  /\ inTurn[c] => brought[c] = 1..(i - 1)
  /\ brought' = [brought EXCEPT ![c] = @ \cup {i}]
  /\ UNCHANGED <<up, requests, inTurn, waiting, answers>>

\* The caller goes on, and its answers are those of its requests, in order.
Answer(c) ==
  /\ up /\ waiting[c]
  /\ brought[c] = 1..requests[c]
  /\ waiting' = [waiting EXCEPT ![c] = FALSE]
  /\ brought' = [brought EXCEPT ![c] = {}]
  /\ answers' = [answers EXCEPT ![c] = [i \in 1..requests[c] |-> i]]
  /\ UNCHANGED <<up, requests, inTurn>>

BreakDown ==
  /\ up' = FALSE
  /\ requests' = [c \in Callers |-> 0] /\ inTurn' = [c \in Callers |-> FALSE]
  /\ waiting' = [c \in Callers |-> FALSE]
  /\ brought' = [c \in Callers |-> {}] /\ answers' = [c \in Callers |-> <<>>]

Next ==
  \/ BreakDown
  \/ \E c \in Callers :
       \/ \E n \in 1..MaxRequests, turns \in BOOLEAN : Ask(c, n, turns)
       \/ \E i \in 1..MaxRequests : Bring(c, i)
       \/ Answer(c)

Spec == Init /\ [][Next]_serviceVars
=============================================================================
