---------------------------- MODULE HttpRequests ----------------------------
(***************************************************************************)
(* HttpReqWays: requests made one at a time, in a series whose tasks       *)
(* depend on each other, in a series whose tasks do not, and in parallel.  *)
(* The caller makes the tasks, queues them, starts them and waits; the     *)
(* callbacks run on the threads of the workflow library, those of          *)
(* different series at the same time.                                      *)
(*                                                                         *)
(* A task's callback refers to a ReconnectCfg that it does not own, and    *)
(* reads it only when it runs.  Where the code has undefined behaviour the *)
(* process ends if that is the one outcome of the build, and otherwise the *)
(* outcome is a choice (see the README).                                   *)
(***************************************************************************)
EXTENDS Naturals, Sequences

CONSTANTS
  Threads,    \* the threads that call HttpReqWays
  MaxTasks,   \* bound: tasks of a call
  TaskKinds,  \* bound: the tasks that callers make
  Ops         \* bound: the functions that callers call

AllOps == {"one", "dependent", "independent", "parallel"}
\* How a task is made (getCommonReqTask, getReqSendTask, getCommonReqSendTask)
\* and the ReconnectCfg it refers to: the global one, one of the caller that
\* outlives the task and has the feature on or off, or the default argument,
\* gone as soon as the task is made.
Makers == {"common", "send", "commonSend"}
Cfgs == {"global", "on", "off", "temporary"}
AllKinds == [maker: Makers, cfg: Cfgs]

ASSUME TasksAssumption == MaxTasks \in Nat \ {0}
ASSUME KindsAssumption == TaskKinds \subseteq AllKinds
ASSUME OpsAssumption == Ops \subseteq AllOps

Failures == {"UNDEFINED", "SSL_ERROR", "SYSTEM_ERROR", "TASK_ERROR", "DNS_ERROR"}
Codes == {"SUCCESS"} \cup Failures

VARIABLES
  g_reconnectCfg,      \* g_reconnectCfg.enable_features
  statusCallbackFunc,  \* is a status function set?
  process,             \* "running" or "ended"
  call,                \* thread -> the call it is in
  series,              \* thread -> the series of that call
  ret,                 \* thread -> what its last call returned
  noted                \* thread -> task -> the statuses its status function was given

vars == <<g_reconnectCfg, statusCallbackFunc, process, call, series, ret, noted>>

Steps == {"idle", "made", "queued", "started", "woken", "returned"}
NoCall == [op |-> "none", tasks |-> <<>>, step |-> "idle"]
TaskLists == UNION {[1..n -> TaskKinds] : n \in 1..MaxTasks}
Call == {NoCall} \cup [op: Ops, tasks: TaskLists, step: Steps \ {"idle"}]
\* A series and its context: todo, the indices of the tasks without a response;
\* data, all_resp_data: a response is the index of its task, 0 an empty body.
Series == [todo: Seq(1..MaxTasks), status: Codes, data: Seq(0..MaxTasks),
           curTaskIndex: 0..MaxTasks, phase: {"running", "retrying", "finished"}]
SeriesOf(todo, first) ==
  [todo |-> todo, status |-> "SUCCESS", data |-> <<>>, curTaskIndex |-> first, phase |-> "running"]
\* failed: failTaskIndex, or the keys of the map that is returned.
Ret == [code: Codes, allResult: Seq(0..MaxTasks), failed: SUBSET (0..MaxTasks)]
NoRet == [code |-> "SUCCESS", allResult |-> <<>>, failed |-> {}]

TypeOK ==
  /\ g_reconnectCfg \in BOOLEAN /\ statusCallbackFunc \in BOOLEAN
  /\ process \in {"running", "ended"}
  /\ call \in [Threads -> Call]
  /\ series \in [Threads -> Seq(Series)]
  /\ ret \in [Threads -> Ret]
  /\ noted \in [Threads -> Seq(Seq(Codes))]
  /\ \A u \in Threads :
       Len(series[u]) <= Len(call[u].tasks) /\ Len(noted[u]) = Len(call[u].tasks)

Init ==
  /\ g_reconnectCfg = FALSE /\ statusCallbackFunc = FALSE
  /\ process = "running"
  /\ call = [u \in Threads |-> NoCall]
  /\ series = [u \in Threads |-> <<>>]
  /\ ret = [u \in Threads |-> NoRet]
  /\ noted = [u \in Threads |-> <<>>]

Running == process = "running"
\* The process ends, and its memory is gone.
Ends ==
  /\ process' = "ended"
  /\ g_reconnectCfg' = FALSE /\ statusCallbackFunc' = FALSE
  /\ call' = [u \in Threads |-> NoCall]
  /\ series' = [u \in Threads |-> <<>>]
  /\ ret' = [u \in Threads |-> NoRet]
  /\ noted' = [u \in Threads |-> <<>>]
Settings == <<g_reconnectCfg, statusCallbackFunc, process>>
Step(u, l) == call' = [call EXCEPT ![u].step = l]
SetSeries(u, j, s) == series' = [series EXCEPT ![u][j] = s]

-----------------------------------------------------------------------------
(* Settings, which any thread changes at any time. *)

initHttpReqParams(b) ==
  /\ Running
  /\ g_reconnectCfg' = b
  /\ UNCHANGED <<statusCallbackFunc, process, call, series, ret, noted>>

\* The std::function has no lock: it is set before there are requests.
setTaskStatusFunc ==
  /\ Running
  /\ \A u \in Threads : call[u] = NoCall
  /\ statusCallbackFunc' = TRUE
  /\ UNCHANGED <<g_reconnectCfg, process, call, series, ret, noted>>

-----------------------------------------------------------------------------
(* The caller. *)

\* obtain_task_id() tests user_data the wrong way round: it follows the null
\* pointer of every task that getCommonReqSendTask did not make.
obtain_task_id(k) == k.maker = "commonSend"
noteTaskStatus(note, status) == IF statusCallbackFunc THEN Append(note, status) ELSE note
Notable(k) == statusCallbackFunc => obtain_task_id(k)

\* The tasks are made; reqToGetResp, reqToPostResp and reqToSendData make one.
Make(u, op, tasks) ==
  /\ Running
  /\ call[u].step \in {"idle", "returned"}
  /\ op = "one" => /\ Len(tasks) = 1
                   /\ tasks[1].cfg = "global" /\ tasks[1].maker # "send"
  /\ call' = [call EXCEPT ![u] = [op |-> op, tasks |-> tasks, step |-> "made"]]
  /\ ret' = [ret EXCEPT ![u] = NoRet]
  /\ noted' = [noted EXCEPT ![u] = [i \in DOMAIN tasks |-> <<>>]]
  /\ UNCHANGED <<Settings, series>>

\* The first task of a series is in it before the loop that notes the others.
Unnoted(u) == IF call[u].op = "parallel" THEN {} ELSE {1}
ToNote(u) == DOMAIN call[u].tasks \ Unnoted(u)
\* Mutant: the task is queued and nobody is told.
QueueNoNote(note) == note
QueueNote(note) == noteTaskStatus(note, "UNDEFINED")
Queue(u) ==
  /\ Running
  /\ call[u].step = "made"
  /\ LET ts == call[u].tasks IN
     \/ /\ \E i \in ToNote(u) : ~Notable(ts[i])
        /\ Ends
     \/ /\ \A i \in ToNote(u) : Notable(ts[i])
        /\ noted' = [noted EXCEPT ![u] = [i \in DOMAIN ts |-> IF i \in ToNote(u) THEN QueueNote(@[i]) ELSE @[i]]]
        /\ series' = [series EXCEPT ![u] =
             IF call[u].op = "parallel" THEN [i \in DOMAIN ts |-> SeriesOf(<<i>>, i - 1)]
             ELSE <<SeriesOf([i \in DOMAIN ts |-> i], 0)>>]
        /\ Step(u, "queued")
        /\ UNCHANGED <<Settings, ret>>

Start(u) ==
  /\ Running
  /\ call[u].step = "queued"
  /\ Step(u, "started")
  /\ UNCHANGED <<Settings, series, ret, noted>>

-----------------------------------------------------------------------------
(* The callbacks.  j is the series, k the task that ends with outcome o.     *)

Current(u, j) == Head(series[u][j].todo)
Ending(u, j) ==
  /\ Running
  /\ call[u].step = "started"
  /\ series[u][j].phase = "running" /\ series[u][j].todo # <<>>
\* What the lambda may read of the configuration that its task refers to.
enable_features(k) ==
  CASE k.cfg = "global"    -> {g_reconnectCfg}
    [] k.cfg = "temporary" -> BOOLEAN
    [] OTHER               -> {k.cfg = "on"}

\* base_callback_deal() asks for the task id before anything is decided.
base_callback_deal(u, j) ==
  /\ Ending(u, j)
  /\ ~Notable(call[u].tasks[Current(u, j)])
  /\ Ends

\* The response is stored through a context pointer that has no value yet.
wget_info_callback(u, j) ==
  /\ Ending(u, j)
  /\ LET k == call[u].tasks[Current(u, j)] IN Notable(k) /\ FALSE \in enable_features(k)
  /\ Ends

\* Mutant: every response is taken for that of the first task.
FirstResponse(s, o) == IF o = "SUCCESS" THEN 1 ELSE 0
Response(s, o) == IF o = "SUCCESS" THEN Head(s.todo) ELSE 0
\* Mutant: the callback counts a task twice.
AnsweredTwice(s, o) ==
  [s EXCEPT !.status = o, !.data = Append(@, Response(s, o)), !.todo = Tail(@), !.curTaskIndex = @ + 2]
Answered(s, o) ==
  [s EXCEPT !.status = o, !.data = Append(@, Response(s, o)), !.todo = Tail(@), !.curTaskIndex = @ + 1]
\* A failed task is to be run again: after a wait, in the same series, where the
\* library has deleted it meanwhile; or, when the tasks do not depend on each
\* other, in a series of its own, which the library does not take from another
\* series.  A wait beyond max_waitTime cancels the series, the deleted task too.
\* Mutant: a failed task is passed over.
PassedOver(s, o) == Answered(s, o)
\* Mutant: it is run again in its place, for as long as it fails.
RunAgainInPlace(s, o) == [s EXCEPT !.status = o]
Retried(s, o) == [s EXCEPT !.status = o, !.data = Append(@, Response(s, o)), !.phase = "retrying"]
wget_promise_callback(u, j, o) ==
  /\ Ending(u, j)
  /\ LET i == Current(u, j)
         k == call[u].tasks[i]
         s == series[u][j]
     IN /\ Notable(k) /\ TRUE \in enable_features(k)
        /\ \/ o # "SUCCESS" /\ Ends
           \/ /\ o = "SUCCESS" \/ call[u].op # "independent"
              /\ SetSeries(u, j, IF o = "SUCCESS" THEN Answered(s, o) ELSE Retried(s, o))
              /\ noted' = [noted EXCEPT ![u][i] = noteTaskStatus(@, o)]
              /\ UNCHANGED <<Settings, call, ret>>

\* The timer of a retry is over, and the next task of the series is the deleted one.
RunAgain(u, j) ==
  /\ Running
  /\ series[u][j].phase = "retrying"
  /\ Ends

-----------------------------------------------------------------------------
(* The end of a call. *)

Finished(u) == \A j \in DOMAIN series[u] : series[u][j].phase = "finished"
Ended(u, j) ==
  /\ Running
  /\ call[u].step = "started"
  /\ series[u][j].phase = "running" /\ series[u][j].todo = <<>>

\* Mutant: every series wakes the caller.
AnyWakesCaller(op) == TRUE
\* Mutant: the last of several dependent tasks wakes nobody.
OneWakesCaller(op) == op = "one"
\* The callback of a series of dependent tasks wakes the caller.
WakesCaller(op) == op \in {"one", "dependent"}
SeriesEnd(u, j) ==
  /\ Ended(u, j)
  /\ SetSeries(u, j, [series[u][j] EXCEPT !.phase = "finished"])
  /\ IF WakesCaller(call[u].op)
     THEN /\ ret' = [ret EXCEPT ![u] =
               [@ EXCEPT !.allResult = series[u][j].data,
                         !.failed = IF series[u][j].status = "SUCCESS" THEN {}
                                    ELSE {series[u][j].curTaskIndex}]]
          /\ Step(u, "woken")
     ELSE UNCHANGED <<call, ret>>
  /\ UNCHANGED <<Settings, noted>>

Last(d) == d[Len(d)]
Failing(u) == {j \in DOMAIN series[u] : series[u][j].status # "SUCCESS"}
\* Mutant: a series of independent tasks is started without a ParallelWork.
OnlyParallel(op) == op = "parallel"
InParallelWork(op) == op \in {"independent", "parallel"}
\* The callback of the ParallelWork: all its series are over.
ParallelEnd(u) ==
  /\ Running
  /\ call[u].step = "started" /\ InParallelWork(call[u].op)
  /\ Finished(u)
  /\ ret' = IF call[u].op = "independent" THEN ret ELSE
       [ret EXCEPT ![u] =
         [@ EXCEPT !.allResult = [j \in DOMAIN series[u] |->
                                   IF j \in Failing(u) THEN 0 ELSE Last(series[u][j].data)],
                   !.failed = {series[u][j].curTaskIndex : j \in Failing(u)}]]
  /\ Step(u, "woken")
  /\ UNCHANGED <<Settings, series, noted>>

\* What the caller makes of the results of the callbacks and of the series s.
Returned(op, r, s) ==
  CASE op = "one"         -> [r EXCEPT !.code = s.status, !.allResult = <<Last(@)>>]
    [] op = "dependent"   -> [r EXCEPT !.code = s.status]
    [] op = "independent" -> [r EXCEPT !.allResult = s.data]
    [] OTHER              -> r
\* The caller goes on, and the contexts on its stack are gone.
Return(u) ==
  /\ Running
  /\ call[u].step = "woken"
  /\ ret' = [ret EXCEPT ![u] = Returned(call[u].op, @, series[u][1])]
  /\ Step(u, "returned")
  /\ series' = [series EXCEPT ![u] = <<>>]
  /\ UNCHANGED <<Settings, noted>>

-----------------------------------------------------------------------------
CallStep(u) ==
  \/ Queue(u) \/ Start(u) \/ ParallelEnd(u) \/ Return(u)
  \/ \E j \in DOMAIN series[u] :
       \/ base_callback_deal(u, j) \/ wget_info_callback(u, j)
       \/ \E o \in Codes : wget_promise_callback(u, j, o)
       \/ RunAgain(u, j) \/ SeriesEnd(u, j)

Next ==
  \/ \E b \in BOOLEAN : initHttpReqParams(b)
  \/ setTaskStatusFunc
  \/ \E u \in Threads, op \in Ops, tasks \in TaskLists : Make(u, op, tasks)
  \/ \E u \in Threads : CallStep(u)

Spec == Init /\ [][Next]_vars
\* Every task ends, because the library bounds the wait for a response, and the
\* threads of the library and of the callers run.
FairSpec == Spec /\ \A u \in Threads : WF_vars(CallStep(u))

-----------------------------------------------------------------------------
(* Properties. *)

\* A call that returns answers for every one of its requests, in the order in
\* which it was given them, whatever order they ended in: no failure is passed
\* over, and no request is asked for twice.
AnswersComplete ==
  \A u \in Threads : call[u].step = "returned" =>
    /\ ret[u].code = "SUCCESS" /\ ret[u].failed = {}
    /\ ret[u].allResult = [i \in DOMAIN call[u].tasks |-> i]

\* The caller of a request is not woken while a series may still use the
\* contexts and the results on its stack.
WokenWhenFinished == \A u \in Threads : call[u].step = "woken" => Finished(u)

\* The status function hears of a task that is queued before it hears how the
\* task ended.
NotedBeforeAnswer ==
  \A u \in Threads : \A i \in ToNote(u) :
    noted[u][i] # <<>> => Head(noted[u][i]) = "UNDEFINED" /\ Len(noted[u][i]) <= 2

\* Nobody waits for a callback that never comes: a call whose series are all over
\* is one of those that the end of a ParallelWork wakes.
WaitsForACallback ==
  \A u \in Threads : call[u].step = "started" /\ Finished(u) => InParallelWork(call[u].op)

\* What there is left to do for a call, as its callbacks come one after the
\* other: each of them ends one task or one series, and none goes back.
PhaseLeft == [running |-> 2, retrying |-> 1, finished |-> 0]
StepsDone == [idle |-> 0, made |-> 0, queued |-> 1, started |-> 2, woken |-> 3, returned |-> 4]
Nearer(s, t) ==
  \/ s.phase = "running" /\ t.phase = "running" /\ Len(t.todo) = Len(s.todo) - 1
  \/ t.todo = s.todo /\ PhaseLeft[t.phase] < PhaseLeft[s.phase]

\* A call that was made and did not return never waits again for what it waited
\* for before: its steps are of another kind each, and every callback brings one
\* of its series nearer to its end and leaves the others alone.  Callbacks
\* that run at once on other threads take nothing back.
CallbacksAdvance ==
  [][\A u \in Threads :
       process' = "running" /\ call[u].step \notin {"idle", "returned"} =>
         \/ UNCHANGED <<call[u], series[u]>>
         \/ StepsDone[call'[u].step] = StepsDone[call[u].step] + 1
         \/ /\ call'[u] = call[u] /\ call[u].step = "started"
            /\ \E j \in DOMAIN series[u] :
                 /\ Nearer(series[u][j], series'[u][j])
                 /\ series'[u] = [series[u] EXCEPT ![j] = series'[u][j]]]_vars

\* The requests of a call whose responses the callbacks have stored.
Brought(u) ==
  {i \in DOMAIN call[u].tasks :
     \E j \in DOMAIN series[u] : \E k \in DOMAIN series[u][j].data : series[u][j].data[k] = i}
Waiting == [u \in Threads |-> call[u].step \notin {"idle", "returned"}]
Service == INSTANCE RequestService WITH
  Callers <- Threads, MaxRequests <- MaxTasks,
  up <- process = "running",
  requests <- [u \in Threads |-> Len(call[u].tasks)],
  inTurn <- [u \in Threads |-> call[u].op \notin {"none", "parallel"}],
  waiting <- Waiting,
  brought <- [u \in Threads |-> Brought(u)],
  answers <- [u \in Threads |-> IF Waiting[u] THEN <<>> ELSE ret[u].allResult]

\* The calls implement RequestService, whatever the order of the callbacks: every
\* step brings the response of one request that had none, answers for all of them,
\* ends the process, or changes nothing that a caller can tell.  Requests that
\* depend on each other, and those of an independent series too, are answered in
\* turn; no response is stored twice, or for the request of another series.
ImplementsRequestService == Service!Spec

\* A call that was made returns, unless the process ends first.
EveryCallEnds ==
  \A u \in Threads : call[u].step = "made" ~> call[u].step = "returned" \/ process = "ended"

\* A call that was made returns its code, or the requests that failed.
EveryCallAnswers == \A u \in Threads : call[u].step = "made" ~> call[u].step = "returned"
=============================================================================
