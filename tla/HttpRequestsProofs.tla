------------------------- MODULE HttpRequestsProofs -------------------------
(***************************************************************************)
(* Theorems about HttpRequests, for any number of calling threads and of   *)
(* tasks, any kinds of tasks and any functions called.                     *)
(***************************************************************************)
EXTENDS HttpRequests, TLAPS

InWork == {"queued", "started", "woken"}

\* A series of c tasks, the first of them task f + 1, has the responses of its
\* first tasks, in order, and the others still to do; unless one failed, which
\* the process does not survive.
Offset(u, j) == IF call[u].op = "parallel" THEN j - 1 ELSE 0
Count(u) == IF call[u].op = "parallel" THEN 1 ELSE Len(call[u].tasks)
Responses(s, f) ==
  Len(s.data) = s.curTaskIndex - f /\ \A i \in 1..Len(s.data) : s.data[i] = f + i
ToDo(s, f, c) ==
  Len(s.todo) = f + c - s.curTaskIndex /\ \A i \in 1..Len(s.todo) : s.todo[i] = s.curTaskIndex + i
Progress(s, f, c) ==
  s.phase # "retrying" =>
    /\ s.status = "SUCCESS"
    /\ s.curTaskIndex \in f..(f + c)
    /\ Responses(s, f) /\ ToDo(s, f, c)
    /\ s.phase = "finished" => s.curTaskIndex = f + c

SeriesInv(u) ==
  /\ call[u].step \notin InWork => series[u] = <<>>
  /\ call[u].step \in InWork =>
       /\ Len(series[u]) = IF call[u].op = "parallel" THEN Len(call[u].tasks) ELSE 1
       /\ \A j \in 1..Len(series[u]) : Progress(series[u][j], Offset(u, j), Count(u))
  /\ call[u].op = "one" => Len(call[u].tasks) = 1

\* What a call returns is nothing at first and complete in the end.
AllAnswers(u) == [i \in DOMAIN call[u].tasks |-> i]
RetInv(u) ==
  /\ call[u].step \in {"made", "queued", "started"} => ret[u] = NoRet
  /\ call[u].step \in {"woken", "returned"} => ret[u].code = "SUCCESS" /\ ret[u].failed = {}
  /\ call[u].step = "woken" =>
       /\ Finished(u)
       /\ call[u].op # "independent" => ret[u].allResult = AllAnswers(u)
  /\ call[u].step = "returned" => ret[u].allResult = AllAnswers(u)

\* A task whose callback is still to come has been noted once, if at all.
SeriesIndex(u, i) == IF call[u].op = "parallel" THEN i ELSE 1
Pending(u, i) ==
  LET s == series[u][SeriesIndex(u, i)] IN s.phase = "running" /\ i > s.curTaskIndex
NoteInv(u) ==
  /\ call[u].step = "made" => \A i \in ToNote(u) : noted[u][i] = <<>>
  /\ ~statusCallbackFunc => \A i \in ToNote(u) : noted[u][i] = <<>>
  /\ \A i \in ToNote(u) :
       noted[u][i] # <<>> => Head(noted[u][i]) = "UNDEFINED" /\ Len(noted[u][i]) <= 2
  /\ statusCallbackFunc /\ call[u].step \in InWork =>
       \A i \in ToNote(u) : noted[u][i] # <<>> /\ (Pending(u, i) => Len(noted[u][i]) = 1)

ThreadInv(u) == SeriesInv(u) /\ RetInv(u) /\ NoteInv(u)
Inv == TypeOK /\ \A u \in Threads : ThreadInv(u)

-----------------------------------------------------------------------------
(* Sequences and calls. *)

LEMMA FunctionsAreSequences ==
  ASSUME NEW S, NEW n \in Nat, NEW f \in [1..n -> S]
  PROVE  f \in Seq(S) /\ Len(f) = n /\ DOMAIN f = 1..n
OBVIOUS

LEMMA IndexSequence ==
  ASSUME NEW n \in 0..MaxTasks
  PROVE  LET f == [i \in 1..n |-> i]
         IN  f \in Seq(1..MaxTasks) /\ Len(f) = n /\ \A i \in 1..n : f[i] = i
<1> DEFINE f == [i \in 1..n |-> i]
<1>1. f \in [1..n -> 1..MaxTasks] /\ n \in Nat /\ \A i \in 1..n : f[i] = i
  BY TasksAssumption
<1> HIDE DEF f
<1> QED BY <1>1, FunctionsAreSequences

LEMMA SequenceIsIndex ==
  ASSUME NEW S, NEW q \in Seq(S), \A i \in 1..Len(q) : q[i] = i
  PROVE  q = [i \in 1..Len(q) |-> i]
OBVIOUS

\* The call of a thread that has made one.
LEMMA CallFields ==
  ASSUME TypeOK, NEW u \in Threads, call[u] # NoCall
  PROVE  /\ call[u] \in [op: Ops, tasks: TaskLists, step: Steps \ {"idle"}]
         /\ call[u].tasks \in Seq(TaskKinds)
         /\ Len(call[u].tasks) \in 1..MaxTasks
         /\ DOMAIN call[u].tasks = 1..Len(call[u].tasks)
         /\ call[u].op \in Ops
<1>1. call[u] \in [op: Ops, tasks: TaskLists, step: Steps \ {"idle"}]
  BY DEF TypeOK, Call
<1>2. PICK n \in 1..MaxTasks : call[u].tasks \in [1..n -> TaskKinds]
  BY <1>1 DEF TaskLists
<1>3. n \in Nat
  BY TasksAssumption
<1>4. DOMAIN call[u].tasks = 1..n /\ Len(call[u].tasks) = n /\ call[u].tasks \in Seq(TaskKinds)
  BY <1>2, <1>3, FunctionsAreSequences
<1> QED BY <1>1, <1>4

LEMMA CallStepType ==
  ASSUME TypeOK, NEW u \in Threads, call[u] # NoCall, NEW l \in Steps \ {"idle"}, Step(u, l)
  PROVE  /\ call' \in [Threads -> Call]
         /\ call'[u].step = l /\ call'[u].op = call[u].op /\ call'[u].tasks = call[u].tasks
         /\ \A v \in Threads \ {u} : call'[v] = call[v]
<1>1. [call[u] EXCEPT !.step = l] \in [op: Ops, tasks: TaskLists, step: Steps \ {"idle"}]
  BY CallFields
<1>2. call' = [call EXCEPT ![u] = [call[u] EXCEPT !.step = l]]
  BY DEF Step
<1>3. call \in [Threads -> Call]
  BY DEF TypeOK
<1>4. call'[u] = [call[u] EXCEPT !.step = l] /\ call' \in [Threads -> Call]
  BY <1>1, <1>2, <1>3 DEF Call
<1>5. /\ [call[u] EXCEPT !.step = l].step = l
      /\ [call[u] EXCEPT !.step = l].op = call[u].op
      /\ [call[u] EXCEPT !.step = l].tasks = call[u].tasks
  BY CallFields
<1> QED BY <1>2, <1>3, <1>4, <1>5

\* What a thread knows depends on nothing but its own call, and on whether a
\* status function is set.
LEMMA ThreadFrame ==
  ASSUME NEW u \in Threads, ThreadInv(u),
         call'[u] = call[u], series'[u] = series[u], ret'[u] = ret[u], noted'[u] = noted[u],
         statusCallbackFunc' = statusCallbackFunc
  PROVE  ThreadInv(u)'
BY DEF ThreadInv, SeriesInv, RetInv, NoteInv, Offset, Count, Finished, AllAnswers, ToNote, Unnoted,
       Pending, SeriesIndex

LEMMA InitialThread ==
  ASSUME NEW u, call[u] = NoCall, series[u] = <<>>, ret[u] = NoRet, noted[u] = <<>>
  PROVE  ThreadInv(u)
<1>1. call[u].step = "idle" /\ call[u].op = "none" /\ call[u].tasks = <<>>
  BY DEF NoCall
<1>2. ToNote(u) = {}
  BY <1>1 DEF ToNote
<1> QED BY <1>1, <1>2 DEF ThreadInv, SeriesInv, RetInv, NoteInv, InWork

LEMMA InitialTypes ==
  /\ NoCall \in Call /\ NoCall.tasks = <<>> /\ NoRet \in Ret
  /\ <<>> \in Seq(Series) /\ <<>> \in Seq(Seq(Codes))
  /\ Len(<<>>) = 0 /\ Len(<<>>) <= Len(<<>>)
BY DEF NoCall, Call, NoRet, Ret, Codes

LEMMA InvInit == Init => Inv
<1> SUFFICES ASSUME Init PROVE Inv
  OBVIOUS
<1>1. \A u \in Threads : ThreadInv(u)
  BY InitialThread DEF Init
<1>2. \A u \in Threads : call[u].tasks = <<>> /\ series[u] = <<>> /\ noted[u] = <<>>
  BY InitialTypes DEF Init
<1>3. \A u \in Threads : Len(series[u]) <= Len(call[u].tasks) /\ Len(noted[u]) = Len(call[u].tasks)
  BY <1>2, InitialTypes
<1>4. call \in [Threads -> Call] /\ series \in [Threads -> Seq(Series)]
  BY InitialTypes DEF Init
<1>5. ret \in [Threads -> Ret] /\ noted \in [Threads -> Seq(Seq(Codes))]
  BY InitialTypes DEF Init
<1> QED BY <1>1, <1>3, <1>4, <1>5 DEF Inv, Init, TypeOK

LEMMA EndsInv == Ends => Inv'
<1> SUFFICES ASSUME Ends PROVE Inv'
  OBVIOUS
<1>1. \A u \in Threads : ThreadInv(u)'
  <2> SUFFICES ASSUME NEW u \in Threads PROVE ThreadInv(u)'
    OBVIOUS
  <2>1. /\ call'[u].step = "idle" /\ call'[u].op = "none" /\ call'[u].tasks = <<>>
        /\ series'[u] = <<>> /\ ret'[u] = NoRet /\ noted'[u] = <<>>
    BY DEF Ends, NoCall
  <2>2. ToNote(u)' = {}
    BY <2>1 DEF ToNote
  <2> QED BY <2>1, <2>2 DEF ThreadInv, SeriesInv, RetInv, NoteInv, InWork
<1>2. \A u \in Threads : call'[u].tasks = <<>> /\ series'[u] = <<>> /\ noted'[u] = <<>>
  BY InitialTypes DEF Ends
<1>3. \A u \in Threads : Len(series'[u]) <= Len(call'[u].tasks) /\ Len(noted'[u]) = Len(call'[u].tasks)
  BY <1>2, InitialTypes
<1>4. call' \in [Threads -> Call] /\ series' \in [Threads -> Seq(Series)]
  BY InitialTypes DEF Ends
<1>5. ret' \in [Threads -> Ret] /\ noted' \in [Threads -> Seq(Seq(Codes))]
  BY InitialTypes DEF Ends
<1> QED BY <1>1, <1>3, <1>4, <1>5 DEF Inv, Ends, TypeOK
-----------------------------------------------------------------------------
(* The settings and the caller. *)

LEMMA SettingsInv ==
  ASSUME Inv, (\E b \in BOOLEAN : initHttpReqParams(b)) \/ setTaskStatusFunc \/ UNCHANGED vars
  PROVE  Inv'
<1>1. TypeOK'
  BY DEF Inv, TypeOK, initHttpReqParams, setTaskStatusFunc, vars
<1>2. ASSUME NEW u \in Threads PROVE ThreadInv(u)'
  <2>1. ThreadInv(u)
    BY DEF Inv
  <2>2. CASE statusCallbackFunc' = statusCallbackFunc
    BY <2>1, <2>2, ThreadFrame DEF initHttpReqParams, setTaskStatusFunc, vars
  <2>3. CASE setTaskStatusFunc
    <3>1. call[u] = NoCall /\ UNCHANGED <<call, series, ret, noted>>
      BY <2>3 DEF setTaskStatusFunc
    <3>2. call[u].step = "idle" /\ ToNote(u)' = {} /\ ToNote(u) = {}
      BY <3>1 DEF NoCall, ToNote
    <3> QED
      BY <2>1, <3>1, <3>2 DEF ThreadInv, SeriesInv, RetInv, NoteInv, InWork, Offset, Count, Finished, AllAnswers
  <2> QED BY <2>2, <2>3 DEF initHttpReqParams, vars
<1> QED BY <1>1, <1>2 DEF Inv

\* A step of thread u that keeps what the others have, and the settings.
OnlyThread(u) ==
  /\ UNCHANGED Settings
  /\ \A v \in Threads \ {u} :
       call'[v] = call[v] /\ series'[v] = series[v] /\ ret'[v] = ret[v] /\ noted'[v] = noted[v]

LEMMA OthersInv ==
  ASSUME Inv, NEW u \in Threads, OnlyThread(u), TypeOK', ThreadInv(u)'
  PROVE  Inv'
<1> SUFFICES ASSUME NEW v \in Threads PROVE ThreadInv(v)'
  BY DEF Inv
<1>1. CASE v = u
  BY <1>1
<1>2. CASE v # u
  BY <1>2, ThreadFrame DEF Inv, OnlyThread, Settings
<1> QED BY <1>1, <1>2

LEMMA MakeInv ==
  ASSUME Inv, NEW u \in Threads, NEW op \in Ops, NEW tasks \in TaskLists, Make(u, op, tasks)
  PROVE  Inv'
<1> DEFINE c == [op |-> op, tasks |-> tasks, step |-> "made"]
           no == [i \in DOMAIN tasks |-> <<>>]
<1>0. TypeOK /\ ThreadInv(u)
  BY DEF Inv
<1>1. PICK n \in 1..MaxTasks : tasks \in [1..n -> TaskKinds]
  BY DEF TaskLists
<1>2. n \in Nat /\ n > 0
  BY TasksAssumption
<1>3. Len(tasks) = n /\ DOMAIN tasks = 1..n
  BY <1>1, <1>2, FunctionsAreSequences
<1>4. c \in Call /\ c.step = "made" /\ c.op = op /\ c.tasks = tasks
  BY DEF Call, Steps
<1>5. no \in Seq(Seq(Codes)) /\ Len(no) = n /\ \A i \in 1..n : no[i] = <<>>
  <2>1. no \in [1..n -> Seq(Codes)] /\ \A i \in 1..n : no[i] = <<>>
    BY <1>3
  <2> HIDE DEF no
  <2> QED BY <1>2, <2>1, FunctionsAreSequences
<1>6. NoRet \in Ret
  BY InitialTypes
<1> HIDE DEF c, no
<1>7. /\ call' = [call EXCEPT ![u] = c] /\ noted' = [noted EXCEPT ![u] = no]
      /\ ret' = [ret EXCEPT ![u] = NoRet] /\ series' = series /\ UNCHANGED Settings
      /\ call[u].step \notin InWork
  BY DEF Make, c, no, InWork
<1>8. call'[u] = c /\ noted'[u] = no /\ ret'[u] = NoRet /\ series'[u] = <<>>
  BY <1>0, <1>7 DEF TypeOK, ThreadInv, SeriesInv
<1>9. TypeOK'
  <2>1. \A v \in Threads : Len(series'[v]) <= Len(call'[v].tasks) /\ Len(noted'[v]) = Len(call'[v].tasks)
    <3> SUFFICES ASSUME NEW v \in Threads
                 PROVE Len(series'[v]) <= Len(call'[v].tasks) /\ Len(noted'[v]) = Len(call'[v].tasks)
      OBVIOUS
    <3>1. CASE v = u
      BY <1>2, <1>3, <1>4, <1>5, <1>8, <3>1, InitialTypes
    <3>2. CASE v # u
      BY <1>0, <1>7, <3>2 DEF TypeOK
    <3> QED BY <3>1, <3>2
  <2> QED BY <1>0, <1>4, <1>5, <1>6, <1>7, <2>1 DEF TypeOK, Settings
<1>10. ThreadInv(u)'
  <2>1. SeriesInv(u)'
    BY <1>3, <1>4, <1>8 DEF SeriesInv, InWork, Make
  <2>2. RetInv(u)'
    BY <1>4, <1>8 DEF RetInv
  <2>3. NoteInv(u)'
    <3>1. \A i \in ToNote(u)' : noted'[u][i] = <<>>
      BY <1>3, <1>4, <1>5, <1>8 DEF ToNote
    <3> QED BY <1>4, <1>8, <3>1 DEF NoteInv, InWork
  <2> QED BY <2>1, <2>2, <2>3 DEF ThreadInv
<1>11. OnlyThread(u)
  BY <1>0, <1>7 DEF OnlyThread, TypeOK
<1> QED BY <1>9, <1>10, <1>11, OthersInv
\* Len([i \in 1..n |-> e]) and the like, for a function given by its values.
LEMMA NewSeries ==
  ASSUME NEW todo \in Seq(1..MaxTasks), NEW f \in 0..MaxTasks, NEW c \in Nat,
         Len(todo) = c, \A i \in 1..c : todo[i] = f + i
  PROVE  SeriesOf(todo, f) \in Series /\ Progress(SeriesOf(todo, f), f, c)
<1> DEFINE s == SeriesOf(todo, f)
<1>1. /\ s.todo = todo /\ s.status = "SUCCESS" /\ s.data = <<>> /\ s.curTaskIndex = f
      /\ s.phase = "running" /\ s \in Series
  BY DEF SeriesOf, Series, Codes
<1>2. f \in Nat /\ f + c - f = c /\ f - f = 0 /\ f \in f..(f + c)
  BY TasksAssumption
<1> HIDE DEF s
<1>3. Responses(s, f)
  <2>1. Len(s.data) = 0
    BY <1>1
  <2> QED BY <1>1, <1>2, <2>1 DEF Responses
<1>4. ToDo(s, f, c)
  <2>1. Len(s.todo) = c /\ s.todo = todo /\ s.curTaskIndex = f
    BY <1>1
  <2>2. \A i \in 1..c : s.todo[i] = s.curTaskIndex + i
    BY <2>1
  <2> QED BY <1>2, <2>1, <2>2 DEF ToDo
<1>5. Progress(s, f, c)
  BY <1>1, <1>2, <1>3, <1>4 DEF Progress
<1> QED BY <1>1, <1>5 DEF s

LEMMA QueueInv ==
  ASSUME Inv, NEW u \in Threads, Queue(u), ~Ends
  PROVE  Inv'
<1> DEFINE ts == call[u].tasks
           n == Len(ts)
<1>0. TypeOK /\ ThreadInv(u)
  BY DEF Inv
<1>1. call[u] # NoCall /\ call[u].step = "made"
  BY DEF Queue, NoCall
<1>2. n \in 1..MaxTasks /\ DOMAIN ts = 1..n /\ n \in Nat /\ Len(noted[u]) = n /\ noted[u] \in Seq(Seq(Codes))
  BY <1>0, <1>1, CallFields, TasksAssumption DEF TypeOK
<1> DEFINE many == [i \in DOMAIN ts |-> SeriesOf(<<i>>, i - 1)]
           index == [i \in DOMAIN ts |-> i]
           ss == IF call[u].op = "parallel" THEN many ELSE <<SeriesOf(index, 0)>>
           no == [i \in DOMAIN ts |-> IF i \in ToNote(u) THEN QueueNote(noted[u][i]) ELSE noted[u][i]]
<1>3. /\ noted' = [noted EXCEPT ![u] = no] /\ series' = [series EXCEPT ![u] = ss]
      /\ Step(u, "queued") /\ UNCHANGED <<Settings, ret>>
  BY <1>0 DEF Queue, TypeOK
<1>4. /\ call' \in [Threads -> Call]
      /\ call'[u].step = "queued" /\ call'[u].op = call[u].op /\ call'[u].tasks = ts
      /\ \A v \in Threads \ {u} : call'[v] = call[v]
  BY <1>0, <1>1, <1>3, CallStepType DEF Steps
<1>5. /\ ss \in Seq(Series) /\ Len(ss) = IF call[u].op = "parallel" THEN n ELSE 1
      /\ \A j \in 1..Len(ss) : Progress(ss[j], Offset(u, j), Count(u))
  <2>1. CASE call[u].op = "parallel"
    <3>1. \A i \in 1..n : SeriesOf(<<i>>, i - 1) \in Series /\ Progress(SeriesOf(<<i>>, i - 1), i - 1, 1)
      <4> SUFFICES ASSUME NEW i \in 1..n
                   PROVE SeriesOf(<<i>>, i - 1) \in Series /\ Progress(SeriesOf(<<i>>, i - 1), i - 1, 1)
        OBVIOUS
      <4>1. <<i>> \in Seq(1..MaxTasks) /\ Len(<<i>>) = 1 /\ i - 1 \in 0..MaxTasks
            /\ \A j \in 1..1 : <<i>>[j] = (i - 1) + j
        BY <1>2, TasksAssumption
      <4> QED BY <4>1, NewSeries
    <3>2. many \in [1..n -> Series] /\ \A i \in 1..n : many[i] = SeriesOf(<<i>>, i - 1)
      BY <1>2, <3>1
    <3>3. many \in Seq(Series) /\ Len(many) = n
      <4> HIDE DEF many
      <4> QED BY <1>2, <3>2, FunctionsAreSequences
    <3>4. ss = many
      BY <2>1
    <3> HIDE DEF ss, many, n
    <3> QED BY <2>1, <3>1, <3>2, <3>3, <3>4 DEF Offset, Count
  <2>2. CASE call[u].op # "parallel"
    <3>1. index \in Seq(1..MaxTasks) /\ Len(index) = n /\ \A i \in 1..n : index[i] = 0 + i
      BY <1>2, IndexSequence
    <3> HIDE DEF index
    <3>2. SeriesOf(index, 0) \in Series /\ Progress(SeriesOf(index, 0), 0, n)
      BY <1>2, <3>1, NewSeries, TasksAssumption
    <3>3. ss = <<SeriesOf(index, 0)>>
      BY <2>2
    <3> QED BY <2>2, <3>2, <3>3 DEF Offset, Count
  <2> QED BY <2>1, <2>2
<1>6. /\ no \in Seq(Seq(Codes)) /\ Len(no) = n
      /\ \A i \in 1..n : no[i] = IF i \in ToNote(u) THEN QueueNote(noted[u][i]) ELSE noted[u][i]
  <2>1. \A i \in 1..n : noted[u][i] \in Seq(Codes) /\ QueueNote(noted[u][i]) \in Seq(Codes)
    BY <1>2 DEF QueueNote, noteTaskStatus, Codes, Failures
  <2>2. no \in [1..n -> Seq(Codes)]
        /\ \A i \in 1..n : no[i] = IF i \in ToNote(u) THEN QueueNote(noted[u][i]) ELSE noted[u][i]
    BY <1>2, <2>1
  <2> HIDE DEF no, n
  <2> QED BY <1>2, <2>2, FunctionsAreSequences
<1> HIDE DEF ss, no, n
<1>7. series'[u] = ss /\ noted'[u] = no /\ ret'[u] = ret[u]
  BY <1>0, <1>3 DEF TypeOK
<1>8. TypeOK'
  <2>1. \A v \in Threads : Len(series'[v]) <= Len(call'[v].tasks) /\ Len(noted'[v]) = Len(call'[v].tasks)
    <3> SUFFICES ASSUME NEW v \in Threads
                 PROVE Len(series'[v]) <= Len(call'[v].tasks) /\ Len(noted'[v]) = Len(call'[v].tasks)
      OBVIOUS
    <3>1. CASE v = u
      BY <1>2, <1>4, <1>5, <1>6, <1>7, <3>1 DEF n
    <3>2. CASE v # u
      BY <1>0, <1>3, <1>4, <3>2 DEF TypeOK
    <3> QED BY <3>1, <3>2
  <2> QED BY <1>0, <1>3, <1>4, <1>5, <1>6, <2>1 DEF TypeOK, Settings
<1>9. SeriesInv(u)'
  BY <1>0, <1>4, <1>5, <1>7 DEF SeriesInv, ThreadInv, InWork, Offset, Count, n
<1>10. RetInv(u)'
  BY <1>0, <1>1, <1>4, <1>7 DEF RetInv, ThreadInv
<1>11. NoteInv(u)'
  <2>1. ToNote(u)' = ToNote(u) /\ ToNote(u) \subseteq 1..n /\ statusCallbackFunc' = statusCallbackFunc
    BY <1>2, <1>3, <1>4 DEF ToNote, Unnoted, Settings
  <2>2. \A i \in ToNote(u) : noted'[u][i] = IF statusCallbackFunc THEN <<"UNDEFINED">> ELSE <<>>
    <3>1. \A i \in ToNote(u) : noted[u][i] = <<>> /\ noted'[u][i] = QueueNote(noted[u][i])
      BY <1>0, <1>1, <1>6, <1>7, <2>1 DEF ThreadInv, NoteInv
    <3>2. Append(<<>>, "UNDEFINED") = <<"UNDEFINED">>
      OBVIOUS
    <3> QED BY <3>1, <3>2 DEF QueueNote, noteTaskStatus
  <2>3. Len(<<"UNDEFINED">>) = 1 /\ Len(<<"UNDEFINED">>) <= 2 /\ Head(<<"UNDEFINED">>) = "UNDEFINED" /\ <<"UNDEFINED">> # <<>>
    OBVIOUS
  <2>4. CASE statusCallbackFunc
    <3>1. \A i \in ToNote(u)' : noted'[u][i] = <<"UNDEFINED">>
      BY <2>1, <2>2, <2>4
    <3>2. \A i \in ToNote(u)' :
            /\ noted'[u][i] # <<>> /\ Head(noted'[u][i]) = "UNDEFINED"
            /\ Len(noted'[u][i]) <= 2 /\ Len(noted'[u][i]) = 1
      BY <2>3, <3>1, Zenon
    <3>3. statusCallbackFunc' /\ call'[u].step # "made"
      BY <1>4, <2>1, <2>4
    <3> QED BY <3>2, <3>3, Zenon DEF NoteInv
  <2>5. CASE ~statusCallbackFunc
    <3>1. \A i \in ToNote(u)' : noted'[u][i] = <<>>
      BY <2>1, <2>2, <2>5
    <3> QED BY <1>4, <2>1, <2>5, <3>1 DEF NoteInv
  <2> QED BY <2>4, <2>5
<1>12. OnlyThread(u)
  BY <1>0, <1>3, <1>4 DEF OnlyThread, TypeOK
<1> QED BY <1>8, <1>9, <1>10, <1>11, <1>12, OthersInv DEF ThreadInv

LEMMA StartInv ==
  ASSUME Inv, NEW u \in Threads, Start(u)
  PROVE  Inv'
<1>0. TypeOK /\ ThreadInv(u)
  BY DEF Inv
<1>1. call[u] # NoCall /\ call[u].step = "queued" /\ UNCHANGED <<Settings, series, ret, noted>>
  BY DEF Start, NoCall
<1>2. /\ call' \in [Threads -> Call]
      /\ call'[u].step = "started" /\ call'[u].op = call[u].op /\ call'[u].tasks = call[u].tasks
      /\ \A v \in Threads \ {u} : call'[v] = call[v]
  BY <1>0, <1>1, CallStepType DEF Steps, Start
<1>3. TypeOK'
  <2>1. \A v \in Threads : call'[v].tasks = call[v].tasks
    BY <1>2
  <2> QED BY <1>0, <1>1, <1>2, <2>1 DEF TypeOK, Settings
<1>4. SeriesInv(u)' /\ RetInv(u)'
  BY <1>0, <1>1, <1>2 DEF ThreadInv, SeriesInv, RetInv, InWork, Offset, Count
<1>5. NoteInv(u)'
  <2>1. ToNote(u)' = ToNote(u) /\ \A i \in ToNote(u) : Pending(u, i)' = Pending(u, i)
    BY <1>1, <1>2 DEF ToNote, Unnoted, Pending, SeriesIndex
  <2> QED BY <1>0, <1>1, <1>2, <2>1 DEF ThreadInv, NoteInv, InWork, Settings
<1>6. OnlyThread(u)
  BY <1>1, <1>2 DEF OnlyThread
<1> QED BY <1>3, <1>4, <1>5, <1>6, OthersInv DEF ThreadInv
-----------------------------------------------------------------------------
(* The callbacks. *)

LEMMA TailValues ==
  ASSUME NEW S, NEW q \in Seq(S), q # <<>>
  PROVE  /\ Tail(q) \in Seq(S) /\ Len(Tail(q)) = Len(q) - 1
         /\ \A i \in 1..Len(q) - 1 : Tail(q)[i] = q[i + 1]
OBVIOUS

\* The first of the tasks to do answers.
LEMMA AnsweredProgress ==
  ASSUME NEW s \in Series, NEW f \in Nat, NEW c \in Nat, f + c <= MaxTasks,
         Progress(s, f, c), s.phase = "running", s.todo # <<>>
  PROVE  /\ Head(s.todo) = s.curTaskIndex + 1
         /\ s.curTaskIndex \in f..(f + c - 1)
         /\ Answered(s, "SUCCESS") \in Series
         /\ Answered(s, "SUCCESS").phase = "running"
         /\ Answered(s, "SUCCESS").curTaskIndex = s.curTaskIndex + 1
         /\ Progress(Answered(s, "SUCCESS"), f, c)
<1> DEFINE a == Answered(s, "SUCCESS")
           d == s.data
           q == s.todo
           x == s.curTaskIndex
<1>1. /\ d \in Seq(0..MaxTasks) /\ q \in Seq(1..MaxTasks) /\ x \in 0..MaxTasks /\ x \in Nat
      /\ x \in f..(f + c) /\ Len(d) = x - f /\ \A i \in 1..Len(d) : d[i] = f + i
      /\ Len(q) = f + c - x /\ \A i \in 1..Len(q) : q[i] = x + i
  BY TasksAssumption DEF Series, Progress, Responses, ToDo
<1>2. /\ a.status = "SUCCESS" /\ a.phase = "running" /\ a.curTaskIndex = x + 1
      /\ a.data = Append(d, Head(q)) /\ a.todo = Tail(q)
      /\ a \in [todo: {Tail(q)}, status: {"SUCCESS"}, data: {Append(d, Head(q))},
                curTaskIndex: {x + 1}, phase: {"running"}]
  BY DEF Answered, Response, Series
<1> HIDE DEF a, d, q, x
<1>3. Len(q) \in Nat /\ Len(q) > 0 /\ q # <<>>
  BY <1>1 DEF q
<1>4. Head(q) = x + 1 /\ x < f + c
  BY <1>1, <1>3
<1>5. /\ Append(d, Head(q)) \in Seq(0..MaxTasks) /\ Len(Append(d, Head(q))) = x - f + 1
      /\ \A i \in 1..Len(Append(d, Head(q))) : Append(d, Head(q))[i] = f + i
  <2>1. Head(q) \in 0..MaxTasks /\ Head(q) = f + (Len(d) + 1)
    BY <1>1, <1>4, TasksAssumption
  <2> HIDE DEF a, d, q, x
  <2>2. Append(d, Head(q)) \in Seq(0..MaxTasks) /\ Len(Append(d, Head(q))) = Len(d) + 1
    BY <1>1, <2>1
  <2>3. \A i \in 1..Len(d) + 1 : Append(d, Head(q))[i] = IF i = Len(d) + 1 THEN Head(q) ELSE d[i]
    BY <1>1, <2>1
  <2> QED BY <1>1, <2>1, <2>2, <2>3
<1>6. Tail(q) \in Seq(1..MaxTasks) /\ Len(Tail(q)) = f + c - (x + 1)
      /\ \A i \in 1..Len(Tail(q)) : Tail(q)[i] = (x + 1) + i
  <2>1. /\ Tail(q) \in Seq(1..MaxTasks) /\ Len(Tail(q)) = Len(q) - 1
        /\ \A i \in 1..Len(q) - 1 : Tail(q)[i] = q[i + 1]
    BY <1>1, <1>3, TailValues
  <2>2. \A i \in 1..Len(q) - 1 : i + 1 \in 1..Len(q) /\ q[i + 1] = x + (i + 1)
    BY <1>1, <1>3
  <2> QED BY <1>1, <1>3, <2>1, <2>2
<1>7. a \in Series
  <2>1. x + 1 \in 0..MaxTasks
    BY <1>1, <1>4, TasksAssumption
  <2>2. Tail(q) \in Seq(1..MaxTasks) /\ Append(d, Head(q)) \in Seq(0..MaxTasks) /\ "SUCCESS" \in Codes
    BY <1>5, <1>6 DEF Codes
  <2> QED BY <1>2, <2>1, <2>2 DEF Series
<1>8. Progress(a, f, c)
  <2>1. Responses(a, f)
    BY <1>1, <1>2, <1>5 DEF Responses
  <2>2. ToDo(a, f, c)
    BY <1>2, <1>6 DEF ToDo
  <2> QED BY <1>1, <1>2, <1>4, <2>1, <2>2 DEF Progress
<1> QED BY <1>1, <1>2, <1>4, <1>7, <1>8 DEF a, q, x

LEMMA RetriedSeries ==
  ASSUME NEW s \in Series, NEW o \in Codes, o # "SUCCESS", NEW f, NEW c
  PROVE  Retried(s, o) \in Series /\ Retried(s, o).phase = "retrying" /\ Progress(Retried(s, o), f, c)
<1> DEFINE a == Retried(s, o)
<1>1. Append(s.data, 0) \in Seq(0..MaxTasks)
  BY TasksAssumption DEF Series
<1>2. a \in Series /\ a.phase = "retrying"
  BY <1>1 DEF Retried, Response, Series
<1> QED BY <1>2 DEF Progress

\* One series, its series of tasks and its place in the call.
LEMMA SeriesFields ==
  ASSUME TypeOK, NEW u \in Threads, SeriesInv(u), call[u].step \in InWork, NEW j \in DOMAIN series[u]
  PROVE  /\ call[u] # NoCall /\ j \in 1..Len(series[u]) /\ j \in Nat
         /\ series[u] \in Seq(Series) /\ series[u][j] \in Series
         /\ Offset(u, j) \in Nat /\ Count(u) \in Nat /\ Offset(u, j) + Count(u) \in 1..MaxTasks
         /\ Offset(u, j) + Count(u) <= Len(call[u].tasks)
         /\ call[u].op # "parallel" =>
              j = 1 /\ Len(series[u]) = 1 /\ Offset(u, j) = 0 /\ Count(u) = Len(call[u].tasks)
         /\ call[u].op = "parallel" =>
              /\ Offset(u, j) = j - 1 /\ Count(u) = 1
              /\ Len(series[u]) = Len(call[u].tasks)
         /\ Progress(series[u][j], Offset(u, j), Count(u))
<1>1. call[u] # NoCall
  BY DEF InWork, NoCall
<1>2. Len(call[u].tasks) \in 1..MaxTasks /\ Len(call[u].tasks) \in Nat
  BY <1>1, CallFields, TasksAssumption
<1>3. series[u] \in Seq(Series) /\ j \in 1..Len(series[u]) /\ j \in Nat
  BY DEF TypeOK
<1>4. /\ Len(series[u]) = IF call[u].op = "parallel" THEN Len(call[u].tasks) ELSE 1
      /\ Progress(series[u][j], Offset(u, j), Count(u))
  BY <1>3 DEF SeriesInv
<1> QED BY <1>1, <1>2, <1>3, <1>4, TasksAssumption DEF Offset, Count
LEMMA ReplacedItem ==
  ASSUME NEW S, NEW q \in Seq(S), NEW j \in 1..Len(q), NEW a \in S
  PROVE  LET r == [q EXCEPT ![j] = a]
         IN  /\ r \in Seq(S) /\ Len(r) = Len(q) /\ DOMAIN r = 1..Len(q)
             /\ r[j] = a /\ \A i \in 1..Len(q) \ {j} : r[i] = q[i]
OBVIOUS

LEMMA AppendValues ==
  ASSUME NEW S, NEW q \in Seq(S), NEW o \in S
  PROVE  /\ Append(q, o) \in Seq(S) /\ Len(Append(q, o)) = Len(q) + 1
         /\ \A i \in 1..Len(q) : Append(q, o)[i] = q[i]
OBVIOUS

LEMMA SecondNote ==
  ASSUME NEW q \in Seq(Codes), Len(q) = 1, NEW o \in Codes
  PROVE  Append(q, o) # <<>> /\ Head(Append(q, o)) = Head(q) /\ Len(Append(q, o)) <= 2
<1> DEFINE r == Append(q, o)
<1> HIDE DEF r
<1>0. /\ r \in Seq(Codes) /\ Len(r) = Len(q) + 1
      /\ \A i \in 1..Len(q) : r[i] = q[i]
  BY AppendValues DEF r
<1>1. Len(r) = 2 /\ r[1] = q[1] /\ Head(q) = q[1]
  BY <1>0
<1>2. r # <<>> /\ Head(r) = r[1] /\ Len(r) <= 2
  BY <1>0, <1>1
<1> QED BY <1>1, <1>2 DEF r

LEMMA CallbackInv ==
  ASSUME Inv, NEW u \in Threads, NEW j \in DOMAIN series[u], NEW o \in Codes,
         wget_promise_callback(u, j, o), ~Ends
  PROVE  Inv'
<1> DEFINE s == series[u][j]
           i == Current(u, j)
           f == Offset(u, j)
           c == Count(u)
           a == IF o = "SUCCESS" THEN Answered(s, o) ELSE Retried(s, o)
           n == Len(call[u].tasks)
           note == noteTaskStatus(noted[u][i], o)
           ss == [series[u] EXCEPT ![j] = a]
           no == [noted[u] EXCEPT ![i] = note]
<1>0. TypeOK /\ ThreadInv(u) /\ SeriesInv(u)
  BY DEF Inv, ThreadInv
<1>1. call[u].step = "started" /\ s.phase = "running" /\ s.todo # <<>>
  BY DEF wget_promise_callback, Ending
<1>2. /\ series' = [series EXCEPT ![u][j] = a] /\ noted' = [noted EXCEPT ![u][i] = note]
      /\ UNCHANGED <<Settings, call, ret>>
  BY DEF wget_promise_callback, SetSeries, noteTaskStatus
<1>3. /\ call[u] # NoCall /\ j \in 1..Len(series[u]) /\ j \in Nat
      /\ series[u] \in Seq(Series) /\ s \in Series
      /\ f \in Nat /\ c \in Nat /\ f + c \in 1..MaxTasks /\ f + c <= n
      /\ call[u].op # "parallel" => j = 1 /\ f = 0 /\ c = n
      /\ call[u].op = "parallel" => f = j - 1 /\ c = 1
      /\ Progress(s, f, c)
  BY <1>0, <1>1, SeriesFields DEF InWork
<1>4. n \in Nat /\ noted[u] \in Seq(Seq(Codes)) /\ Len(noted[u]) = n
  BY <1>0, <1>3, CallFields, TasksAssumption DEF TypeOK
<1> HIDE DEF s, f, c, n
<1>5. /\ i = s.curTaskIndex + 1 /\ s.curTaskIndex \in f..(f + c - 1)
      /\ o = "SUCCESS" => /\ a \in Series /\ Progress(a, f, c)
                          /\ a.phase = "running" /\ a.curTaskIndex = i
  <2>1. f + c <= MaxTasks
    BY <1>3
  <2> QED BY <1>1, <1>3, <2>1, AnsweredProgress DEF Current, s
<1>6. o # "SUCCESS" => a \in Series /\ Progress(a, f, c) /\ a.phase = "retrying"
  BY <1>3, RetriedSeries
<1> HIDE DEF i, a
<1>7. i \in 1..n /\ i \in Nat /\ SeriesIndex(u, i) = j
  <2>1. s.curTaskIndex \in Nat
    BY <1>3, TasksAssumption DEF Series
  <2>2. i \in 1..n /\ i \in Nat /\ (call[u].op = "parallel" => i = j)
    <3>1. CASE call[u].op = "parallel"
      BY <1>3, <1>4, <1>5, <2>1, <3>1
    <3>2. CASE call[u].op # "parallel"
      BY <1>3, <1>4, <1>5, <2>1, <3>2
    <3> QED BY <3>1, <3>2
  <2> QED BY <1>3, <2>2 DEF SeriesIndex
<1>8. a \in Series /\ Progress(a, f, c) /\ (a.phase = "running" => a.curTaskIndex = i)
  BY <1>5, <1>6
<1>9. noted[u][i] \in Seq(Codes) /\ note \in Seq(Codes)
  BY <1>4, <1>7 DEF noteTaskStatus
<1> HIDE DEF note
<1>10. /\ ss \in Seq(Series) /\ Len(ss) = Len(series[u]) /\ ss[j] = a
       /\ \A k \in 1..Len(series[u]) \ {j} : ss[k] = series[u][k]
  BY <1>3, <1>8, ReplacedItem
<1>11. /\ no \in Seq(Seq(Codes)) /\ Len(no) = n /\ no[i] = note
       /\ \A k \in 1..n \ {i} : no[k] = noted[u][k]
  BY <1>4, <1>7, <1>9, ReplacedItem
<1>12. /\ series' = [series EXCEPT ![u] = ss] /\ noted' = [noted EXCEPT ![u] = no]
       /\ series'[u] = ss /\ noted'[u] = no
  BY <1>0, <1>2 DEF TypeOK
<1> HIDE DEF ss, no
<1>13. TypeOK'
  <2>1. \A v \in Threads : Len(series'[v]) <= Len(call'[v].tasks) /\ Len(noted'[v]) = Len(call'[v].tasks)
    <3> SUFFICES ASSUME NEW v \in Threads
                 PROVE Len(series'[v]) <= Len(call'[v].tasks) /\ Len(noted'[v]) = Len(call'[v].tasks)
      OBVIOUS
    <3>1. CASE v = u
      BY <1>0, <1>2, <1>4, <1>10, <1>11, <1>12, <3>1 DEF TypeOK, n
    <3>2. CASE v # u
      BY <1>0, <1>2, <1>12, <3>2 DEF TypeOK
    <3> QED BY <3>1, <3>2
  <2> QED BY <1>0, <1>2, <1>10, <1>11, <1>12, <2>1 DEF TypeOK, Settings
<1>14. SeriesInv(u)'
  <2>1. \A k \in 1..Len(ss) : Progress(ss[k], Offset(u, k), Count(u))
    <3> SUFFICES ASSUME NEW k \in 1..Len(ss) PROVE Progress(ss[k], Offset(u, k), Count(u))
      OBVIOUS
    <3>1. CASE k = j
      BY <1>8, <1>10, <3>1 DEF f, c
    <3>2. CASE k # j
      BY <1>0, <1>1, <1>10, <3>2 DEF SeriesInv, InWork
    <3> QED BY <3>1, <3>2
  <2> QED BY <1>0, <1>1, <1>2, <1>10, <1>12, <2>1 DEF SeriesInv, Offset, Count, InWork
<1>15. RetInv(u)'
  BY <1>0, <1>1, <1>2 DEF ThreadInv, RetInv
<1>16. NoteInv(u)'
  <2>1. ToNote(u)' = ToNote(u) /\ ToNote(u) \subseteq 1..n /\ call'[u] = call[u]
    <3>1. DOMAIN call[u].tasks = 1..n
      BY <1>0, <1>3, CallFields DEF n
    <3>2. call' = call
      BY <1>2
    <3> QED BY <3>1, <3>2 DEF ToNote, Unnoted
  <2>2. \A k \in ToNote(u) \ {i} : noted'[u][k] = noted[u][k]
    BY <1>11, <1>12, <2>1
  <2>3. Pending(u, i)
    BY <1>1, <1>5, <1>7, <1>3 DEF Pending, s
  <2>4. CASE ~statusCallbackFunc
    <3>1. note = noted[u][i] /\ statusCallbackFunc' = statusCallbackFunc
      BY <1>2, <2>4 DEF note, noteTaskStatus, Settings
    <3>2. \A k \in ToNote(u) : noted'[u][k] = noted[u][k]
      BY <1>11, <1>12, <2>1, <2>2, <3>1
    <3> QED BY <1>0, <1>1, <2>1, <2>4, <3>1, <3>2 DEF ThreadInv, NoteInv
  <2>5. CASE statusCallbackFunc
    <3>1. note = Append(noted[u][i], o) /\ statusCallbackFunc'
      BY <1>2, <2>5, Zenon DEF note, noteTaskStatus, Settings
    <3>2. \A k \in ToNote(u) : noted[u][k] # <<>> /\ Head(noted[u][k]) = "UNDEFINED"
                               /\ Len(noted[u][k]) <= 2 /\ (Pending(u, k) => Len(noted[u][k]) = 1)
      <4>1. call[u].step \in InWork
        BY <1>1 DEF InWork
      <4> QED BY <1>0, <2>5, <4>1, Zenon DEF ThreadInv, NoteInv
    <3>3. i \in ToNote(u) =>
            noted'[u][i] # <<>> /\ Head(noted'[u][i]) = "UNDEFINED" /\ Len(noted'[u][i]) <= 2
      <4>1. i \in ToNote(u) => Len(noted[u][i]) = 1 /\ Head(noted[u][i]) = "UNDEFINED"
        BY <2>3, <3>2
      <4>2. noted'[u][i] = Append(noted[u][i], o)
        BY <1>11, <1>12, <3>1
      <4> QED BY <1>9, <4>1, <4>2, SecondNote
    <3>4. \A k \in ToNote(u) : Pending(u, k)' => k # i /\ Pending(u, k)
      <4> SUFFICES ASSUME NEW k \in ToNote(u), Pending(u, k)' PROVE k # i /\ Pending(u, k)
        OBVIOUS
      <4>1. SeriesIndex(u, k)' = SeriesIndex(u, k) /\ k \in Nat /\ k \in 1..n
        BY <1>4, <2>1 DEF SeriesIndex
      <4>2. CASE SeriesIndex(u, k) = j
        <5>1. a.phase = "running" /\ k > a.curTaskIndex
          BY <1>10, <1>12, <4>1, <4>2 DEF Pending
        <5> QED BY <1>1, <1>5, <1>7, <1>8, <1>3, <4>1, <4>2, <5>1 DEF Pending, s
      <4>3. CASE SeriesIndex(u, k) # j
        <5>1. SeriesIndex(u, k) \in 1..Len(series[u])
          BY <1>0, <1>1, <1>3, <4>1 DEF SeriesIndex, SeriesInv, InWork, n
        <5>2. series'[u][SeriesIndex(u, k)] = series[u][SeriesIndex(u, k)]
          BY <1>10, <1>12, <4>3, <5>1
        <5> QED BY <1>7, <4>1, <4>3, <5>2 DEF Pending
      <4> QED BY <4>2, <4>3
    <3>5. \A k \in ToNote(u)' :
            /\ noted'[u][k] # <<>> /\ Head(noted'[u][k]) = "UNDEFINED" /\ Len(noted'[u][k]) <= 2
            /\ Pending(u, k)' => Len(noted'[u][k]) = 1
      BY <2>1, <2>2, <3>2, <3>3, <3>4
    <3>6. call'[u].step = "started"
      BY <1>1, <2>1
    <3> QED BY <3>1, <3>5, <3>6, Zenon DEF NoteInv
  <2> QED BY <2>4, <2>5
<1>17. OnlyThread(u)
  BY <1>0, <1>2, <1>12 DEF OnlyThread, TypeOK
<1> QED BY <1>13, <1>14, <1>15, <1>16, <1>17, OthersInv DEF ThreadInv
-----------------------------------------------------------------------------
(* The end of a call. *)

LEMMA LastOne ==
  ASSUME NEW s \in Series, NEW f \in Nat, NEW c \in Nat, f + c <= MaxTasks,
         Progress(s, f, c), s.phase = "running", s.todo = <<>>
  PROVE  LET a == [s EXCEPT !.phase = "finished"]
         IN  /\ a \in Series /\ a.phase = "finished" /\ Progress(a, f, c)
             /\ s.status = "SUCCESS" /\ s.curTaskIndex = f + c
<1> DEFINE a == [s EXCEPT !.phase = "finished"]
<1>1. /\ a \in Series /\ a.phase = "finished" /\ a.status = s.status /\ a.data = s.data
      /\ a.todo = s.todo /\ a.curTaskIndex = s.curTaskIndex
  BY DEF Series
<1> HIDE DEF a
<1>2. Len(s.todo) = 0 /\ s.curTaskIndex \in Nat
  BY TasksAssumption DEF Series
<1>3. s.curTaskIndex = f + c /\ s.status = "SUCCESS"
  BY <1>2 DEF Progress, ToDo
<1>4. Progress(a, f, c)
  BY <1>1, <1>3 DEF Progress, Responses, ToDo
<1> QED BY <1>1, <1>3, <1>4 DEF a

\* A finished series has a response for every task.
LEMMA FinishedData ==
  ASSUME NEW s \in Series, NEW f \in Nat, NEW c \in Nat, Progress(s, f, c),
         s.phase # "retrying", s.curTaskIndex = f + c
  PROVE  /\ s.data \in Seq(0..MaxTasks) /\ Len(s.data) = c
         /\ \A i \in 1..c : s.data[i] = f + i
BY TasksAssumption DEF Progress, Responses, Series

LEMMA SeriesEndInv ==
  ASSUME Inv, NEW u \in Threads, NEW j \in DOMAIN series[u], SeriesEnd(u, j)
  PROVE  Inv'
<1> DEFINE s == series[u][j]
           f == Offset(u, j)
           c == Count(u)
           a == [s EXCEPT !.phase = "finished"]
           n == Len(call[u].tasks)
           ss == [series[u] EXCEPT ![j] = a]
           r == [ret[u] EXCEPT !.allResult = s.data, !.failed = {}]
<1>0. TypeOK /\ ThreadInv(u) /\ SeriesInv(u)
  BY DEF Inv, ThreadInv
<1>1. call[u].step = "started" /\ s.phase = "running" /\ s.todo = <<>>
  BY DEF SeriesEnd, Ended
<1>2. series' = [series EXCEPT ![u][j] = a] /\ UNCHANGED <<Settings, noted>>
  BY DEF SeriesEnd, SetSeries
<1>3. /\ call[u] # NoCall /\ j \in 1..Len(series[u]) /\ j \in Nat
      /\ series[u] \in Seq(Series) /\ s \in Series
      /\ f \in Nat /\ c \in Nat /\ f + c \in 1..MaxTasks /\ f + c <= n
      /\ call[u].op # "parallel" => j = 1 /\ Len(series[u]) = 1 /\ f = 0 /\ c = n
      /\ Progress(s, f, c)
  BY <1>0, <1>1, SeriesFields DEF InWork
<1> HIDE DEF s, f, c, n
<1>4. /\ a \in Series /\ a.phase = "finished" /\ Progress(a, f, c)
      /\ s.status = "SUCCESS" /\ s.curTaskIndex = f + c
  <2>1. f + c <= MaxTasks
    BY <1>3
  <2> QED BY <1>1, <1>3, <2>1, LastOne
<1> HIDE DEF a
<1>5. /\ ss \in Seq(Series) /\ Len(ss) = Len(series[u]) /\ ss[j] = a
      /\ \A k \in 1..Len(series[u]) \ {j} : ss[k] = series[u][k]
  BY <1>3, <1>4, ReplacedItem
<1>6. series' = [series EXCEPT ![u] = ss] /\ series'[u] = ss
  BY <1>0, <1>2 DEF TypeOK
<1> HIDE DEF ss
<1>7. /\ call' \in [Threads -> Call] /\ ret' \in [Threads -> Ret]
      /\ call'[u].op = call[u].op /\ call'[u].tasks = call[u].tasks
      /\ \A v \in Threads \ {u} : call'[v] = call[v] /\ ret'[v] = ret[v]
      /\ \/ call'[u].step = "started" /\ ret'[u] = ret[u]
         \/ /\ call'[u].step = "woken" /\ call[u].op \in {"one", "dependent"}
            /\ ret'[u].code = ret[u].code /\ ret'[u].allResult = s.data /\ ret'[u].failed = {}
  <2>1. CASE WakesCaller(call[u].op)
    <3>1. Step(u, "woken") /\ ret' = [ret EXCEPT ![u] = r]
      BY <1>0, <1>4, <2>1 DEF SeriesEnd, TypeOK, s
    <3>2. /\ call' \in [Threads -> Call]
          /\ call'[u].step = "woken" /\ call'[u].op = call[u].op /\ call'[u].tasks = call[u].tasks
          /\ \A v \in Threads \ {u} : call'[v] = call[v]
      BY <1>0, <1>3, <3>1, CallStepType DEF Steps
    <3>3. r \in Ret /\ r.code = ret[u].code /\ r.allResult = s.data /\ r.failed = {}
      <4>1. ret[u] \in Ret /\ s.data \in Seq(0..MaxTasks) /\ {} \in SUBSET (0..MaxTasks)
        BY <1>0, <1>3 DEF TypeOK, Series
      <4>2. PICK x \in Ret, d \in Seq(0..MaxTasks) : x = ret[u] /\ d = s.data
        BY <4>1
      <4>3. r = [x EXCEPT !.allResult = d, !.failed = {}]
        BY <4>2
      <4> HIDE DEF r
      <4>4. {} \in SUBSET (0..MaxTasks)
        OBVIOUS
      <4>5. r \in Ret /\ r.code = x.code /\ r.allResult = d /\ r.failed = {}
        BY <4>3, <4>4 DEF Ret
      <4> QED BY <4>2, <4>5
    <3> HIDE DEF r
    <3> QED BY <1>0, <2>1, <3>1, <3>2, <3>3 DEF TypeOK, WakesCaller
  <2>2. CASE ~WakesCaller(call[u].op)
    BY <1>0, <1>1, <2>2 DEF SeriesEnd, TypeOK
  <2> QED BY <2>1, <2>2
<1>8. TypeOK'
  <2>1. \A v \in Threads : Len(series'[v]) <= Len(call'[v].tasks) /\ Len(noted'[v]) = Len(call'[v].tasks)
    <3> SUFFICES ASSUME NEW v \in Threads
                 PROVE Len(series'[v]) <= Len(call'[v].tasks) /\ Len(noted'[v]) = Len(call'[v].tasks)
      OBVIOUS
    <3>1. CASE v = u
      BY <1>0, <1>2, <1>5, <1>6, <1>7, <3>1 DEF TypeOK
    <3>2. CASE v # u
      BY <1>0, <1>2, <1>6, <1>7, <3>2 DEF TypeOK
    <3> QED BY <3>1, <3>2
  <2> QED BY <1>0, <1>2, <1>5, <1>6, <1>7, <2>1 DEF TypeOK, Settings
<1>9. SeriesInv(u)'
  <2>1. \A k \in 1..Len(ss) : Progress(ss[k], Offset(u, k), Count(u))
    <3> SUFFICES ASSUME NEW k \in 1..Len(ss) PROVE Progress(ss[k], Offset(u, k), Count(u))
      OBVIOUS
    <3>1. CASE k = j
      BY <1>4, <1>5, <3>1 DEF f, c
    <3>2. CASE k # j
      BY <1>0, <1>1, <1>5, <3>2 DEF SeriesInv, InWork
    <3> QED BY <3>1, <3>2
  <2> QED BY <1>0, <1>1, <1>5, <1>6, <1>7, <2>1 DEF SeriesInv, Offset, Count, InWork
<1>10. RetInv(u)'
  <2>1. ret[u] = NoRet /\ NoRet.code = "SUCCESS"
    BY <1>0, <1>1 DEF ThreadInv, RetInv, NoRet
  <2>2. CASE call'[u].step = "started"
    BY <1>7, <2>1, <2>2 DEF RetInv
  <2>3. CASE call'[u].step = "woken"
    <3>1. /\ call[u].op \in {"one", "dependent"} /\ ret'[u].code = "SUCCESS"
          /\ ret'[u].allResult = s.data /\ ret'[u].failed = {}
      BY <1>7, <2>1, <2>3
    <3>2. s.data = [k \in 1..n |-> k]
      <4>1. s.data \in Seq(0..MaxTasks) /\ Len(s.data) = n /\ \A k \in 1..n : s.data[k] = k
        <5>1. f = 0 /\ c = n
          BY <1>3, <3>1
        <5>2. /\ s.data \in Seq(0..MaxTasks) /\ Len(s.data) = c
              /\ \A k \in 1..c : s.data[k] = f + k
          BY <1>1, <1>3, <1>4, FinishedData
        <5>3. n \in Nat
          BY <1>3, <5>1
        <5> QED BY <5>1, <5>2, <5>3
      <4> QED BY <4>1, SequenceIsIndex
    <3>3. DOMAIN call'[u].tasks = 1..n
      BY <1>0, <1>3, <1>7, CallFields DEF n
    <3>4. Finished(u)'
      <4>1. Len(ss) = 1 /\ j = 1
        BY <1>3, <1>5, <3>1
      <4>2. DOMAIN ss = {j}
        BY <1>5, <4>1
      <4>3. DOMAIN series'[u] = {j} /\ series'[u][j].phase = "finished"
        BY <1>4, <1>5, <1>6, <4>2
      <4> QED BY <4>3 DEF Finished
    <3>5. AllAnswers(u)' = [k \in 1..n |-> k]
      BY <3>3 DEF AllAnswers
    <3> QED BY <2>3, <3>1, <3>2, <3>4, <3>5 DEF RetInv
  <2> QED BY <1>7, <2>2, <2>3
<1>11. NoteInv(u)'
  <2>1. ToNote(u)' = ToNote(u) /\ call[u].step \in InWork /\ call'[u].step \in InWork
    BY <1>1, <1>7 DEF ToNote, Unnoted, InWork
  <2>2. \A k \in ToNote(u) : Pending(u, k)' => Pending(u, k)
    <3> SUFFICES ASSUME NEW k \in ToNote(u), Pending(u, k)' PROVE Pending(u, k)
      OBVIOUS
    <3>1. SeriesIndex(u, k)' = SeriesIndex(u, k) /\ k \in 1..n
      BY <1>0, <1>3, <1>7, CallFields DEF SeriesIndex, ToNote, n
    <3>2. SeriesIndex(u, k) # j
      BY <1>4, <1>5, <1>6, <3>1 DEF Pending
    <3>3. SeriesIndex(u, k) \in 1..Len(series[u])
      BY <1>0, <1>1, <1>3, <3>1 DEF SeriesIndex, SeriesInv, InWork, n
    <3>4. series'[u][SeriesIndex(u, k)] = series[u][SeriesIndex(u, k)]
      BY <1>5, <1>6, <3>2, <3>3
    <3> QED BY <3>1, <3>4 DEF Pending
  <2>3. statusCallbackFunc' = statusCallbackFunc /\ noted' = noted
    BY <1>2 DEF Settings
  <2>4. call'[u].step # "made"
    BY <1>7
  <2> QED BY <1>0, <2>1, <2>2, <2>3, <2>4, Zenon DEF ThreadInv, NoteInv
<1>12. OnlyThread(u)
  BY <1>0, <1>2, <1>6, <1>7 DEF OnlyThread, TypeOK
<1> QED BY <1>8, <1>9, <1>10, <1>11, <1>12, OthersInv DEF ThreadInv
LEMMA ParallelEndInv ==
  ASSUME Inv, NEW u \in Threads, ParallelEnd(u)
  PROVE  Inv'
<1> DEFINE n == Len(call[u].tasks)
           all == [k \in DOMAIN series[u] |-> IF k \in Failing(u) THEN 0 ELSE Last(series[u][k].data)]
           failed == {series[u][k].curTaskIndex : k \in Failing(u)}
           r == [ret[u] EXCEPT !.allResult = all, !.failed = failed]
<1>0. TypeOK /\ ThreadInv(u) /\ SeriesInv(u)
  BY DEF Inv, ThreadInv
<1>1. /\ call[u].step = "started" /\ call[u].op \in {"independent", "parallel"} /\ Finished(u)
      /\ call[u] # NoCall
  BY DEF ParallelEnd, InParallelWork, NoCall
<1>2. UNCHANGED <<Settings, series, noted>> /\ Step(u, "woken")
  BY DEF ParallelEnd
<1>3. /\ call' \in [Threads -> Call]
      /\ call'[u].step = "woken" /\ call'[u].op = call[u].op /\ call'[u].tasks = call[u].tasks
      /\ \A v \in Threads \ {u} : call'[v] = call[v]
  BY <1>0, <1>1, <1>2, CallStepType DEF Steps
<1>4. n \in 1..MaxTasks /\ n \in Nat /\ DOMAIN call[u].tasks = 1..n
  BY <1>0, <1>1, CallFields, TasksAssumption
<1>5. ret[u] = NoRet /\ NoRet.code = "SUCCESS" /\ NoRet.failed = {} /\ NoRet \in Ret
  BY <1>0, <1>1, InitialTypes DEF ThreadInv, RetInv, NoRet
<1>6. /\ ret' \in [Threads -> Ret] /\ \A v \in Threads \ {u} : ret'[v] = ret[v]
      /\ ret'[u].code = "SUCCESS" /\ ret'[u].failed = {}
      /\ call[u].op # "independent" => ret'[u].allResult = AllAnswers(u)
  <2>1. CASE call[u].op = "independent"
    BY <1>0, <1>5, <2>1 DEF ParallelEnd, TypeOK
  <2>2. CASE call[u].op = "parallel"
    <3>1. Len(series[u]) = n /\ DOMAIN series[u] = 1..n
      BY <1>0, <1>1, <1>4, <2>2 DEF SeriesInv, InWork, TypeOK
    <3>2. \A k \in 1..n : series[u][k].status = "SUCCESS" /\ Last(series[u][k].data) = k
      <4> SUFFICES ASSUME NEW k \in 1..n
                   PROVE series[u][k].status = "SUCCESS" /\ Last(series[u][k].data) = k
        OBVIOUS
      <4>1. k \in DOMAIN series[u] /\ series[u][k].phase = "finished"
        BY <1>1, <3>1 DEF Finished
      <4>2. /\ series[u][k] \in Series /\ Progress(series[u][k], k - 1, 1)
            /\ k - 1 \in Nat /\ 1 \in Nat
        BY <1>0, <1>1, <1>4, <2>2, <4>1, SeriesFields DEF InWork
      <4>3. series[u][k].status = "SUCCESS" /\ series[u][k].curTaskIndex = (k - 1) + 1
        BY <4>1, <4>2 DEF Progress
      <4>4. Len(series[u][k].data) = 1 /\ \A i \in 1..1 : series[u][k].data[i] = (k - 1) + i
        BY <4>1, <4>2, <4>3, FinishedData
      <4>5. series[u][k].data[1] = k
        BY <1>4, <4>4
      <4> QED BY <4>3, <4>4, <4>5 DEF Last
    <3>3. Failing(u) = {}
      BY <3>1, <3>2 DEF Failing
    <3>4. all = [k \in 1..n |-> k]
      BY <3>1, <3>2, <3>3
    <3>5. failed = {}
      BY <3>3
    <3>6. [k \in 1..n |-> k] \in Seq(0..MaxTasks)
      <4>1. [k \in 1..n |-> k] \in [1..n -> 0..MaxTasks]
        BY <1>4, TasksAssumption
      <4> QED BY <1>4, <4>1, FunctionsAreSequences
    <3>7. ret' = [ret EXCEPT ![u] = r]
      BY <1>0, <2>2 DEF ParallelEnd, TypeOK
    <3> HIDE DEF all, failed, n
    <3>8. r \in Ret /\ r.code = "SUCCESS" /\ r.failed = {} /\ r.allResult = [k \in 1..n |-> k]
      <4>1. all \in Seq(0..MaxTasks) /\ {} \in SUBSET (0..MaxTasks)
        BY <3>4, <3>6
      <4> QED BY <1>5, <3>4, <3>5, <4>1 DEF Ret
    <3> HIDE DEF r
    <3>9. ret'[u] = r /\ AllAnswers(u) = [k \in 1..n |-> k]
      BY <1>0, <1>4, <3>7 DEF TypeOK, AllAnswers
    <3> QED BY <1>0, <3>7, <3>8, <3>9 DEF TypeOK
  <2> QED BY <1>1, <2>1, <2>2
<1>7. TypeOK'
  <2>1. \A v \in Threads : call'[v].tasks = call[v].tasks
    BY <1>3
  <2> QED BY <1>0, <1>2, <1>3, <1>6, <2>1 DEF TypeOK, Settings
<1>8. SeriesInv(u)'
  BY <1>0, <1>1, <1>2, <1>3 DEF SeriesInv, InWork, Offset, Count
<1>9. RetInv(u)'
  <2>1. Finished(u)' /\ AllAnswers(u)' = AllAnswers(u)
    BY <1>1, <1>2, <1>3 DEF Finished, AllAnswers
  <2> QED BY <1>3, <1>6, <2>1 DEF RetInv
<1>10. NoteInv(u)'
  <2>1. ToNote(u)' = ToNote(u) /\ \A i \in ToNote(u) : Pending(u, i)' = Pending(u, i)
    BY <1>2, <1>3 DEF ToNote, Unnoted, Pending, SeriesIndex
  <2> QED BY <1>0, <1>1, <1>2, <1>3, <2>1 DEF ThreadInv, NoteInv, InWork, Settings
<1>11. OnlyThread(u)
  BY <1>2, <1>3, <1>6 DEF OnlyThread
<1> QED BY <1>7, <1>8, <1>9, <1>10, <1>11, OthersInv DEF ThreadInv

LEMMA ReturnInv ==
  ASSUME Inv, NEW u \in Threads, Return(u)
  PROVE  Inv'
<1> DEFINE n == Len(call[u].tasks)
           op == call[u].op
           s == series[u][1]
           r == Returned(op, ret[u], s)
<1>0. TypeOK /\ ThreadInv(u) /\ SeriesInv(u)
  BY DEF Inv, ThreadInv
<1>1. call[u].step = "woken" /\ call[u] # NoCall
  BY DEF Return, NoCall
<1>2. /\ UNCHANGED <<Settings, noted>> /\ Step(u, "returned")
      /\ series' = [series EXCEPT ![u] = <<>>] /\ ret' = [ret EXCEPT ![u] = r]
  BY DEF Return
<1>3. /\ call' \in [Threads -> Call]
      /\ call'[u].step = "returned" /\ call'[u].op = call[u].op /\ call'[u].tasks = call[u].tasks
      /\ \A v \in Threads \ {u} : call'[v] = call[v]
  BY <1>0, <1>1, <1>2, CallStepType DEF Steps
<1>4. n \in 1..MaxTasks /\ n \in Nat /\ DOMAIN call[u].tasks = 1..n /\ op \in AllOps
  BY <1>0, <1>1, CallFields, TasksAssumption, OpsAssumption
<1>5. /\ ret[u] \in Ret /\ ret[u].code = "SUCCESS" /\ ret[u].failed = {} /\ Finished(u)
      /\ op # "independent" => ret[u].allResult = [k \in 1..n |-> k]
  BY <1>0, <1>1, <1>4 DEF ThreadInv, RetInv, TypeOK, AllAnswers
<1>6. op # "parallel" => /\ s.status = "SUCCESS" /\ s.data \in Seq(0..MaxTasks)
                         /\ s.data = [k \in 1..n |-> k]
  <2> SUFFICES ASSUME op # "parallel"
               PROVE s.status = "SUCCESS" /\ s.data \in Seq(0..MaxTasks) /\ s.data = [k \in 1..n |-> k]
    OBVIOUS
  <2>1. 1 \in DOMAIN series[u] /\ s.phase = "finished"
    BY <1>0, <1>1, <1>5 DEF SeriesInv, InWork, TypeOK, Finished
  <2>2. s \in Series /\ Progress(s, 0, n)
    BY <1>0, <1>1, <2>1, SeriesFields DEF InWork
  <2>3. s.status = "SUCCESS" /\ s.curTaskIndex = 0 + n
    BY <2>1, <2>2 DEF Progress
  <2> HIDE DEF s, n
  <2>4. /\ s.data \in Seq(0..MaxTasks) /\ Len(s.data) = n
        /\ \A k \in 1..n : s.data[k] = 0 + k
    BY <1>4, <2>1, <2>2, <2>3, FinishedData
  <2>5. \A k \in 1..Len(s.data) : s.data[k] = k
    BY <1>4, <2>4
  <2>6. s.data = [k \in 1..n |-> k]
    BY <2>4, <2>5, SequenceIsIndex
  <2> QED BY <2>3, <2>4, <2>6
<1>7. op = "one" => n = 1
  BY <1>0 DEF SeriesInv
<1> HIDE DEF n, s
<1>8. r \in Ret /\ r.code = "SUCCESS" /\ r.failed = {} /\ r.allResult = [k \in 1..n |-> k]
  <2>1. CASE op = "one"
    <3>1. <<Last(ret[u].allResult)>> = [k \in 1..n |-> k]
      <4>1. ret[u].allResult = [k \in 1..1 |-> k] /\ n = 1
        BY <1>5, <1>7, <2>1
      <4>2. Len([k \in 1..1 |-> k]) = 1 /\ [k \in 1..1 |-> k][1] = 1 /\ <<1>> = [k \in 1..1 |-> k]
        OBVIOUS
      <4>3. Last(ret[u].allResult) = 1
        BY <4>1, <4>2 DEF Last
      <4> QED BY <4>1, <4>2, <4>3
    <3>2. <<Last(ret[u].allResult)>> \in Seq(0..MaxTasks)
      BY <1>5, <1>7, <2>1, <3>1 DEF Ret
    <3>3. r = [ret[u] EXCEPT !.code = "SUCCESS", !.allResult = <<Last(ret[u].allResult)>>]
      BY <1>6, <2>1 DEF Returned, Ret
    <3> QED BY <1>5, <3>1, <3>2, <3>3 DEF Ret, Codes
  <2>2. CASE op = "dependent"
    BY <1>5, <1>6, <2>2 DEF Returned, Ret
  <2>3. CASE op = "independent"
    <3>1. r = [ret[u] EXCEPT !.allResult = s.data]
      BY <2>3 DEF Returned
    <3> QED BY <1>5, <1>6, <2>3, <3>1 DEF Ret
  <2>4. CASE op = "parallel"
    BY <1>5, <2>4 DEF Returned
  <2> QED BY <1>4, <2>1, <2>2, <2>3, <2>4 DEF AllOps
<1> HIDE DEF r
<1>9. series'[u] = <<>> /\ ret'[u] = r
  BY <1>0, <1>2 DEF TypeOK
<1>10. TypeOK'
  <2>1. \A v \in Threads : Len(series'[v]) <= Len(call'[v].tasks) /\ Len(noted'[v]) = Len(call'[v].tasks)
    <3> SUFFICES ASSUME NEW v \in Threads
                 PROVE Len(series'[v]) <= Len(call'[v].tasks) /\ Len(noted'[v]) = Len(call'[v].tasks)
      OBVIOUS
    <3>1. CASE v = u
      BY <1>0, <1>2, <1>3, <1>4, <1>9, <3>1, InitialTypes DEF TypeOK, n
    <3>2. CASE v # u
      BY <1>0, <1>2, <1>3, <3>2 DEF TypeOK
    <3> QED BY <3>1, <3>2
  <2> QED BY <1>0, <1>2, <1>3, <1>8, <2>1, InitialTypes DEF TypeOK, Settings
<1>11. SeriesInv(u)'
  BY <1>0, <1>3, <1>9 DEF SeriesInv, InWork
<1>12. RetInv(u)'
  <2>1. AllAnswers(u)' = [k \in 1..n |-> k]
    BY <1>3, <1>4 DEF AllAnswers
  <2> QED BY <1>3, <1>8, <1>9, <2>1 DEF RetInv
<1>13. NoteInv(u)'
  <2>1. ToNote(u)' = ToNote(u)
    BY <1>3 DEF ToNote, Unnoted
  <2> QED BY <1>0, <1>2, <1>3, <2>1 DEF ThreadInv, NoteInv, InWork, Settings
<1>14. OnlyThread(u)
  BY <1>0, <1>2, <1>3 DEF OnlyThread, TypeOK
<1> QED BY <1>10, <1>11, <1>12, <1>13, <1>14, OthersInv DEF ThreadInv
-----------------------------------------------------------------------------
(* The theorems. *)

\* A callback that ends the process, or that deals with what its task brought.
LEMMA CallStepInv ==
  ASSUME Inv, NEW u \in Threads, CallStep(u)
  PROVE  Inv'
<1>1. CASE Ends
  BY <1>1, EndsInv
<1>2. CASE ~Ends
  <2>1. CASE Queue(u)
    BY <1>2, <2>1, QueueInv
  <2>2. CASE Start(u)
    BY <2>2, StartInv
  <2>3. CASE ParallelEnd(u)
    BY <2>3, ParallelEndInv
  <2>4. CASE Return(u)
    BY <2>4, ReturnInv
  <2>5. ASSUME NEW j \in DOMAIN series[u],
               base_callback_deal(u, j) \/ wget_info_callback(u, j) \/ RunAgain(u, j)
        PROVE  Inv'
    BY <1>2, <2>5 DEF base_callback_deal, wget_info_callback, RunAgain
  <2>6. ASSUME NEW j \in DOMAIN series[u], NEW o \in Codes, wget_promise_callback(u, j, o)
        PROVE  Inv'
    BY <1>2, <2>6, CallbackInv
  <2>7. ASSUME NEW j \in DOMAIN series[u], SeriesEnd(u, j)
        PROVE  Inv'
    BY <2>7, SeriesEndInv
  <2> QED BY <2>1, <2>2, <2>3, <2>4, <2>5, <2>6, <2>7 DEF CallStep
<1> QED BY <1>1, <1>2

LEMMA InvNext == Inv /\ [Next]_vars => Inv'
<1> SUFFICES ASSUME Inv, [Next]_vars PROVE Inv'
  OBVIOUS
<1>1. CASE (\E b \in BOOLEAN : initHttpReqParams(b)) \/ setTaskStatusFunc \/ UNCHANGED vars
  BY <1>1, SettingsInv
<1>2. ASSUME NEW u \in Threads, NEW op \in Ops, NEW tasks \in TaskLists, Make(u, op, tasks)
      PROVE  Inv'
  BY <1>2, MakeInv
<1>3. ASSUME NEW u \in Threads, CallStep(u)
      PROVE  Inv'
  BY <1>3, CallStepInv
<1> QED BY <1>1, <1>2, <1>3 DEF Next

\* What the callbacks have brought so far, and what is still to come, make up
\* the answer, in every reachable state.
THEOREM RequestInvariance == Spec => []Inv
<1>1. Init => Inv
  BY InvInit
<1>2. Inv /\ [Next]_vars => Inv'
  BY InvNext
<1> QED BY <1>1, <1>2, PTL DEF Spec

\* The variables of the requests keep their types; no series has more responses
\* than tasks.
THEOREM RequestTypes == Spec => []TypeOK
<1>1. Inv => TypeOK
  BY DEF Inv
<1> QED BY <1>1, RequestInvariance, PTL

\* Every call that returns, returns every answer, in the order of its requests.
THEOREM CompleteAnswers == Spec => []AnswersComplete
<1>1. Inv => AnswersComplete
  BY DEF Inv, ThreadInv, RetInv, AnswersComplete, AllAnswers
<1> QED BY <1>1, RequestInvariance, PTL

\* No caller is woken while a callback may still use its stack.
THEOREM FinishedWhenWoken == Spec => []WokenWhenFinished
<1>1. Inv => WokenWhenFinished
  BY DEF Inv, ThreadInv, RetInv, WokenWhenFinished
<1> QED BY <1>1, RequestInvariance, PTL

\* The status function hears of the tasks in their order: queued, then ended.
THEOREM NotesInOrder == Spec => []NotedBeforeAnswer
<1>1. Inv => NotedBeforeAnswer
  BY DEF Inv, ThreadInv, NoteInv, NotedBeforeAnswer
<1> QED BY <1>1, RequestInvariance, PTL

-----------------------------------------------------------------------------
(* Progress: what a step leaves of the steps that a call needs. *)

\* A thread's step leaves the calls of the others alone, unless the process ends.
LEMMA OtherCalls ==
  ASSUME TypeOK, NEW v \in Threads, NEW u \in Threads \ {v}, ~Ends,
         CallStep(v) \/ \E op \in Ops, tasks \in TaskLists : Make(v, op, tasks)
  PROVE  UNCHANGED <<call[u], series[u], ret[u]>>
<1>0. call \in [Threads -> Call] /\ series \in [Threads -> Seq(Series)] /\ ret \in [Threads -> Ret]
  BY DEF TypeOK
<1>1. CASE \E op \in Ops, tasks \in TaskLists : Make(v, op, tasks)
  BY <1>0, <1>1 DEF Make
<1>2. CASE Queue(v) \/ Start(v) \/ ParallelEnd(v) \/ Return(v)
  BY <1>0, <1>2 DEF Queue, Start, ParallelEnd, Return, Step
<1>3. ASSUME NEW j \in DOMAIN series[v],
             base_callback_deal(v, j) \/ wget_info_callback(v, j) \/ RunAgain(v, j)
      PROVE  UNCHANGED <<call[u], series[u], ret[u]>>
  BY <1>3 DEF base_callback_deal, wget_info_callback, RunAgain
<1>4. ASSUME NEW j \in DOMAIN series[v], NEW o \in Codes, wget_promise_callback(v, j, o)
      PROVE  UNCHANGED <<call[u], series[u], ret[u]>>
  BY <1>0, <1>4 DEF wget_promise_callback, SetSeries
<1>5. ASSUME NEW j \in DOMAIN series[v], SeriesEnd(v, j)
      PROVE  UNCHANGED <<call[u], series[u], ret[u]>>
  BY <1>0, <1>5 DEF SeriesEnd, SetSeries, Step
<1> QED BY <1>1, <1>2, <1>3, <1>4, <1>5 DEF CallStep

\* The four steps of a call that are not a callback's.
LEMMA CallerSteps ==
  ASSUME TypeOK, NEW u \in Threads, ~Ends, Queue(u) \/ Start(u) \/ ParallelEnd(u) \/ Return(u)
  PROVE  /\ call'[u].op = call[u].op
         /\ \/ call[u].step = "made" /\ call'[u].step = "queued" /\ Queue(u)
            \/ call[u].step = "queued" /\ call'[u].step = "started" /\ series' = series
            \/ call[u].step = "started" /\ call'[u].step = "woken"
            \/ call[u].step = "woken" /\ call'[u].step = "returned"
<1>1. call[u] # NoCall
  BY DEF Queue, Start, ParallelEnd, Return, NoCall
<1>2. ASSUME NEW l \in Steps \ {"idle"}, Step(u, l) PROVE call'[u].step = l /\ call'[u].op = call[u].op
  BY <1>1, <1>2, CallStepType
<1>3. CASE Queue(u)
  BY <1>2, <1>3 DEF Queue, Steps
<1>4. CASE Start(u)
  BY <1>2, <1>4 DEF Start, Steps
<1>5. CASE ParallelEnd(u)
  BY <1>2, <1>5 DEF ParallelEnd, Steps
<1>6. CASE Return(u)
  BY <1>2, <1>6 DEF Return, Steps
<1> QED BY <1>3, <1>4, <1>5, <1>6

\* A callback replaces one series of its call.
LEMMA CallbackSteps ==
  ASSUME TypeOK, NEW u \in Threads, NEW j \in DOMAIN series[u], NEW o \in Codes, ~Ends,
         wget_promise_callback(u, j, o)
  PROVE  LET s == series[u][j]
             a == IF o = "SUCCESS" THEN Answered(s, o) ELSE Retried(s, o)
         IN  /\ call'[u] = call[u] /\ call[u].step = "started"
             /\ s.phase = "running" /\ s.todo # <<>>
             /\ series'[u] = [series[u] EXCEPT ![j] = a] /\ series'[u][j] = a
<1> DEFINE s == series[u][j]
           a == IF o = "SUCCESS" THEN Answered(s, o) ELSE Retried(s, o)
<1>1. /\ series' = [series EXCEPT ![u][j] = a] /\ call' = call /\ call[u].step = "started"
      /\ s.phase = "running" /\ s.todo # <<>>
  BY DEF wget_promise_callback, SetSeries, Ending
<1>2. series \in [Threads -> Seq(Series)]
  BY DEF TypeOK
<1> HIDE DEF a
<1>3. series'[u] = [series[u] EXCEPT ![j] = a]
  BY <1>1, <1>2
<1>4. series'[u][j] = a
  BY <1>3
<1> QED BY <1>1, <1>3, <1>4 DEF a

LEMMA SeriesEndSteps ==
  ASSUME TypeOK, NEW u \in Threads, NEW j \in DOMAIN series[u], SeriesEnd(u, j)
  PROVE  LET s == series[u][j]
             a == [s EXCEPT !.phase = "finished"]
         IN  /\ call[u].step = "started" /\ s.phase = "running"
             /\ series'[u] = [series[u] EXCEPT ![j] = a] /\ series'[u][j] = a
             /\ IF WakesCaller(call[u].op) THEN call'[u].step = "woken" ELSE call'[u] = call[u]
<1> DEFINE s == series[u][j]
           a == [s EXCEPT !.phase = "finished"]
<1>1. /\ series' = [series EXCEPT ![u][j] = a] /\ call[u].step = "started" /\ s.phase = "running"
      /\ IF WakesCaller(call[u].op) THEN Step(u, "woken") ELSE call' = call
  BY DEF SeriesEnd, SetSeries, Ended
<1>2. series \in [Threads -> Seq(Series)] /\ call[u] # NoCall
  BY <1>1 DEF TypeOK, NoCall
<1> HIDE DEF a
<1>3. series'[u] = [series[u] EXCEPT ![j] = a]
  BY <1>1, <1>2
<1>4. series'[u][j] = a
  BY <1>3
<1>5. Step(u, "woken") => call'[u].step = "woken"
  BY <1>2, CallStepType DEF Steps
<1> QED BY <1>1, <1>3, <1>4, <1>5 DEF a

\* The one series of a call that is not in a ParallelWork is not over while the
\* caller waits: its end is what wakes the caller.
StillToCome(u) ==
  call[u].step \in {"queued", "started"} /\ ~InParallelWork(call[u].op) => series[u][1].phase # "finished"
WaitInv == \A u \in Threads : StillToCome(u)

LEMMA WaitInvStep ==
  ASSUME Inv, WaitInv, [Next]_vars, NEW u \in Threads
  PROVE  StillToCome(u)'
<1>0. TypeOK /\ StillToCome(u)
  BY DEF Inv, WaitInv
<1>1. CASE UNCHANGED <<call[u], series[u]>>
  BY <1>0, <1>1 DEF StillToCome
<1>2. CASE Ends
  BY <1>2 DEF Ends, NoCall, StillToCome
<1>3. ASSUME NEW v \in Threads, CallStep(v) \/ \E op \in Ops, tasks \in TaskLists : Make(v, op, tasks), ~Ends
      PROVE  v = u \/ UNCHANGED <<call[u], series[u]>>
  BY <1>0, <1>3, OtherCalls
<1>4. CASE \E op \in Ops, tasks \in TaskLists : Make(u, op, tasks)
  <2>1. call'[u].step = "made"
    BY <1>0, <1>4 DEF Make, TypeOK
  <2> QED BY <2>1 DEF StillToCome
<1>5. CASE CallStep(u) /\ ~Ends
  <2>1. CASE Queue(u) \/ Start(u) \/ ParallelEnd(u) \/ Return(u)
    <3>1. CASE Queue(u) /\ call'[u].op = call[u].op
      <4>1. CASE ~InParallelWork(call[u].op)
        <5>1. series'[u] = <<SeriesOf([i \in DOMAIN call[u].tasks |-> i], 0)>>
          BY <1>0, <1>5, <3>1, <4>1 DEF Queue, TypeOK, InParallelWork
        <5>2. series'[u][1].phase = "running"
          BY <5>1 DEF SeriesOf
        <5> QED BY <5>2 DEF StillToCome
      <4>2. CASE InParallelWork(call[u].op)
        BY <3>1, <4>2 DEF StillToCome
      <4> QED BY <4>1, <4>2
    <3>2. CASE call[u].step = "queued" /\ call'[u].step = "started" /\ series' = series /\ call'[u].op = call[u].op
      BY <1>0, <3>2 DEF StillToCome
    <3>3. CASE call'[u].step \in {"woken", "returned"}
      BY <3>3 DEF StillToCome
    <3> QED BY <1>0, <1>5, <2>1, <3>1, <3>2, <3>3, CallerSteps
  <2>2. ASSUME NEW j \in DOMAIN series[u],
               base_callback_deal(u, j) \/ wget_info_callback(u, j) \/ RunAgain(u, j)
        PROVE  StillToCome(u)'
    BY <1>2, <2>2 DEF base_callback_deal, wget_info_callback, RunAgain
  <2>3. ASSUME NEW j \in DOMAIN series[u], NEW o \in Codes, wget_promise_callback(u, j, o)
        PROVE  StillToCome(u)'
    <3> DEFINE s == series[u][j]
               a == IF o = "SUCCESS" THEN Answered(s, o) ELSE Retried(s, o)
    <3>1. /\ call'[u] = call[u] /\ call[u].step = "started" /\ s.phase = "running"
          /\ series'[u] = [series[u] EXCEPT ![j] = a] /\ series'[u][j] = a
      BY <1>0, <1>5, <2>3, CallbackSteps
    <3>2. s \in Series
      BY <1>0 DEF TypeOK
    <3>3. a.phase # "finished"
      BY <3>1, <3>2 DEF Answered, Retried, Series
    <3> HIDE DEF a
    <3>4. series'[u][1] = series[u][1] \/ series'[u][1] = a
      BY <3>1
    <3> QED BY <1>0, <3>1, <3>3, <3>4 DEF StillToCome
  <2>4. ASSUME NEW j \in DOMAIN series[u], SeriesEnd(u, j)
        PROVE  StillToCome(u)'
    <3>1. /\ call[u].step = "started"
          /\ IF WakesCaller(call[u].op) THEN call'[u].step = "woken" ELSE call'[u] = call[u]
      BY <1>0, <2>4, SeriesEndSteps
    <3>2. call[u] # NoCall
      BY <3>1 DEF NoCall
    <3>3. call[u].op \in AllOps
      BY <1>0, <3>2, CallFields, OpsAssumption
    <3> QED BY <3>1, <3>3 DEF StillToCome, WakesCaller, InParallelWork, AllOps
  <2> QED BY <1>5, <2>1, <2>2, <2>3, <2>4 DEF CallStep
<1>6. CASE Next
  BY <1>1, <1>2, <1>3, <1>4, <1>5, <1>6 DEF Next, initHttpReqParams, setTaskStatusFunc
<1> QED BY <1>1, <1>6 DEF vars

\* No caller waits, whose series are all over, that nobody is to wake.
THEOREM NobodyWaitsForNothing == Spec => []WaitsForACallback
<1>1. Init => WaitInv
  BY DEF Init, NoCall, WaitInv, StillToCome
<1>2. Inv /\ WaitInv /\ [Next]_vars => WaitInv'
  BY WaitInvStep DEF WaitInv
<1>3. Inv /\ WaitInv => WaitsForACallback
  <2> SUFFICES ASSUME Inv, WaitInv, NEW u \in Threads, call[u].step = "started", Finished(u),
                      ~InParallelWork(call[u].op)
               PROVE FALSE
    BY DEF WaitsForACallback
  <2>1. series[u][1].phase # "finished"
    BY DEF WaitInv, StillToCome
  <2>2. TypeOK /\ SeriesInv(u)
    BY DEF Inv, ThreadInv
  <2>3. 1 \in DOMAIN series[u]
    BY <2>2 DEF TypeOK, SeriesInv, InWork, InParallelWork
  <2> QED BY <2>1, <2>3 DEF Finished
<1> QED BY <1>1, <1>2, <1>3, RequestInvariance, PTL DEF Spec

LEMMA NearerByAnswer ==
  ASSUME NEW s \in Series, NEW o \in Codes, s.phase = "running", s.todo # <<>>
  PROVE  Nearer(s, IF o = "SUCCESS" THEN Answered(s, o) ELSE Retried(s, o))
<1>1. s.todo \in Seq(1..MaxTasks) /\ Len(Tail(s.todo)) = Len(s.todo) - 1
  BY DEF Series
<1>2. Answered(s, o).phase = "running" /\ Answered(s, o).todo = Tail(s.todo)
  BY DEF Answered, Series
<1>3. Retried(s, o).phase = "retrying" /\ Retried(s, o).todo = s.todo
  BY DEF Retried, Series
<1>4. PhaseLeft["retrying"] < PhaseLeft["running"]
  BY DEF PhaseLeft
<1> QED BY <1>1, <1>2, <1>3, <1>4 DEF Nearer

LEMMA NearerByEnd ==
  ASSUME NEW s \in Series, s.phase = "running"
  PROVE  Nearer(s, [s EXCEPT !.phase = "finished"])
<1>1. [s EXCEPT !.phase = "finished"].phase = "finished" /\ [s EXCEPT !.phase = "finished"].todo = s.todo
  BY DEF Series
<1>2. PhaseLeft["finished"] < PhaseLeft["running"]
  BY DEF PhaseLeft
<1> QED BY <1>1, <1>2 DEF Nearer

\* The step that CallbacksAdvance allows thread u.
Advances(u) ==
  process' = "running" /\ call[u].step \notin {"idle", "returned"} =>
    \/ UNCHANGED <<call[u], series[u]>>
    \/ StepsDone[call'[u].step] = StepsDone[call[u].step] + 1
    \/ /\ call'[u] = call[u] /\ call[u].step = "started"
       /\ \E j \in DOMAIN series[u] :
            /\ Nearer(series[u][j], series'[u][j])
            /\ series'[u] = [series[u] EXCEPT ![j] = series'[u][j]]

LEMMA AdvancesStep ==
  ASSUME TypeOK, Next, NEW u \in Threads
  PROVE  Advances(u)
<1> SUFFICES ASSUME process' = "running", call[u].step \notin {"idle", "returned"},
                    ~UNCHANGED <<call[u], series[u]>>
             PROVE  \/ StepsDone[call'[u].step] = StepsDone[call[u].step] + 1
                    \/ /\ call'[u] = call[u] /\ call[u].step = "started"
                       /\ \E j \in DOMAIN series[u] :
                            /\ Nearer(series[u][j], series'[u][j])
                            /\ series'[u] = [series[u] EXCEPT ![j] = series'[u][j]]
  BY DEF Advances
<1>1. ~Ends
  BY DEF Ends
<1>2. CallStep(u)
  <2>1. ASSUME NEW op \in Ops, NEW tasks \in TaskLists PROVE ~Make(u, op, tasks)
    BY DEF Make
  <2>2. ASSUME NEW v \in Threads \ {u}, CallStep(v) \/ \E op \in Ops, tasks \in TaskLists : Make(v, op, tasks)
        PROVE  FALSE
    BY <1>1, <2>2, OtherCalls
  <2> QED BY <2>1, <2>2 DEF Next, initHttpReqParams, setTaskStatusFunc
<1>3. CASE Queue(u) \/ Start(u) \/ ParallelEnd(u) \/ Return(u)
  <2>1. /\ StepsDone["queued"] = StepsDone["made"] + 1 /\ StepsDone["started"] = StepsDone["queued"] + 1
        /\ StepsDone["woken"] = StepsDone["started"] + 1 /\ StepsDone["returned"] = StepsDone["woken"] + 1
    BY DEF StepsDone
  <2>2. \/ call[u].step = "made" /\ call'[u].step = "queued"
        \/ call[u].step = "queued" /\ call'[u].step = "started"
        \/ call[u].step = "started" /\ call'[u].step = "woken"
        \/ call[u].step = "woken" /\ call'[u].step = "returned"
    BY <1>1, <1>3, CallerSteps
  <2>3. StepsDone[call'[u].step] = StepsDone[call[u].step] + 1
    BY <2>1, <2>2
  <2> QED BY <2>3
<1>4. ASSUME NEW j \in DOMAIN series[u],
             base_callback_deal(u, j) \/ wget_info_callback(u, j) \/ RunAgain(u, j)
      PROVE  FALSE
  BY <1>1, <1>4 DEF base_callback_deal, wget_info_callback, RunAgain
<1>5. ASSUME NEW j \in DOMAIN series[u], NEW o \in Codes, wget_promise_callback(u, j, o)
      PROVE  /\ call'[u] = call[u] /\ call[u].step = "started"
             /\ Nearer(series[u][j], series'[u][j])
             /\ series'[u] = [series[u] EXCEPT ![j] = series'[u][j]]
  <2> DEFINE s == series[u][j]
             a == IF o = "SUCCESS" THEN Answered(s, o) ELSE Retried(s, o)
  <2>1. s \in Series
    BY DEF TypeOK
  <2>2. /\ call'[u] = call[u] /\ call[u].step = "started" /\ s.phase = "running" /\ s.todo # <<>>
        /\ series'[u] = [series[u] EXCEPT ![j] = a] /\ series'[u][j] = a
    BY <1>1, <1>5, CallbackSteps
  <2>3. Nearer(s, a)
    BY <2>1, <2>2, NearerByAnswer
  <2> HIDE DEF a
  <2> QED BY <2>2, <2>3
<1>6. ASSUME NEW j \in DOMAIN series[u], SeriesEnd(u, j)
      PROVE  \/ StepsDone[call'[u].step] = StepsDone[call[u].step] + 1
             \/ /\ call'[u] = call[u] /\ call[u].step = "started"
                /\ Nearer(series[u][j], series'[u][j])
                /\ series'[u] = [series[u] EXCEPT ![j] = series'[u][j]]
  <2> DEFINE s == series[u][j]
             a == [s EXCEPT !.phase = "finished"]
  <2>1. s \in Series
    BY DEF TypeOK
  <2>2. /\ call[u].step = "started" /\ s.phase = "running"
        /\ series'[u] = [series[u] EXCEPT ![j] = a] /\ series'[u][j] = a
        /\ IF WakesCaller(call[u].op) THEN call'[u].step = "woken" ELSE call'[u] = call[u]
    BY <1>6, <2>1, SeriesEndSteps
  <2>3. Nearer(s, a)
    BY <2>1, <2>2, NearerByEnd
  <2> HIDE DEF a
  <2>4. StepsDone["woken"] = StepsDone["started"] + 1
    BY DEF StepsDone
  <2> QED BY <2>2, <2>3, <2>4
<1> QED BY <1>2, <1>3, <1>4, <1>5, <1>6 DEF CallStep

\* No callback takes back what another one has brought.
THEOREM RequestsAdvance == Spec => CallbacksAdvance
<1>1. TypeOK /\ [Next]_vars => [\A u \in Threads : Advances(u)]_vars
  BY AdvancesStep
<1>2. [\A u \in Threads : Advances(u)]_vars
      => [\A u \in Threads :
            process' = "running" /\ call[u].step \notin {"idle", "returned"} =>
              \/ UNCHANGED <<call[u], series[u]>>
              \/ StepsDone[call'[u].step] = StepsDone[call[u].step] + 1
              \/ /\ call'[u] = call[u] /\ call[u].step = "started"
                 /\ \E j \in DOMAIN series[u] :
                      /\ Nearer(series[u][j], series'[u][j])
                      /\ series'[u] = [series[u] EXCEPT ![j] = series'[u][j]]]_vars
  BY DEF Advances
<1> QED BY <1>1, <1>2, RequestTypes, PTL DEF Spec, CallbacksAdvance

-----------------------------------------------------------------------------
(* The calls implement RequestService. *)

\* A series of a parallel call has no other response than that of its own task.
OwnResponses(u) ==
  call[u].op = "parallel" =>
    \A j \in DOMAIN series[u] : \A k \in DOMAIN series[u][j].data : series[u][j].data[k] \in {0, j}
OwnInv == \A u \in Threads : OwnResponses(u)

LEMMA AppendDomain ==
  ASSUME NEW S, NEW q \in Seq(S), NEW x \in S
  PROVE  /\ DOMAIN Append(q, x) = DOMAIN q \cup {Len(q) + 1} /\ Append(q, x)[Len(q) + 1] = x
         /\ \A k \in DOMAIN q : Append(q, x)[k] = q[k]
         /\ DOMAIN q = 1..Len(q) /\ Len(q) \in Nat
OBVIOUS

LEMMA ResponseAppended ==
  ASSUME NEW s \in Series, NEW o
  PROVE  /\ Answered(s, o).data = Append(s.data, Response(s, o))
         /\ Retried(s, o).data = Append(s.data, Response(s, o))
<1> DEFINE r == Response(s, o)
<1> HIDE DEF r
<1>1. [s EXCEPT !.status = o, !.data = Append(s.data, r), !.phase = "retrying"].data = Append(s.data, r)
  BY DEF Series
<1>2. [s EXCEPT !.status = o, !.data = Append(s.data, r), !.todo = Tail(s.todo),
                !.curTaskIndex = s.curTaskIndex + 1].data = Append(s.data, r)
  BY DEF Series
<1> QED BY <1>1, <1>2 DEF Answered, Retried, r, Series

\* What an answer, good or bad, stores in the series it comes in.
LEMMA StoredResponse ==
  ASSUME Inv, NEW u \in Threads, call[u].step = "started", NEW j \in DOMAIN series[u], NEW o \in Codes,
         series[u][j].phase = "running", series[u][j].todo # <<>>
  PROVE  LET s == series[u][j]
             a == IF o = "SUCCESS" THEN Answered(s, o) ELSE Retried(s, o)
         IN  /\ a.data = Append(s.data, Response(s, o))
             /\ s.data \in Seq(0..MaxTasks) /\ Response(s, o) \in 0..MaxTasks
             /\ Response(s, o) = IF o = "SUCCESS" THEN s.curTaskIndex + 1 ELSE 0
             /\ s.curTaskIndex \in Nat /\ s.curTaskIndex + 1 \in DOMAIN call[u].tasks
             /\ Len(s.data) = s.curTaskIndex - Offset(u, j)
             /\ \A k \in DOMAIN s.data : s.data[k] = Offset(u, j) + k
             /\ call[u].op = "parallel" => s.curTaskIndex + 1 = j
             /\ call[u].op # "parallel" => j = 1 /\ DOMAIN series[u] = {1} /\ Offset(u, j) = 0
<1> DEFINE s == series[u][j]
           a == IF o = "SUCCESS" THEN Answered(s, o) ELSE Retried(s, o)
           f == Offset(u, j)
           c == Count(u)
<1>1. TypeOK /\ SeriesInv(u) /\ call[u].step \in InWork
  BY DEF Inv, ThreadInv, InWork
<1>2. /\ call[u] # NoCall /\ series[u] \in Seq(Series) /\ s \in Series
      /\ f \in Nat /\ c \in Nat /\ f + c <= MaxTasks /\ f + c <= Len(call[u].tasks)
      /\ call[u].op # "parallel" => j = 1 /\ Len(series[u]) = 1 /\ f = 0
      /\ call[u].op = "parallel" => f = j - 1 /\ c = 1
      /\ Progress(s, f, c) /\ j \in Nat
  BY <1>1, SeriesFields
<1>3. Len(call[u].tasks) \in Nat /\ DOMAIN call[u].tasks = 1..Len(call[u].tasks)
  BY <1>1, <1>2, CallFields, TasksAssumption
<1>5. a.data = Append(s.data, Response(s, o))
  BY <1>2, ResponseAppended
<1> HIDE DEF s, a, f, c
<1>4. s.data \in Seq(0..MaxTasks) /\ s.curTaskIndex \in Nat
  <2>1. s \in Series /\ \A n \in 0..MaxTasks : n \in Nat
    BY <1>2, TasksAssumption
  <2> QED BY <2>1 DEF Series
<1>6. Head(s.todo) = s.curTaskIndex + 1 /\ s.curTaskIndex \in f..(f + c - 1)
  BY <1>2, AnsweredProgress DEF s
<1>7. s.curTaskIndex + 1 \in 1..MaxTasks /\ s.curTaskIndex + 1 \in DOMAIN call[u].tasks
  BY <1>2, <1>3, <1>4, <1>6, TasksAssumption
<1>8. Response(s, o) = (IF o = "SUCCESS" THEN s.curTaskIndex + 1 ELSE 0) /\ Response(s, o) \in 0..MaxTasks
  BY <1>6, <1>7, TasksAssumption DEF Response
<1>9. Responses(s, f)
  BY <1>2 DEF Progress, s
<1>10. Len(s.data) = s.curTaskIndex - f /\ \A k \in DOMAIN s.data : s.data[k] = f + k
  BY <1>4, <1>9 DEF Responses
<1>11. call[u].op = "parallel" => s.curTaskIndex + 1 = j
  BY <1>2, <1>4, <1>6
<1>12. call[u].op # "parallel" => DOMAIN series[u] = {1}
  BY <1>2
<1> QED BY <1>2, <1>4, <1>5, <1>7, <1>8, <1>10, <1>11, <1>12, Zenon DEF s, a, f

LEMMA OwnInvStep ==
  ASSUME Inv, OwnInv, [Next]_vars, NEW u \in Threads
  PROVE  OwnResponses(u)'
<1>0. TypeOK /\ OwnResponses(u)
  BY DEF Inv, OwnInv
<1>1. CASE UNCHANGED <<call[u], series[u]>>
  BY <1>0, <1>1 DEF OwnResponses
<1>2. CASE Ends
  BY <1>2 DEF Ends, NoCall, OwnResponses
<1>3. ASSUME NEW v \in Threads, CallStep(v) \/ \E op \in Ops, tasks \in TaskLists : Make(v, op, tasks), ~Ends
      PROVE  v = u \/ UNCHANGED <<call[u], series[u]>>
  BY <1>0, <1>3, OtherCalls
<1>4. CASE \E op \in Ops, tasks \in TaskLists : Make(u, op, tasks)
  <2>1. series'[u] = <<>>
    BY <1>4 DEF Inv, ThreadInv, SeriesInv, InWork, Make
  <2> QED BY <2>1 DEF OwnResponses
<1>5. CASE CallStep(u) /\ ~Ends
  <2>1. CASE Queue(u) \/ Start(u) \/ ParallelEnd(u) \/ Return(u)
    <3>1. call'[u].op = call[u].op
      BY <1>0, <1>5, <2>1, CallerSteps
    <3>2. CASE Queue(u)
      <4>1. CASE call[u].op = "parallel"
        <5>1. series'[u] = [i \in DOMAIN call[u].tasks |-> SeriesOf(<<i>>, i - 1)]
          BY <1>0, <1>5, <3>2, <4>1 DEF Queue, TypeOK
        <5>2. \A j \in DOMAIN series'[u] : series'[u][j].data = <<>>
          BY <5>1 DEF SeriesOf
        <5> QED BY <5>2 DEF OwnResponses
      <4>2. CASE call[u].op # "parallel"
        BY <3>1, <4>2 DEF OwnResponses
      <4> QED BY <4>1, <4>2
    <3>3. CASE Start(u) \/ ParallelEnd(u)
      <4>1. series' = series
        BY <3>3 DEF Start, ParallelEnd
      <4> QED BY <1>0, <3>1, <4>1 DEF OwnResponses
    <3>4. CASE Return(u)
      <4>1. series'[u] = <<>>
        BY <1>0, <3>4 DEF Return, TypeOK
      <4> QED BY <4>1 DEF OwnResponses
    <3> QED BY <2>1, <3>2, <3>3, <3>4
  <2>2. ASSUME NEW j \in DOMAIN series[u],
               base_callback_deal(u, j) \/ wget_info_callback(u, j) \/ RunAgain(u, j)
        PROVE  OwnResponses(u)'
    BY <1>2, <2>2 DEF base_callback_deal, wget_info_callback, RunAgain
  <2>3. ASSUME NEW j \in DOMAIN series[u], NEW o \in Codes, wget_promise_callback(u, j, o)
        PROVE  OwnResponses(u)'
    <3> DEFINE s == series[u][j]
               a == IF o = "SUCCESS" THEN Answered(s, o) ELSE Retried(s, o)
    <3>1. /\ call'[u] = call[u] /\ call[u].step = "started" /\ s.phase = "running" /\ s.todo # <<>>
          /\ series'[u] = [series[u] EXCEPT ![j] = a] /\ series'[u][j] = a
      BY <1>0, <1>5, <2>3, CallbackSteps
    <3>2. /\ a.data = Append(s.data, Response(s, o))
          /\ s.data \in Seq(0..MaxTasks) /\ Response(s, o) \in 0..MaxTasks
          /\ call[u].op = "parallel" => Response(s, o) \in {0, j}
      BY <3>1, StoredResponse
    <3>3. \A k \in DOMAIN a.data : a.data[k] = Response(s, o) \/ (k \in DOMAIN s.data /\ a.data[k] = s.data[k])
      <4> HIDE DEF a
      <4> DEFINE r == Response(s, o)
                 q == s.data
      <4>1. a.data = Append(q, r) /\ q \in Seq(0..MaxTasks) /\ r \in 0..MaxTasks
        BY <3>2
      <4> HIDE DEF r, q
      <4>2. \A k \in DOMAIN Append(q, r) : Append(q, r)[k] = r \/ (k \in DOMAIN q /\ Append(q, r)[k] = q[k])
        BY <4>1, AppendDomain
      <4> QED BY <4>1, <4>2 DEF r, q
    <3> HIDE DEF a
    <3>4. \A i \in DOMAIN series'[u] : i \in DOMAIN series[u] /\ (i # j => series'[u][i] = series[u][i])
      BY <3>1
    <3> SUFFICES ASSUME call[u].op = "parallel", NEW i \in DOMAIN series'[u],
                        NEW k \in DOMAIN series'[u][i].data
                 PROVE  series'[u][i].data[k] \in {0, i}
      BY <3>1 DEF OwnResponses
    <3>5. CASE i = j
      BY <1>0, <3>1, <3>2, <3>3, <3>5 DEF OwnResponses
    <3>6. CASE i # j
      BY <1>0, <3>4, <3>6 DEF OwnResponses
    <3> QED BY <3>5, <3>6
  <2>4. ASSUME NEW j \in DOMAIN series[u], SeriesEnd(u, j)
        PROVE  OwnResponses(u)'
    <3> DEFINE a == [series[u][j] EXCEPT !.phase = "finished"]
    <3>1. series'[u] = [series[u] EXCEPT ![j] = a] /\ series'[u][j] = a
      BY <1>0, <2>4, SeriesEndSteps
    <3>2. a.data = series[u][j].data
      <4>1. series[u][j] \in Series
        BY <1>0 DEF TypeOK
      <4> QED BY <4>1 DEF Series
    <3>3. call'[u].op = call[u].op
      <4>1. call[u] # NoCall
        BY <2>4 DEF SeriesEnd, Ended, NoCall
      <4>2. CASE Step(u, "woken")
        BY <1>0, <4>1, <4>2, CallStepType DEF Steps
      <4>3. CASE call' = call
        BY <4>3
      <4> QED BY <2>4, <4>2, <4>3 DEF SeriesEnd
    <3> HIDE DEF a
    <3>4. \A i \in DOMAIN series'[u] : i \in DOMAIN series[u] /\ series'[u][i].data = series[u][i].data
      BY <3>1, <3>2
    <3> QED BY <1>0, <3>3, <3>4 DEF OwnResponses
  <2> QED BY <1>5, <2>1, <2>2, <2>3, <2>4 DEF CallStep
<1>6. CASE Next
  BY <1>1, <1>2, <1>3, <1>4, <1>5, <1>6 DEF Next, initHttpReqParams, setTaskStatusFunc
<1> QED BY <1>1, <1>6 DEF vars

LEMMA OwnResponsesAlways == Spec => []OwnInv
<1>1. Init => OwnInv
  BY DEF Init, NoCall, OwnInv, OwnResponses
<1>2. Inv /\ OwnInv /\ [Next]_vars => OwnInv'
  BY OwnInvStep DEF OwnInv
<1> QED BY <1>1, <1>2, RequestInvariance, PTL DEF Spec

\* The responses of the call before one more comes in: those of the tasks before
\* it, if the tasks are in one series; never its own.
LEMMA BroughtBefore ==
  ASSUME Inv, OwnInv, NEW u \in Threads, call[u].step = "started", NEW j \in DOMAIN series[u],
         series[u][j].phase = "running", series[u][j].todo # <<>>
  PROVE  LET i == series[u][j].curTaskIndex + 1
         IN  /\ i \in DOMAIN call[u].tasks /\ i \notin Brought(u)
             /\ call[u].op # "parallel" => Brought(u) = 1..(i - 1)
<1> DEFINE s == series[u][j]
           x == s.curTaskIndex
           d == s.data
<1>1. /\ d \in Seq(0..MaxTasks) /\ x \in Nat /\ x + 1 \in DOMAIN call[u].tasks
      /\ Len(d) = x - Offset(u, j) /\ \A k \in DOMAIN d : d[k] = Offset(u, j) + k
      /\ call[u].op = "parallel" => x + 1 = j
      /\ call[u].op # "parallel" => j = 1 /\ DOMAIN series[u] = {1} /\ Offset(u, j) = 0
  BY StoredResponse DEF Codes
<1>2. DOMAIN d = 1..Len(d) /\ Len(d) \in Nat
  BY <1>1
<1>3. DOMAIN call[u].tasks = 1..Len(call[u].tasks) /\ Len(call[u].tasks) \in Nat
  <2>1. call[u] # NoCall
    BY DEF NoCall
  <2> QED BY <2>1, CallFields, TasksAssumption DEF Inv
<1>4. CASE call[u].op # "parallel"
  <2>1. DOMAIN d = 1..x /\ \A k \in 1..x : d[k] = k
    <3> HIDE DEF d, x
    <3> QED BY <1>1, <1>2, <1>4
  <2>2. Brought(u) = {i \in DOMAIN call[u].tasks : \E k \in DOMAIN d : d[k] = i}
    BY <1>1, <1>4 DEF Brought
  <2> HIDE DEF d, x
  <2>3. 1..x \subseteq DOMAIN call[u].tasks
    BY <1>1, <1>3
  <2>4. Brought(u) = 1..x
    BY <2>1, <2>2, <2>3
  <2>5. x + 1 \notin 1..x /\ (x + 1) - 1 = x
    BY <1>1
  <2> QED BY <1>1, <2>4, <2>5 DEF x
<1>5. CASE call[u].op = "parallel"
  <2>1. j = x + 1 /\ Len(d) = 0 /\ j \in Nat /\ j # 0
    <3>1. Offset(u, j) = j - 1
      BY <1>5 DEF Offset
    <3> HIDE DEF d, x
    <3> QED BY <1>1, <1>5, <3>1
  <2>2. \A i \in DOMAIN series[u] : \A k \in DOMAIN series[u][i].data : series[u][i].data[k] \in {0, i}
    BY <1>5 DEF OwnInv, OwnResponses
  <2>3. DOMAIN series[u][j].data = {}
    BY <1>2, <2>1
  <2>4. ASSUME NEW i \in DOMAIN series[u], NEW k \in DOMAIN series[u][i].data
        PROVE  series[u][i].data[k] # j
    BY <2>1, <2>2, <2>3, <2>4
  <2>5. j \notin Brought(u)
    BY <2>4 DEF Brought
  <2> QED BY <1>1, <1>5, <2>1, <2>5
<1> QED BY <1>4, <1>5

LEMMA BroughtAfter ==
  ASSUME Inv, OwnInv, NEW u \in Threads, NEW j \in DOMAIN series[u], NEW o \in Codes, ~Ends,
         wget_promise_callback(u, j, o)
  PROVE  Brought(u)' = IF o = "SUCCESS" THEN Brought(u) \cup {series[u][j].curTaskIndex + 1} ELSE Brought(u)
<1> DEFINE s == series[u][j]
           a == IF o = "SUCCESS" THEN Answered(s, o) ELSE Retried(s, o)
           r == Response(s, o)
           q == s.data
<1>1. /\ call'[u] = call[u] /\ call[u].step = "started" /\ s.phase = "running" /\ s.todo # <<>>
      /\ series'[u] = [series[u] EXCEPT ![j] = a] /\ series'[u][j] = a
  BY CallbackSteps DEF Inv
<1>2. /\ a.data = Append(q, r) /\ q \in Seq(0..MaxTasks) /\ r \in 0..MaxTasks
      /\ r = IF o = "SUCCESS" THEN s.curTaskIndex + 1 ELSE 0
      /\ s.curTaskIndex + 1 \in DOMAIN call[u].tasks
  BY <1>1, StoredResponse
<1>3. 0 \notin DOMAIN call[u].tasks
  <2>1. call[u] # NoCall
    BY <1>1 DEF NoCall
  <2>2. DOMAIN call[u].tasks = 1..Len(call[u].tasks) /\ Len(call[u].tasks) \in Nat
    BY <2>1, CallFields, TasksAssumption DEF Inv
  <2> QED BY <2>2
<1> HIDE DEF a, r, q
<1>4. \A i : (\E k \in DOMAIN a.data : a.data[k] = i) <=> (i = r \/ \E k \in DOMAIN q : q[k] = i)
  <2>1. /\ DOMAIN a.data = DOMAIN q \cup {Len(q) + 1} /\ a.data[Len(q) + 1] = r
        /\ \A k \in DOMAIN q : a.data[k] = q[k]
    BY <1>2, AppendDomain
  <2> QED BY <2>1, Zenon
<1>5. DOMAIN series'[u] = DOMAIN series[u] /\ \A i \in DOMAIN series[u] \ {j} : series'[u][i] = series[u][i]
  BY <1>1
<1>6. \A i : (\E m \in DOMAIN series'[u] : \E k \in DOMAIN series'[u][m].data : series'[u][m].data[k] = i)
             <=> (i = r \/ \E m \in DOMAIN series[u] : \E k \in DOMAIN series[u][m].data : series[u][m].data[k] = i)
  <2> DEFINE Has(d, i) == \E k \in DOMAIN d : d[k] = i
  <2>1. \A i : Has(a.data, i) <=> (i = r \/ Has(series[u][j].data, i))
    BY <1>4 DEF q
  <2> HIDE DEF Has
  <2>2. \A i : (\E m \in DOMAIN series'[u] : Has(series'[u][m].data, i))
               <=> (i = r \/ \E m \in DOMAIN series[u] : Has(series[u][m].data, i))
    BY <1>1, <1>5, <2>1
  <2> QED BY <2>2 DEF Has
<1>7. Brought(u)' = {i \in DOMAIN call[u].tasks : i = r \/ i \in Brought(u)}
  BY <1>1, <1>6 DEF Brought
<1>8. Brought(u) \subseteq DOMAIN call[u].tasks
  BY DEF Brought
<1> QED BY <1>2, <1>3, <1>7, <1>8

\* When the caller of a call is woken, it has all its responses.
LEMMA BroughtAtLast ==
  ASSUME Inv, NEW u \in Threads, call[u].step = "woken"
  PROVE  Brought(u) = 1..Len(call[u].tasks)
<1>1. TypeOK /\ SeriesInv(u) /\ call[u].step \in InWork /\ Finished(u) /\ call[u] # NoCall
  BY DEF Inv, ThreadInv, RetInv, InWork, NoCall
<1>2. DOMAIN call[u].tasks = 1..Len(call[u].tasks) /\ Len(call[u].tasks) \in Nat
  BY <1>1, CallFields, TasksAssumption
<1>3. series[u] \in Seq(Series) /\ Len(series[u]) = IF call[u].op = "parallel" THEN Len(call[u].tasks) ELSE 1
  BY <1>1 DEF TypeOK, SeriesInv
<1>4. ASSUME NEW j \in DOMAIN series[u]
      PROVE  \A k \in 1..Count(u) : k \in DOMAIN series[u][j].data /\ series[u][j].data[k] = Offset(u, j) + k
  <2> DEFINE s == series[u][j]
             f == Offset(u, j)
             c == Count(u)
  <2>1. s \in Series /\ f \in Nat /\ c \in Nat /\ Progress(s, f, c) /\ s.phase = "finished"
    BY <1>1, SeriesFields DEF Finished
  <2> HIDE DEF s, f, c
  <2>2. s.curTaskIndex = f + c
    BY <2>1 DEF Progress
  <2>3. s.data \in Seq(0..MaxTasks) /\ Len(s.data) = c /\ \A k \in 1..c : s.data[k] = f + k
    BY <2>1, <2>2, FinishedData
  <2> QED BY <2>3 DEF s, f, c
<1>5. ASSUME NEW i \in 1..Len(call[u].tasks) PROVE i \in Brought(u)
  <2>1. CASE call[u].op = "parallel"
    <3>1. i \in DOMAIN series[u] /\ Offset(u, i) = i - 1 /\ Count(u) = 1
      BY <1>3, <2>1 DEF Offset, Count
    <3>2. 1 \in DOMAIN series[u][i].data /\ series[u][i].data[1] = (i - 1) + 1
      BY <1>4, <3>1
    <3>3. (i - 1) + 1 = i
      BY <1>2
    <3> QED BY <1>2, <3>1, <3>2, <3>3 DEF Brought
  <2>2. CASE call[u].op # "parallel"
    <3>1. 1 \in DOMAIN series[u] /\ Offset(u, 1) = 0 /\ Count(u) = Len(call[u].tasks)
      BY <1>3, <2>2 DEF Offset, Count
    <3>2. i \in DOMAIN series[u][1].data /\ series[u][1].data[i] = 0 + i
      BY <1>4, <3>1
    <3>3. 0 + i = i
      BY <1>2
    <3> QED BY <1>2, <3>1, <3>2, <3>3 DEF Brought
  <2> QED BY <2>1, <2>2
<1> QED BY <1>2, <1>5 DEF Brought

\* What a caller can tell of its call.
Answers(u) == IF Waiting[u] THEN <<>> ELSE ret[u].allResult
SameView(u) ==
  /\ call'[u].tasks = call[u].tasks /\ call'[u].op = call[u].op /\ Waiting'[u] = Waiting[u]
  /\ Brought(u)' = Brought(u) /\ Answers(u)' = Answers(u)

LEMMA ServiceStutters ==
  ASSUME process' = process, \A u \in Threads : SameView(u)
  PROVE  UNCHANGED Service!serviceVars
<1>1. \A u \in Threads : Len(call'[u].tasks) = Len(call[u].tasks)
  BY DEF SameView
<1>2. Waiting' = Waiting
  BY DEF SameView, Waiting
<1>3. [u \in Threads |-> Answers(u)]' = [u \in Threads |-> Answers(u)]
  BY DEF SameView
<1> QED BY <1>1, <1>2, <1>3 DEF SameView, Service!serviceVars, Answers

LEMMA SameCallSameView ==
  ASSUME NEW u \in Threads, UNCHANGED <<call[u], series[u], ret[u]>>
  PROVE  SameView(u)
BY DEF SameView, Waiting, Brought, Answers

LEMMA BreaksDown == Ends => Service!BreakDown
<1> SUFFICES ASSUME Ends PROVE Service!BreakDown
  OBVIOUS
<1>1. /\ process' = "ended"
      /\ \A u \in Threads : /\ call'[u].tasks = <<>> /\ call'[u].op = "none" /\ ~Waiting'[u]
                            /\ series'[u] = <<>> /\ ret'[u].allResult = <<>>
  BY DEF Ends, NoCall, NoRet, Waiting
<1>2. \A u \in Threads : Brought(u)' = {} /\ Len(call'[u].tasks) = 0
  BY <1>1 DEF Brought
<1>3. Waiting' = [u \in Threads |-> FALSE]
  BY <1>1 DEF Waiting
<1> HIDE DEF Waiting
<1>4. [u \in Threads |-> Len(call[u].tasks)]' = [u \in Threads |-> 0]
  BY <1>2
<1>5. [u \in Threads |-> call[u].op \notin {"none", "parallel"}]' = [u \in Threads |-> FALSE]
  BY <1>1
<1>6. [u \in Threads |-> Brought(u)]' = [u \in Threads |-> {}]
  BY <1>2
<1>7. [u \in Threads |-> IF Waiting[u] THEN <<>> ELSE ret[u].allResult]' = [u \in Threads |-> <<>>]
  BY <1>1
<1>8. (process' = "running") = FALSE
  BY <1>1
<1> QED BY <1>3, <1>4, <1>5, <1>6, <1>7, <1>8 DEF Service!BreakDown

LEMMA MakeAsks ==
  ASSUME Inv, NEW u \in Threads, NEW op \in Ops, NEW tasks \in TaskLists, Make(u, op, tasks)
  PROVE  \E n \in 1..MaxTasks, turns \in BOOLEAN : Service!Ask(u, n, turns)
<1> DEFINE n == Len(tasks)
           turns == op \notin {"none", "parallel"}
<1>1. n \in 1..MaxTasks
  <2>1. PICK m \in 1..MaxTasks : tasks \in [1..m -> TaskKinds]
    BY DEF TaskLists
  <2>2. m \in Nat
    BY TasksAssumption
  <2> QED BY <2>1, <2>2, FunctionsAreSequences
<1>2. /\ process = "running" /\ process' = "running"
      /\ call'[u].tasks = tasks /\ call'[u].op = op /\ call'[u].step = "made"
      /\ call[u].step \in {"idle", "returned"} /\ series' = series
  BY DEF Make, Running, Inv, TypeOK, Settings
<1>3. series[u] = <<>>
  BY <1>2 DEF Inv, ThreadInv, SeriesInv, InWork
<1>4. Brought(u) = {} /\ Brought(u)' = {}
  BY <1>2, <1>3 DEF Brought
<1>5. ~Waiting[u] /\ Waiting'[u] /\ Waiting' = [Waiting EXCEPT ![u] = TRUE]
  <2>1. ~Waiting[u] /\ Waiting'[u]
    BY <1>2 DEF Waiting
  <2>2. \A w \in Threads \ {u} : call'[w] = call[w]
    BY DEF Make, Inv, TypeOK
  <2>3. Waiting' = [Waiting EXCEPT ![u] = TRUE]
    BY <2>1, <2>2 DEF Waiting
  <2> QED BY <2>1, <2>3
<1>6. \A w \in Threads \ {u} : UNCHANGED <<call[w], series[w], ret[w]>>
  BY DEF Make, Inv, TypeOK
<1>7. \A w \in Threads \ {u} : Brought(w)' = Brought(w) /\ Waiting'[w] = Waiting[w]
  BY <1>6 DEF Brought, Waiting
<1> HIDE DEF Waiting, n, turns
<1>8. [w \in Threads |-> Len(call[w].tasks)]' = [[w \in Threads |-> Len(call[w].tasks)] EXCEPT ![u] = n]
  BY <1>2, <1>6 DEF n
<1>9. [w \in Threads |-> call[w].op \notin {"none", "parallel"}]'
        = [[w \in Threads |-> call[w].op \notin {"none", "parallel"}] EXCEPT ![u] = turns]
  BY <1>2, <1>6 DEF turns
<1>10. [w \in Threads |-> IF Waiting[w] THEN <<>> ELSE ret[w].allResult]'
        = [[w \in Threads |-> IF Waiting[w] THEN <<>> ELSE ret[w].allResult] EXCEPT ![u] = <<>>]
  BY <1>5, <1>6, <1>7
<1>11. [w \in Threads |-> Brought(w)]' = [w \in Threads |-> Brought(w)]
  BY <1>4, <1>7
<1>12. (process = "running")' = (process = "running") /\ process = "running"
  BY <1>2
<1>13. turns \in BOOLEAN
  BY DEF turns
<1>14. Service!Ask(u, n, turns)
  BY <1>5, <1>8, <1>9, <1>10, <1>11, <1>12 DEF Service!Ask
<1> QED BY <1>1, <1>13, <1>14

LEMMA CallbackBrings ==
  ASSUME Inv, OwnInv, NEW u \in Threads, NEW j \in DOMAIN series[u], ~Ends,
         wget_promise_callback(u, j, "SUCCESS")
  PROVE  \E i \in 1..MaxTasks : Service!Bring(u, i)
<1> DEFINE i == series[u][j].curTaskIndex + 1
<1>1. /\ UNCHANGED <<call, ret, process>> /\ process = "running" /\ call[u].step = "started"
      /\ series[u][j].phase = "running" /\ series[u][j].todo # <<>>
  BY DEF wget_promise_callback, Ending, Running, Settings
<1>2. Brought(u)' = Brought(u) \cup {i}
  BY BroughtAfter DEF Codes
<1>3. /\ i \in DOMAIN call[u].tasks /\ i \notin Brought(u)
      /\ call[u].op # "parallel" => Brought(u) = 1..(i - 1)
  BY <1>1, BroughtBefore
<1> HIDE DEF i
<1>4. Len(call[u].tasks) \in 1..MaxTasks /\ DOMAIN call[u].tasks = 1..Len(call[u].tasks)
  <2>1. call[u] # NoCall
    BY <1>1 DEF NoCall
  <2> QED BY <2>1, CallFields DEF Inv
<1>5. i \in 1..MaxTasks
  BY <1>3, <1>4, TasksAssumption
<1>6. \A w \in Threads \ {u} : UNCHANGED <<call[w], series[w]>>
  <2>1. CallStep(u)
    BY DEF CallStep, Codes
  <2> QED BY <2>1, OtherCalls DEF Inv
<1>7. \A w \in Threads \ {u} : Brought(w)' = Brought(w)
  BY <1>6 DEF Brought
<1>8. [w \in Threads |-> Brought(w)]' = [[w \in Threads |-> Brought(w)] EXCEPT ![u] = Brought(u) \cup {i}]
  BY <1>2, <1>7
<1>9. Waiting[u] /\ Waiting' = Waiting
  BY <1>1 DEF Waiting
<1>10. i \in 1..Len(call[u].tasks) \ Brought(u)
  BY <1>3, <1>4
<1>11. Service!Bring(u, i)
  BY <1>1, <1>3, <1>8, <1>9, <1>10 DEF Service!Bring
<1> QED BY <1>5, <1>11

LEMMA ReturnAnswers ==
  ASSUME Inv, NEW u \in Threads, Return(u), ~Ends
  PROVE  Service!Answer(u)
<1>1. /\ process = "running" /\ process' = "running" /\ call[u].step = "woken" /\ call[u] # NoCall
      /\ series'[u] = <<>> /\ Step(u, "returned")
  BY DEF Return, Running, Settings, NoCall, Inv, TypeOK
<1>2. call'[u].tasks = call[u].tasks /\ call'[u].op = call[u].op /\ call'[u].step = "returned"
  BY <1>1, CallStepType DEF Inv, Steps
<1>3. Brought(u) = 1..Len(call[u].tasks)
  BY <1>1, BroughtAtLast
<1>4. Brought(u)' = {}
  BY <1>1 DEF Brought
<1>5. ret'[u].allResult = [i \in 1..Len(call[u].tasks) |-> i]
  <2>1. Inv'
    BY ReturnInv
  <2>2. ret'[u].allResult = [i \in DOMAIN call[u].tasks |-> i]
    BY <1>2, <2>1 DEF Inv, ThreadInv, RetInv, AllAnswers
  <2>3. DOMAIN call[u].tasks = 1..Len(call[u].tasks)
    BY <1>1, CallFields DEF Inv
  <2> QED BY <2>2, <2>3
<1>6. \A w \in Threads \ {u} : UNCHANGED <<call[w], series[w], ret[w]>>
  <2>1. CallStep(u)
    BY DEF CallStep
  <2> QED BY <2>1, OtherCalls DEF Inv
<1>7. \A w \in Threads \ {u} : Brought(w)' = Brought(w) /\ Waiting'[w] = Waiting[w]
  BY <1>6 DEF Brought, Waiting
<1>8. Waiting[u] /\ ~Waiting'[u] /\ Waiting' = [Waiting EXCEPT ![u] = FALSE]
  BY <1>1, <1>2, <1>6 DEF Waiting
<1>9. [w \in Threads |-> Brought(w)]' = [[w \in Threads |-> Brought(w)] EXCEPT ![u] = {}]
  BY <1>4, <1>7
<1>10. [w \in Threads |-> IF Waiting[w] THEN <<>> ELSE ret[w].allResult]'
        = [[w \in Threads |-> IF Waiting[w] THEN <<>> ELSE ret[w].allResult]
             EXCEPT ![u] = [i \in 1..Len(call[u].tasks) |-> i]]
  BY <1>5, <1>6, <1>7, <1>8
<1>11. [w \in Threads |-> Len(call[w].tasks)]' = [w \in Threads |-> Len(call[w].tasks)]
  BY <1>2, <1>6
<1>12. [w \in Threads |-> call[w].op \notin {"none", "parallel"}]'
        = [w \in Threads |-> call[w].op \notin {"none", "parallel"}]
  BY <1>2, <1>6
<1> QED BY <1>1, <1>3, <1>8, <1>9, <1>10, <1>11, <1>12 DEF Service!Answer

\* The other steps of a call are not seen by its caller.
LEMMA UnseenSteps ==
  ASSUME Inv, OwnInv, NEW u \in Threads, ~Ends,
         \/ Queue(u) \/ Start(u) \/ ParallelEnd(u)
         \/ \E j \in DOMAIN series[u] :
              SeriesEnd(u, j) \/ \E o \in Codes \ {"SUCCESS"} : wget_promise_callback(u, j, o)
  PROVE  SameView(u) /\ process' = process
<1>1. process' = process
  BY DEF Queue, Start, ParallelEnd, SeriesEnd, wget_promise_callback, Settings
<1>2. ASSUME NEW l \in {"queued", "started", "woken"}, Step(u, l), call[u].step \in {"made", "queued", "started"},
             Brought(u)' = Brought(u)
      PROVE  SameView(u)
  <2>1. call[u] # NoCall
    BY <1>2 DEF NoCall
  <2>2. call'[u].tasks = call[u].tasks /\ call'[u].op = call[u].op /\ call'[u].step = l
    BY <1>2, <2>1, CallStepType DEF Steps, Inv
  <2>3. Waiting[u] /\ Waiting'[u]
    BY <1>2, <2>2 DEF Waiting
  <2> QED BY <1>2, <2>2, <2>3 DEF SameView, Answers
<1>3. ASSUME NEW l \in {"queued", "started", "woken"}, Step(u, l), call[u] # NoCall,
             DOMAIN series'[u] = DOMAIN series[u],
             \A j \in DOMAIN series[u] : series'[u][j].data = series[u][j].data
      PROVE  Brought(u)' = Brought(u)
  <2>1. call'[u].tasks = call[u].tasks
    BY <1>3, CallStepType DEF Steps, Inv
  <2> QED BY <1>3, <2>1 DEF Brought
<1>4. CASE Queue(u)
  <2>1. series[u] = <<>>
    BY <1>4 DEF Queue, Inv, ThreadInv, SeriesInv, InWork
  <2>2. \A j \in DOMAIN series'[u] : series'[u][j].data = <<>>
    <3>1. series'[u] = IF call[u].op = "parallel" THEN [i \in DOMAIN call[u].tasks |-> SeriesOf(<<i>>, i - 1)]
                       ELSE <<SeriesOf([i \in DOMAIN call[u].tasks |-> i], 0)>>
      BY <1>4 DEF Queue, Inv, TypeOK
    <3> QED BY <3>1 DEF SeriesOf
  <2>3. Brought(u) = {} /\ Brought(u)' = {}
    BY <2>1, <2>2 DEF Brought
  <2> QED BY <1>1, <1>2, <1>4, <2>3 DEF Queue
<1>5. CASE Start(u) \/ ParallelEnd(u)
  <2>1. series' = series /\ call[u] # NoCall
    BY <1>5 DEF Start, ParallelEnd, NoCall
  <2> QED BY <1>1, <1>2, <1>3, <1>5, <2>1 DEF Start, ParallelEnd
<1>6. ASSUME NEW j \in DOMAIN series[u], SeriesEnd(u, j) PROVE SameView(u)
  <2> DEFINE a == [series[u][j] EXCEPT !.phase = "finished"]
  <2>1. series'[u] = [series[u] EXCEPT ![j] = a] /\ call[u].step = "started" /\ call[u] # NoCall
    BY <1>6, SeriesEndSteps DEF Inv, NoCall
  <2>2. a.data = series[u][j].data
    <3>1. series[u][j] \in Series
      BY DEF Inv, TypeOK
    <3> QED BY <3>1 DEF Series
  <2> HIDE DEF a
  <2>3. DOMAIN series'[u] = DOMAIN series[u] /\ \A k \in DOMAIN series[u] : series'[u][k].data = series[u][k].data
    BY <2>1, <2>2
  <2>4. CASE WakesCaller(call[u].op)
    BY <1>2, <1>3, <1>6, <2>1, <2>3, <2>4 DEF SeriesEnd
  <2>5. CASE ~WakesCaller(call[u].op)
    <3>1. UNCHANGED <<call, ret>>
      BY <1>6, <2>5 DEF SeriesEnd
    <3>2. Brought(u)' = Brought(u)
      BY <2>3, <3>1 DEF Brought
    <3> QED BY <3>1, <3>2 DEF SameView, Waiting, Answers
  <2> QED BY <2>4, <2>5
<1>7. ASSUME NEW j \in DOMAIN series[u], NEW o \in Codes \ {"SUCCESS"}, wget_promise_callback(u, j, o)
      PROVE  SameView(u)
  <2>1. Brought(u)' = Brought(u)
    BY <1>7, BroughtAfter
  <2>2. UNCHANGED <<call, ret>>
    BY <1>7 DEF wget_promise_callback
  <2> QED BY <2>1, <2>2 DEF SameView, Waiting, Answers
<1> QED BY <1>1, <1>4, <1>5, <1>6, <1>7

LEMMA StepsOfTheService ==
  ASSUME Inv, OwnInv, [Next]_vars
  PROVE  [Service!Next]_(Service!serviceVars)
<1>1. CASE Ends
  BY <1>1, BreaksDown DEF Service!Next
<1>2. CASE (\E b \in BOOLEAN : initHttpReqParams(b)) \/ setTaskStatusFunc \/ UNCHANGED vars
  <2>1. process' = process /\ \A u \in Threads : UNCHANGED <<call[u], series[u], ret[u]>>
    BY <1>2 DEF initHttpReqParams, setTaskStatusFunc, vars
  <2> QED BY <2>1, SameCallSameView, ServiceStutters
<1>3. ASSUME NEW u \in Threads, NEW op \in Ops, NEW tasks \in TaskLists, Make(u, op, tasks)
      PROVE  Service!Next
  BY <1>3, MakeAsks DEF Service!Next
<1>4. ASSUME NEW u \in Threads, CallStep(u), ~Ends
      PROVE  [Service!Next]_(Service!serviceVars)
  <2>1. \A w \in Threads \ {u} : SameView(w)
    BY <1>4, OtherCalls, SameCallSameView DEF Inv
  <2>2. CASE \/ Queue(u) \/ Start(u) \/ ParallelEnd(u)
             \/ \E j \in DOMAIN series[u] :
                  SeriesEnd(u, j) \/ \E o \in Codes \ {"SUCCESS"} : wget_promise_callback(u, j, o)
    BY <1>4, <2>1, <2>2, UnseenSteps, ServiceStutters
  <2>3. CASE Return(u)
    BY <1>4, <2>3, ReturnAnswers DEF Service!Next
  <2>4. ASSUME NEW j \in DOMAIN series[u], wget_promise_callback(u, j, "SUCCESS")
        PROVE  Service!Next
    BY <1>4, <2>4, CallbackBrings DEF Service!Next
  <2>5. ASSUME NEW j \in DOMAIN series[u],
               base_callback_deal(u, j) \/ wget_info_callback(u, j) \/ RunAgain(u, j)
        PROVE  FALSE
    BY <1>4, <2>5 DEF base_callback_deal, wget_info_callback, RunAgain
  <2> QED BY <1>4, <2>2, <2>3, <2>4, <2>5 DEF CallStep
<1> QED BY <1>1, <1>2, <1>3, <1>4 DEF Next

\* The calls of HttpReqWays, with their tasks, series and callbacks, do what
\* RequestService says, and nothing else that a caller can tell.
THEOREM RequestsImplementService == Spec => ImplementsRequestService
<1>1. Init => Service!Init
  <2> SUFFICES ASSUME Init PROVE Service!Init
    OBVIOUS
  <2>1. \A u \in Threads : /\ call[u].tasks = <<>> /\ call[u].op = "none" /\ ~Waiting[u]
                           /\ series[u] = <<>> /\ ret[u].allResult = <<>>
    BY DEF Init, NoCall, NoRet, Waiting
  <2>2. \A u \in Threads : Brought(u) = {} /\ Len(call[u].tasks) = 0
    <3>1. ASSUME NEW u \in Threads PROVE Brought(u) = {}
      <4>1. DOMAIN series[u] = {}
        BY <2>1
      <4> QED BY <4>1, Zenon DEF Brought
    <3>2. Len(<<>>) = 0
      OBVIOUS
    <3>3. \A u \in Threads : Len(call[u].tasks) = 0
      BY <2>1, <3>2, Zenon
    <3> QED BY <3>1, <3>3
  <2>3. Waiting = [u \in Threads |-> FALSE]
    BY <2>1 DEF Waiting
  <2> HIDE DEF Waiting
  <2>4. [u \in Threads |-> IF Waiting[u] THEN <<>> ELSE ret[u].allResult] = [u \in Threads |-> <<>>]
    BY <2>1
  <2>5. [u \in Threads |-> call[u].op \notin {"none", "parallel"}] = [u \in Threads |-> FALSE]
    BY <2>1
  <2>6. [u \in Threads |-> Brought(u)] = [u \in Threads |-> {}]
    BY <2>2
  <2>7. [u \in Threads |-> Len(call[u].tasks)] = [u \in Threads |-> 0]
    BY <2>2
  <2>8. process = "running"
    BY DEF Init
  <2> QED BY <2>3, <2>4, <2>5, <2>6, <2>7, <2>8 DEF Service!Init
<1>2. Inv /\ OwnInv /\ [Next]_vars => [Service!Next]_(Service!serviceVars)
  BY StepsOfTheService
<1> QED
  BY <1>1, <1>2, RequestInvariance, OwnResponsesAlways, PTL DEF Spec, ImplementsRequestService, Service!Spec
=============================================================================
