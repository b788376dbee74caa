-------------------------- MODULE MultipartBodies ---------------------------
(***************************************************************************)
(* MultipartParser and the tasks that send what it makes.                  *)
(*                                                                         *)
(* A parser collects parameters and files.  GenBodyContent() reads every   *)
(* file on a thread of its own and puts the body together in the parser,   *)
(* where the task that was asked for finds it when it is sent: the task    *)
(* has no copy.  getReqSendTask() is given a parser of the caller;         *)
(* getCommonReqSendTask() makes one that is gone when it returns.          *)
(*                                                                         *)
(* A body is what it was made of: its parameters, its files, what was read *)
(* of each, and whether the closing boundary is there.                     *)
(***************************************************************************)
EXTENDS Naturals, Sequences, FiniteSets, Functions

CONSTANTS
  Parsers,   \* callers, with one parser each at a time
  Files,     \* paths of files
  Params,    \* names and values of parameters
  Contents,  \* what a file may contain
  MaxParts,  \* bound: parameters, files and chunks of a parser together
  MaxTasks   \* bound: tasks that a caller makes before it starts them

ASSUME BoundsAssumption == MaxParts \in Nat /\ MaxTasks \in Nat

Unreadable == "unreadable"   \* a path where there is no file
Torn == "torn"               \* neither what was in the file before, nor after
ASSUME ContentsAssumption == {Unreadable, Torn} \cap Contents = {}

VARIABLES
  process,  \* "running" or "ended"
  disk,     \* file -> what is in it
  obj,      \* parser -> "none", "kept" by the caller, or "local" to getCommonReqSendTask
  parser,   \* parser -> MultipartParser
  pc,       \* parser -> what its caller is doing
  reads,    \* parser -> the futures of GenBodyContent
  seen,     \* parser -> file -> what has been in the file since GenBodyContent began
  tasks     \* parser -> the tasks that its caller has made and not yet started and ended

vars == <<process, disk, obj, parser, pc, reads, seen, tasks>>

NotSeen == [f \in Files |-> {}]
NoBody == [params |-> <<>>, files |-> <<>>, contents |-> <<>>]
Body == [params: Seq(Params), files: Seq(Files), contents: Seq(Contents \cup {Torn})]
Parser == [params_: Seq(Params), files_: Seq(Files), chunkFiles_: 0..MaxParts, body_content_: Body]
NewParser == [params_ |-> <<>>, files_ |-> <<>>, chunkFiles_ |-> 0, body_content_ |-> NoBody]
Read == [at: {"asked", "open", "done", "failed"}, content: Contents \cup {Torn, Unreadable}]
\* body: what it was made with, or nothing once the memory it refers to has held
\* something else, or may be made to; kept: of a parser of the caller; untouched:
\* that parser is still there, nothing was added to it, and none of its files
\* changed since; sent: what was sent.
Lost == {}
Task == [body: SUBSET Body, kept: BOOLEAN, untouched: BOOLEAN, sent: SUBSET {"body", "garbage"}]

Init ==
  /\ process = "running"
  /\ disk \in [Files -> Contents \cup {Unreadable}]
  /\ obj = [p \in Parsers |-> "none"]
  /\ parser = [p \in Parsers |-> NewParser]
  /\ pc = [p \in Parsers |-> "idle"]
  /\ reads = [p \in Parsers |-> <<>>]
  /\ seen = [p \in Parsers |-> NotSeen]
  /\ tasks = [p \in Parsers |-> <<>>]

Running == process = "running"
\* The process ends, and its memory is gone.
Ends ==
  /\ process' = "ended"
  /\ obj' = [p \in Parsers |-> "none"] /\ parser' = [p \in Parsers |-> NewParser]
  /\ pc' = [p \in Parsers |-> "idle"] /\ reads' = [p \in Parsers |-> <<>>]
  /\ seen' = [p \in Parsers |-> NotSeen] /\ tasks' = [p \in Parsers |-> <<>>]
  /\ UNCHANGED disk

\* The tasks of p, each changed by Op.
Each(p, Op(_)) == [tasks EXCEPT ![p] = [i \in DOMAIN @ |-> Op(@[i])]]
Touched(t) == [t EXCEPT !.untouched = FALSE, !.body = Lost]

-----------------------------------------------------------------------------
(* The caller makes, fills and destroys a parser. *)

MultipartParser(p) ==
  /\ Running /\ pc[p] = "idle" /\ obj[p] = "none"
  /\ obj' = [obj EXCEPT ![p] = "kept"]
  /\ UNCHANGED <<process, disk, parser, pc, reads, seen, tasks>>

Destroy(p) ==
  /\ Running /\ pc[p] = "idle" /\ obj[p] = "kept"
  /\ obj' = [obj EXCEPT ![p] = "none"]
  /\ parser' = [parser EXCEPT ![p] = NewParser]
  /\ tasks' = Each(p, Touched)
  /\ UNCHANGED <<process, disk, pc, reads, seen>>

Parts(s) == Len(s.params_) + Len(s.files_) + s.chunkFiles_
Fills(p) ==
  /\ Parts(parser[p]) < MaxParts
  /\ Running /\ pc[p] = "idle" /\ obj[p] = "kept"
  /\ tasks' = Each(p, Touched)
  /\ UNCHANGED <<process, disk, obj, pc, reads, seen>>

addParameter(p, x) ==
  /\ parser' = [parser EXCEPT ![p].params_ = Append(@, x)]
  /\ Fills(p)

addFile(p, f) ==
  /\ parser' = [parser EXCEPT ![p].files_ = Append(@, f)]
  /\ Fills(p)

addChunkFile(p) ==
  /\ parser' = [parser EXCEPT ![p].chunkFiles_ = @ + 1]
  /\ Fills(p)

-----------------------------------------------------------------------------
(* GenBodyContent. *)

\* The body is cleared, the reads are started, and the parameters are in the body.
Begin(p, s) ==
  /\ parser' = [parser EXCEPT ![p] = [s EXCEPT !.body_content_ = [NoBody EXCEPT !.params = s.params_]]]
  /\ pc' = [pc EXCEPT ![p] = "generating"]
  /\ reads' = [reads EXCEPT ![p] = [i \in DOMAIN s.files_ |-> [at |-> "asked", content |-> Unreadable]]]
  /\ seen' = [seen EXCEPT ![p] = [f \in Files |-> {disk[f]}]]

getReqSendTask(p) ==
  /\ Running /\ pc[p] = "idle" /\ obj[p] = "kept"
  /\ Len(tasks[p]) < MaxTasks
  /\ Begin(p, parser[p])
  /\ UNCHANGED <<process, disk, obj, tasks>>

\* The parameters and the files of two JSON texts, in a parser on the stack.
getCommonReqSendTask(p, params, files) ==
  /\ Running /\ pc[p] = "idle" /\ obj[p] = "none"
  /\ Len(tasks[p]) < MaxTasks
  /\ Begin(p, [NewParser EXCEPT !.params_ = params, !.files_ = files])
  /\ obj' = [obj EXCEPT ![p] = "local"]
  /\ UNCHANGED <<process, disk, tasks>>

Reading(p) == {i \in DOMAIN reads[p] : reads[p][i].at \in {"asked", "open"}}
SetRead(p, i, at, c) == reads' = [reads EXCEPT ![p][i] = [at |-> at, content |-> c]]

\* Mutant: the thread ends, and its future never hears of it.
OpenLost(p, i) == "asked"
\* Mutant: a file of the size -1 is taken for an empty one.
OpenIgnored(p, i) == "done"
\* A buffer of the size -1 is refused, and the future gets the exception.
OpenFailed(p, i) == "failed"
\* Thread i opens its file and learns its size.
Open(p, i) ==
  /\ Running
  /\ reads[p][i].at = "asked"
  /\ LET c == disk[parser[p].files_[i]] IN
     SetRead(p, i, IF c = Unreadable THEN OpenFailed(p, i) ELSE "open", c)
  /\ UNCHANGED <<process, disk, obj, parser, pc, seen, tasks>>

\* It reads as many bytes: of what was there when it opened the file, of what has
\* been written since, which may have the same length, or some of both.
ReadFile(p, i) ==
  /\ Running
  /\ reads[p][i].at = "open"
  /\ LET c == reads[p][i].content
         now == disk[parser[p].files_[i]]
     IN \E d \in {c} \cup (IF now = c THEN {} ELSE {Torn, now} \ {Unreadable}) :
          SetRead(p, i, "done", d)
  /\ UNCHANGED <<process, disk, obj, parser, pc, seen, tasks>>

\* Mutant: the parts are filled in the order in which the threads end.
AnyFinished(p) == CHOOSE i \in DOMAIN reads[p] : reads[p][i].at = "done"
NextPart(p) == Len(parser[p].body_content_.contents) + 1
\* The future that the next part is taken from.
FutureOfNext(p) == NextPart(p)
WithPart(b, f, c) ==
  [params |-> b.params, files |-> Append(b.files, f), contents |-> Append(b.contents, c)]
Generating(p) == Running /\ pc[p] = "generating"
Complete(p) == Len(parser[p].body_content_.contents) = Len(parser[p].files_)
Collect(p) ==
  /\ Generating(p) /\ ~Complete(p)
  /\ reads[p][NextPart(p)].at = "done"
  /\ parser' = [parser EXCEPT ![p].body_content_ =
       WithPart(@, parser[p].files_[NextPart(p)], reads[p][FutureOfNext(p)].content)]
  /\ UNCHANGED <<process, disk, obj, pc, reads, seen, tasks>>

\* Mutant: a thread that is late is given up.
ThrowLate(p) ==
  /\ Generating(p) /\ ~Complete(p)
  /\ reads[p][NextPart(p)].at # "done"
  /\ pc' = [pc EXCEPT ![p] = "unwinding"]
  /\ UNCHANGED <<process, disk, obj, parser, reads, seen, tasks>>

\* get() throws what the thread threw, or, for the first chunk, because the
\* future of the first file has been taken; the futures are destroyed.
Throw(p) ==
  /\ Generating(p)
  /\ IF Complete(p) THEN parser[p].chunkFiles_ > 0 /\ parser[p].files_ # <<>>
     ELSE reads[p][NextPart(p)].at = "failed"
  /\ pc' = [pc EXCEPT ![p] = "unwinding"]
  /\ UNCHANGED <<process, disk, obj, parser, reads, seen, tasks>>

\* A thread that reads a chunk refers to a variable of a loop that is over; and
\* without files there is no future for the first chunk.
ChunkEnds(p) ==
  /\ Running /\ pc[p] \in {"generating", "unwinding"}
  /\ parser[p].chunkFiles_ > 0
  /\ Ends

\* Mutant: each body gets memory of its own, in place of that of the one before.
Freed(t, b) == [t EXCEPT !.body = Lost]
\* A body of the same parser is written over the one before, or its memory
\* moves, unless they are the same: then it fits.
Overwritten(t, b) == IF t.body = {b} THEN t ELSE [t EXCEPT !.body = Lost]

\* The futures are gone.
Forget(p) ==
  /\ reads' = [reads EXCEPT ![p] = <<>>]
  /\ seen' = [seen EXCEPT ![p] = NotSeen]
  /\ UNCHANGED <<process, disk>>

\* Mutant: the destructor of a future does not wait for its thread.
UnwindAtOnce(p) == TRUE
\* The destructor of a future of async() waits for its thread.
Joined(p) == Reading(p) = {}
Unwind(p) ==
  /\ Running /\ pc[p] = "unwinding"
  /\ Joined(p)
  /\ pc' = [pc EXCEPT ![p] = "idle"]
  /\ IF obj[p] = "kept"
       THEN /\ tasks' = Each(p, LAMBDA t : Overwritten(t, parser[p].body_content_))
            /\ UNCHANGED <<obj, parser>>
       ELSE /\ obj' = [obj EXCEPT ![p] = "none"]
            /\ parser' = [parser EXCEPT ![p] = NewParser]
            /\ UNCHANGED tasks
  /\ Forget(p)

\* The closing boundary, and the task: it refers to the body in the parser.
NewTask(p, b) ==
  [body |-> IF obj[p] = "kept" THEN {b} ELSE Lost, kept |-> obj[p] = "kept", sent |-> {},
   untouched |-> obj[p] = "kept" /\ \A f \in Range(parser[p].files_) : Cardinality(seen[p][f]) = 1]
Finish(p) ==
  /\ Generating(p) /\ Complete(p) /\ parser[p].chunkFiles_ = 0
  /\ pc' = [pc EXCEPT ![p] = "idle"]
  /\ LET b == parser[p].body_content_ IN
     tasks' = [tasks EXCEPT ![p] = Append([i \in DOMAIN @ |-> Overwritten(@[i], b)], NewTask(p, b))]
  /\ IF obj[p] = "kept"
       THEN UNCHANGED <<obj, parser>>
       ELSE /\ obj' = [obj EXCEPT ![p] = "none"]
            /\ parser' = [parser EXCEPT ![p] = NewParser]
  /\ Forget(p)

-----------------------------------------------------------------------------
(* The tasks are started, and their caller waits for the last of them.        *)

Start(p) ==
  /\ Running /\ pc[p] = "idle" /\ tasks[p] # <<>>
  /\ pc' = [pc EXCEPT ![p] = "waiting"]
  /\ UNCHANGED <<process, disk, obj, parser, reads, seen, tasks>>

\* What is in the memory that the task refers to.
Memory(t) == IF t.body = Lost THEN {"body", "garbage"} ELSE {"body"}
\* A thread of the library sends a task, and again when there is no answer.
Transmit(p, i) ==
  /\ Running /\ pc[p] = "waiting"
  /\ \E m \in Memory(tasks[p][i]) : tasks' = [tasks EXCEPT ![p][i].sent = @ \cup {m}]
  /\ UNCHANGED <<process, disk, obj, parser, pc, reads, seen>>

Answer(p) ==
  /\ Running /\ pc[p] = "waiting"
  /\ pc' = [pc EXCEPT ![p] = "idle"]
  /\ tasks' = [tasks EXCEPT ![p] = <<>>]
  /\ UNCHANGED <<process, disk, obj, parser, reads, seen>>

\* Another program writes or removes a file.
Write(f, c) ==
  /\ disk[f] # c
  /\ disk' = [disk EXCEPT ![f] = c]
  /\ seen' = [p \in Parsers |-> IF pc[p] = "generating" THEN [seen[p] EXCEPT ![f] = @ \cup {c}] ELSE seen[p]]
  /\ tasks' = [p \in Parsers |-> [i \in DOMAIN tasks[p] |->
       IF \E b \in tasks[p][i].body : f \in Range(b.files)
         THEN Touched(tasks[p][i]) ELSE tasks[p][i]]]
  /\ UNCHANGED <<process, obj, parser, pc, reads>>

-----------------------------------------------------------------------------
Lists(S) == UNION {[1..n -> S] : n \in 0..MaxParts}

Caller(p) ==
  \/ MultipartParser(p) \/ Destroy(p) \/ addChunkFile(p)
  \/ \E x \in Params : addParameter(p, x)
  \/ \E f \in Files : addFile(p, f)
  \/ getReqSendTask(p) \/ Start(p)
  \/ \E params \in Lists(Params), files \in Lists(Files) :
       Len(params) + Len(files) <= MaxParts /\ getCommonReqSendTask(p, params, files)
GenBodyContent(p) == Collect(p) \/ Throw(p) \/ ChunkEnds(p) \/ Unwind(p) \/ Finish(p)
Reader(p) == \E i \in DOMAIN reads[p] : Open(p, i) \/ ReadFile(p, i)
Library(p) == Answer(p) \/ \E i \in DOMAIN tasks[p] : Transmit(p, i)

Next ==
  \/ \E p \in Parsers : Caller(p) \/ GenBodyContent(p) \/ Reader(p) \/ Library(p)
  \/ \E f \in Files, c \in Contents \cup {Unreadable} : Write(f, c)

Spec == Init /\ [][Next]_vars
\* The caller runs, and every thread that it started.
FairSpec == Spec /\ \A p \in Parsers : WF_vars(GenBodyContent(p)) /\ WF_vars(Reader(p))

-----------------------------------------------------------------------------
(* Properties. *)

TypeOK ==
  /\ process \in {"running", "ended"}
  /\ disk \in [Files -> Contents \cup {Unreadable}]
  /\ obj \in [Parsers -> {"none", "kept", "local"}]
  /\ parser \in [Parsers -> Parser]
  /\ pc \in [Parsers -> {"idle", "generating", "unwinding", "waiting"}]
  /\ reads \in [Parsers -> Seq(Read)]
  /\ seen \in [Parsers -> [Files -> SUBSET (Contents \cup {Unreadable})]]
  /\ tasks \in [Parsers -> Seq(Task)]

\* The body that a task is made with has every parameter and every file of its
\* parser once, in their order, and each file as it was at some time during the
\* call, or mixed if it was written meanwhile, whichever thread ends first.
Possible(c, s) == c \in s \/ (c = Torn /\ Cardinality(s) > 1)
BodyComplete ==
  [][\A p \in Parsers : Len(tasks'[p]) > Len(tasks[p]) =>
       LET b == parser[p].body_content_ IN
       /\ b.params = parser[p].params_ /\ b.files = parser[p].files_
       /\ DOMAIN b.contents = DOMAIN b.files
       /\ \A n \in DOMAIN b.files : Possible(b.contents[n], seen[p][b.files[n]])]_vars

\* As long as nothing is added to a parser and none of its files changes, every
\* task made from it is sent with the body it was made with, however many other
\* tasks are made from it in between.
SendsItsBody ==
  \A p \in Parsers : \A i \in DOMAIN tasks[p] :
    tasks[p][i].untouched => tasks[p][i].sent \subseteq {"body"}

\* GenBodyContent is not over, and the names of the files stay where they are,
\* while a thread may read them, also when another file cannot be read.
FilesStay ==
  [][\A p \in Parsers : Reading(p) # {} /\ process' = "running" =>
       pc'[p] # "idle" /\ parser'[p].files_ = parser[p].files_]_vars

\* What a call is for, what its files have been meanwhile, and the bodies that the
\* tasks still refer to.
Wanted(p) ==
  IF pc[p] = "generating"
    THEN {[params |-> parser[p].params_, files |-> parser[p].files_,
           chunks |-> parser[p].chunkFiles_ > 0, kept |-> obj[p] = "kept"]}
    ELSE {}
Been(p) == IF pc[p] = "generating" THEN seen[p] ELSE NotSeen
Held(p) == UNION {tasks[p][i].body : i \in DOMAIN tasks[p]}
Service == INSTANCE BodyService WITH
  Callers <- Parsers, NoFile <- Unreadable, Mixed <- Torn,
  wanted <- [p \in Parsers |-> Wanted(p)],
  been <- [p \in Parsers |-> Been(p)],
  held <- [p \in Parsers |-> Held(p)]

\* Calls implement BodyService, whichever thread ends first: a call gives a whole
\* body or throws for a file that was not there, and the tasks made from one
\* parser hold one body, the last, as it is in the memory of that parser.
ImplementsBodyService == Service!Spec

\* A call of GenBodyContent returns or throws.
BodyEnds == \A p \in Parsers : pc[p] = "generating" ~> pc[p] = "idle"

-----------------------------------------------------------------------------
(* What the code says, and does not do. *)

\* httpreq_ways.h: the tasks that the functions return can be started as they are.
\* That of getCommonReqSendTask refers to a body that is gone.
TaskIsReady ==
  \A p \in Parsers : \A i \in DOMAIN tasks[p] :
    ~tasks[p][i].kept => tasks[p][i].sent \subseteq {"body"}
=============================================================================
