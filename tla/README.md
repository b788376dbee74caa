# communicate_lib: models, checks and proofs

This directory is a verification project for `communicate_lib`, a C++17 library
that wraps HTTP (over Sogou workflow), MQTT (over mosquittopp) and WebSocket
clients and servers, so that its users deal in topics, URLs and callbacks and
never in connection objects. Paths below are relative to the repository.

## 1. Inventory

| Component | State it keeps | Operations | Interacts by |
|---|---|---|---|
| **MQTT clients** `src/common/communicateViaMQTT` | `m_mqttClientIns` (broker address -> client), per client `m_clientStatus` and `m_topicMsg` (topic -> reference to the caller's string), `g_clientId`, `g_pubRetain` | subscribe, publish, unsubscribe, disconnect, reconnect configuration, client id | calls into mosquittopp; callbacks on one network thread per client; results written through references |
| **HTTP request tasks** `communicateViaHTTP/reqTask/httpreq_ways` | per call the series with their contexts (`communicate_status`, `curTaskIndex`, `all_resp_data`), per task a pointer to its `ReconnectCfg`; global: `g_reconnectCfg`, the status function | one request (get, post, send), dependent and independent series, parallel work, retry with growing delay | workflow runs the callbacks on its threads; a wait group wakes the caller |
| **Chunked download / upload** `reqTask/special/specialsupply_req` | the file on disk, the series context with the record of the transfer | download in ranges with overlap check and resume; split a file and send the parts | series callbacks; `ChunkManager`; file system |
| **Resume records** `special/chunk_manager`, `src/utils/memory_access.h` | files `<name>_down` and `<name>_send` in `./temporary_cache/resume_note`, and the maps loaded from them | load at the first use, look up, save and delete the record of a download | files survive a restart |
| **Multipart bodies** `communicateViaHTTP/multipart_parser` | parameters, files, chunks, the generated body | add a parameter, file or chunk, generate | one thread per file and per chunk; the tasks of `getReqSendTask` refer to the body in the parser |
| **Base64** `src/utils/base64_trans.h` | none | encode, decode | pure functions |
| **Keys, ciphers and hashes** `license_parse.h`, `symmetric_encryption.h`, `hash_create.h` in `src/utils` | none | format a public key, decrypt a text block by block, encrypt and decrypt a content, hash a file | OpenSSL, files |
| **HTTP server** `server/baseMoudle` | a map from names to functions, configuration | register at static initialisation, dispatch a request | workflow server threads |
| **WebSocket server** `communicateViaWebSocket` | `m_servers` (port -> server) | register a server for a port | its own threads |
| **Small helpers** `src/base/utils_method.h`, `singleton.h`, `logconfig.h` | none | single expressions, calls of the operating system | pure functions |

Vendored: `src/thirdparty`, `src/base/json.hpp`, `src/base/ghc`, and `src/base/Json`,
which is wfrest's. `src/test` holds demonstrations, no assertions.

### What is hard about each, and what makes it correct

- **MQTT clients.** Callbacks of the network threads interleave with the calls;
  `m_mutex` guards the callbacks against each other but not against the calls;
  connections are refused, break and come back; a call may fail half-way. It is
  correct when the recorded status never denies a confirmed connection, nothing
  can still run inside a client that is let go, the broker's subscriptions and
  `m_topicMsg` agree, a result string is written only for the subscription it was
  given for, every call returns, lost connections come back, and retained
  messages arrive.
- **HTTP request tasks.** The series of a call end in any order on the library's
  threads, while contexts and results live on the stack of the waiting caller; a
  failed task is run again from its own callback; settings change meanwhile. Results
  must be complete and in the order of the requests, nobody may be woken while a
  series can still use the stack, and every call must end.
- **Chunked transfer and resume records.** The process may be killed between
  emptying and writing a record, between a file and its map entry, between the end of
  a download and the removal of its record. What a restart loads must be what was
  last written, and nothing that is over may come back.
- **Multipart bodies.** Each file is read by a thread of its own, in any order, while
  other programs write it; a file that cannot be read makes the call throw while other
  threads run; a task has no copy of its body. A body must have every part once and in
  order, no thread may outlive what it refers to, and a task must be sent with the body
  it was made with.
- **Base64, keys, ciphers, hashes, chunks of a file.** Loops over blocks, whose last one
  is short, empty or padded, and counters that wrap. No byte may be left out where two
  blocks meet, none taken twice unless the reader of a chunk means to, and every loop
  must end.
- **Servers.** Registration that outlives what it registers.

## 2. Modules

| # | Modules | Abstract specification | Proofs |
|---|---|---|---|
| 1 | `Mosquitto`, `MqttClients` | `TopicBoard`: into which string the messages of a topic go | `MqttClientsProofs`, `TopicBoardProofs`, `MqttProgressProofs` |
| 2 | `HttpRequests`: the calls, their series and callbacks | `RequestService`: requests are answered once, in turn where that was asked, and a caller gets all answers in order | `HttpRequestsProofs` |
| 3 | `ChunkRecords`: the records of downloads with kills and restarts | `ResumeStore`: records that outlive the process, saved and deleted as a whole | `ChunkRecordsProofs` |
| 4 | `MultipartBodies`: parsers, the threads that read their files, the tasks that send what they make | `BodyService`: a call gives a whole body or throws for a file that was not there, and the tasks of a caller hold one body | `MultipartBodiesProofs` |
| 5 | `Base64`, `Utilities`: the loops over blocks | reference definitions: RFC 4648, the identity on positions | `Base64Proofs`, `UtilitiesProofs` |

`MqttClients` EXTENDS `Mosquitto`, the environment it runs in, and `Utilities` EXTENDS
`Base64`. `HttpRequests` and `MultipartBodies` share the tasks of `getReqSendTask`: the
first has them as `Kinds` without content, the second their content until they are
sent. The modules whose names begin with MC add what an instance for TLC needs.
The rest of the code has no behaviour that can be modelled, see section 10.

## 3. The MQTT model

### Modules

- `Mosquitto.tla` models what is not code of the repository: libmosquitto 2.0 (from
  the header in `src/thirdparty` and the behaviour of the shared object beside it)
  and the brokers. A client object has a socket (`link`), a network thread
  (`loop`), queues of packets either way (`out`, `inn`) and what the broker keeps
  (`session`, `retained`). Semantics the properties depend on:
  `mosquitto_disconnect` sets `request_disconnect` even when it answers NO_CONN;
  the network thread ends, without a callback, when it finds that flag after a lost
  connection; otherwise it waits and reconnects, closing any socket a callback
  opened meanwhile and dropping what was queued; `subscribe` fails only without a
  socket; `loop_stop` joins.
- `MqttClients.tla` models `mqttcomm_ways.cpp` and `mqttclient_instances.{h,cpp}`. The
  variables have the source's names. A call of `MqttCommWays` is a sequence of
  actions over `pc`, one for each stretch of code between two points where a
  network thread may come in: `toConnectBroker` is `ConnectKnown`,
  `ConnectUsable`, `ConnectNew`, `SetConnecting`, `DropClient`, `LoopStart`,
  `Insert`; `toSubscribeTopic` is `SubscribeFind`, `SubscribeBind`,
  `SubscribeSend`; and so on. The callbacks are actions of the same names;
  `on_message` and `on_disconnect` take two steps, since other threads run between
  the lookup and the write, and around `reconnect()`. `handler` is the callback a
  network thread is inside of, and so also who holds `m_mutex`.
- Undefined behaviour is a choice: a lookup in `m_topicMsg` while the API thread
  edits it may miss (`InFlux`, `Lookup`). A payload is copied without a terminating
  NUL and may be followed by other bytes (`Stored`); a result string stands for the
  message it holds, with or without them, as no property tells the two apart.
- `TopicBoard.tla` is what `subMqttTopic`, `unsubMqttTopic`, `disconnectMqttBroker` and
  the callbacks promise, with no clients, connections, packets or threads. `MqttClients`
  implements it (`ImplementsTopicBoard`) under this mapping: `board[b]` is the
  `m_topicMsg` of the client registered for b, and bare when there is none; `inHand[b]` is
  what its `on_message` has looked up and not yet written; `asking` is the subscription
  whose call is running; `mail` and `promised` are the variables of these names. Board
  steps are `SubscribeBind` (Bind), a subscription that returns (Succeed, Fail), the
  `erase()` of a topic (Unbind) and of a client (Clear), the two steps of `on_message`
  (Take, Write); everything that connections and network threads do otherwise is a
  stutter. Clear with nothing in hand is where the order of `disconnect()`,
  `loop_stop()` and `erase()` matters, and Write asks that the string be promised,
  which rests on clean sessions and on nothing being sent for another's topic.
- `MCMqttClients.tla` adds symmetry sets for TLC.

### Bounds

`Capacity` bounds the packets of a connection's direction (the user does not begin a
call while a queue is full, the broker waits for room); it cuts off pile-ups of
unread packets, and two are enough for a SUBACK followed by a retained message, and
for an UNSUBSCRIBE overtaken by a SUBSCRIBE. `Faults` and `Ops` say what may fail
and which functions are called, so that a run spends its states on its question.
One or two clients per broker suffice, because the registry holds one client per
address and a second object exists only while the first is registered elsewhere.

### Runs

| Run | Question | What it shows |
|---|---|---|
| `MqttSafety` | one broker, one topic, two results, every call and every fault | the type invariant, `AckedIsKnown`, `QuietWhenErased`, `NoStraySubscription`, the safety that the liveness rests on (`JoinEnds`: who joins a network thread does not wait for nothing; `NeverStranded`: a client of the map is up, or something is under way that its thread will act on), and the refinement of `TopicBoard` |
| `MqttRegistry` | two brokers, two client objects, two topics, no faults | unsubscribing from one topic leaves no stray subscription to another; a message of one broker is never written for a subscription at the other |
| `MqttLiveness` | all faults, fairness | every call returns; a lost connection comes back, and is known to |
| `MqttRetained` | connections that hold, fairness | a retained message reaches every subscribed result |
| `MqttSubscribeReachesBroker` | `@return` of toSubscribeTopic | violated: success without a SUBSCRIBE the broker sees |
| `MqttUnsubscribeSilences` | `@return` of toUnsubscribeTopic | violated: a callback writes a cancelled result |

`MqttSafety` leaves `WritesOnlyPromised` to the refinement, whose Write says the same of
connections that break (its second mutant keeps the session of a named client); the
property by itself is the question of `MqttRegistry`, where brokers could be confused.

### Fairness

The API thread runs (`WF` of its steps) and so do the network threads. A network
thread writes in each of its rounds, however much there is to read, which is strong
fairness of `on_disconnect` for the DISCONNECT it has to write and of the broker's
steps, since publications by others may fill the queue again and again. A network
and a broker that turn a client away do not do so for ever: strong fairness of an
accepted CONNECT and of a reconnect that succeeds. Nothing is assumed of the user
(no fairness of `UserCalls`), of `OthersPublish` or of the faults.

## 4. The HTTP model

`HttpRequests.tla` models the calls of `httpreq_ways.cpp` that wait for their answers:
`reqToGetResp`, `reqToPostResp`, `reqToSendData` (`one`), `reqGetRespBySeries` with and
without dependencies (`dependent`, `independent`) and `reqGetRespByParallel`. `call[u]`
is the call a thread is in: its tasks, and the step it has reached (`Make`, `Queue`,
`Start`, the wait, `Return`). `series[u]` are its series with their contexts: `status`
is `communicate_status`, `data` is `all_resp_data`, `todo` what the library still has to
run. A callback is one action, taken when a task ends with an outcome of
`base_callback_deal`; the callbacks of the series and of the `ParallelWork` are
`SeriesEnd` and `ParallelEnd`. `allResult` and `failed` in `ret` are built where the code
builds them, so their order follows from it and not from the model.

`RequestService.tla` is what the calls promise, with no tasks, series, contexts and
callbacks: `Ask`, `Bring` (one answer), `Answer` (all of them, in order) and `BreakDown`.
`HttpRequests` implements it (`ImplementsRequestService`): `brought` are the requests
whose responses the callbacks have stored (`Brought`), `waiting` is a call between its first
step and its return. A callback that goes through is a `Bring`, `Return` is the `Answer`,
and the callbacks of the series, of the `ParallelWork` and a retry are stutters.

Where the code has undefined behaviour, the model has the outcomes of the default
build, which were observed by running it:

- with the retry feature off, `wget_info_callback` writes through the pointer `context`
  before it has a value, and the process ends (`Ends`);
- a failed task of a series is deleted by the library when its callback returns, and
  runs again afterwards (`RunAgain`): the process ends;
- a failed task without dependencies is put into a new series while it is in a running
  one, which the library refuses: the process ends;
- with a status function set, `obtain_task_id` follows a null pointer for every task that
  `getCommonReqSendTask` did not make: the process ends;
- a `ReconnectCfg` that was a temporary is read when the callback runs: either value.

So a call returns only when all its requests succeed with the feature on, and
`AnswersComplete` says that it then answers for every one, in order. What a call would say
of its failures is modelled as the code has it (`SeriesEnd`, `ParallelEnd`, `Returned`), but
no call with a failed request lives to return: `failed` is always empty, and that half of
`AnswersComplete` is never put to the test. The code after the points where the process
ends (the growing delay, `max_waitTime`, the new series) is not modelled.

| Run | Question | What it shows |
|---|---|---|
| `HttpRequests` | one caller, every kind of call with one to three tasks | `AnswersComplete`, `WokenWhenFinished`, `NotedBeforeAnswer`, the refinement of `RequestService`, and that every call ends, with the safety that this rests on: nobody waits for a callback that never comes (`WaitsForACallback`), and each callback brings its call nearer to its end (`CallbacksAdvance`) |
| `HttpEveryCallAnswers` | `@return` of reqGetRespBySeries and reqGetRespByParallel, for tasks with the retry feature off | violated: `wget_info_callback` ends the process at the first response, which is all that can end it in this instance |

Bounds: three tasks are the least at which a series has a first, a middle and a last
one and three parallel series can end in an order that is neither theirs nor its
reverse. One caller is enough: calls of different threads share the settings only, and
those change at any time. `MixedKinds` takes three of the twelve ways to make a task,
which between them read the global configuration, one that is on and a temporary one.
Fairness: weak fairness of the steps of a call. The library bounds the wait for a
response, and its threads and the callers' run. Deadlock is not checked in these runs:
the process may have ended.

## 5. The records

`ChunkRecords.tla` models `ChunkManager` with `memory_access.h`, and the download that
uses it. `resume_note` are the record files, kept by a kill; `m_downResume_` is the map;
a record is its `lastEndPos`. `saveDownTaskInfo` opens and so empties the file, `SaveWrite`
writes it, `SaveInsert` inserts into the map; `delDownTaskInfo` removes the file and
`DelErase` erases the entry; `Kill` may come between any two of them. The first
`getInstance` loads every file and ends the process at an empty one. A download
(`reqToGetChunkDataBySeries`) may answer `false` at once, gets its first response
(`wget_chunk_callback`) and deletes its record whatever came of it. In the build a
proper response ends the process at `specialsupply_req.cpp:287` (`back()` of a vector
without elements), so nothing of a file is stored and the save of a record at line 363
is not reached; `saveDownTaskInfo` is modelled as a function of the public interface.

`ResumeStore.tla` is what the records promise, with no files, map and calls: a store that
outlives the process, in which saving is the one thing that takes two steps. `ChunkRecords`
implements it (`ImplementsResumeStore`): `records` are the files that hold a record,
`unfinished` those that are empty, `known` the downloads of the map, with the one being
saved and without the one being deleted. A process that finds an unfinished record does not start: the file that a kill left
between the opening and the writing of a record (`chunk_manager.cpp:45` takes `front()` of
it) stops every later start, which is the cost of saving in place.

What is taken of the caller: it names a record's file as `resumeName` or leaves the name
out (then the path contains the address with its slashes, and cannot be opened); each
download has a key and a resumeName of its own; the calls come from one thread.

| Run | Question | What it shows |
|---|---|---|
| `ChunkRecords` | three downloads, two with a name, three positions; a kill anywhere | `NoneComesBack`: a restart finds no download that was over; `ResumesFromLast`: it loads the record written last, although the map keeps the first one; and the refinement of `ResumeStore` |

Bounds: two named downloads and one without are every combination of a record in hand,
one that is known and one that has no file; three positions tell a first, a last and
another record apart. `written` is a history variable: nothing in the code reads it.

## 6. The bodies

`MultipartBodies.tla` models `multipart_parser.{h,cpp}` and, of `httpreq_ways.cpp`,
`getReqSendTask` and `getCommonReqSendTask`. Each element of `Parsers` is a caller with at
most one parser at a time: `obj` says whether it is the caller's own ("kept") or the one
on the stack of `getCommonReqSendTask` ("local"). `GenBodyContent` is a sequence of steps:
`Begin` clears the body and starts a thread per file (`reads`, the futures); each thread
takes `Open` and `ReadFile`; `Collect` takes the futures in the order of the files;
`Throw` and `Unwind` are the way out when a future brings an exception; `Finish` appends
the closing boundary and makes the task. `Write` is another program writing a file, at any
moment: a thread that learnt the size before and read after has the old content, the new
one if it is as long, or a mixture (`Torn`).
A task refers to the body (`append_output_body_nocopy`): a later body of the same parser,
an addition, or the end of the parser may change that memory, and then what is sent is
either the body or something else (`Memory`). Two bodies that are equal have the same
length and bytes, and the string is cleared and filled in place: then it stays.

With chunks, the threads refer to a variable of a loop that is over, and the futures of
the chunks are taken from the vector of the files' (`multipart_parser.cpp:53`, `:103`):
`ChunkEnds` ends the process, `Throw` is the `future_error` of a future taken twice. What
else may follow of undefined behaviour is not listed.

`BodyService.tla` is what a parser promises, with no threads, futures and parts: `Ask`, `Give`
(a body with all parameters and files, each as it was at some time of the call), `Refuse`
(with chunks, or because a file was not there), `Disturb` and `Write`, by which bodies that
tasks refer to are lost. `MultipartBodies` implements it (`ImplementsBodyService`): `wanted`
is what the parser holds while `GenBodyContent` runs, `been` is `seen`, and `held` are the
bodies that the tasks of a caller refer to. `Give` says that the new body is the only one
then held: what several tasks of one parser would send is its last body, not their own.

`seen`, and of a task `untouched`, `kept` and the set `body`, are history: nothing in the
code reads them. The layout of a body, its boundary and the types guessed from names are
left out.

| Run | Question | What it shows |
|---|---|---|
| `MultipartBodies` | one caller, files that come, go and change | `BodyComplete`, `FilesStay`, `SendsItsBody`, the refinement of `BodyService`, and that every call of `GenBodyContent` returns or throws |
| `MultipartTaskIsReady` | `@return` of getCommonReqSendTask: the task can be started | violated: its parser, and the body with it, is gone |

Bounds: parsers share nothing but the files, so one caller is enough; two parts are what
it takes for two threads to end in the wrong order, for one file to fail while another is
read, and for the same file to be given twice; two contents tell before from after; two
tasks are a body and the one made over it. Fairness: weak fairness of the steps of
`GenBodyContent` and of its threads, which the operating system runs. Nothing is assumed of
the caller, of other programs or of the library that sends.

## 7. The loops over blocks

`Utilities.tla` is one call of one function, or of the two that undo each other, from any
arguments (a file that cannot be opened and a chunk size of 0 among them), one pass of a
loop at a time: `base64_encode` and `base64_decode`,
`FormatPubKey` and `RsaPubDecrypt`, `GetEncryptData` and `GetDecryptData`,
`get_sha256Hex_File`, and `getFileChunkStructs` of `specialsupply_req.cpp`. A byte of a key,
content or file is its position, so that a result shows which bytes it was made of. AES,
RSA and SHA-256 are symbols: a block encrypted with a vector can be decrypted with that
vector only, and an RSA block can or cannot be. `Base64.tla` has the two functions on
numbers, the padding and the digits that are not there (`find('\0')` is `npos`, 255 in
an unsigned char) included.

| Run | Question | What it shows |
|---|---|---|
| `Utilities` | every call with every length up to the bounds | the properties of `Utilities.cfg`: results of whole contents, in order, chunks that leave out no byte of a file, that every pass of a loop goes on behind where it began (`PassesAdvance`), and that calls end |

A chunk is judged by what its reader makes of it: `GenBodyContent` takes the bytes from
`startPos` to `endPos`, the last one included (`multipart_parser.cpp:55`, `BytesOf`). So
`ChunksCoverFile` says that every byte of the file is in a chunk, and that two chunks share
at most the byte at which the earlier one ends and the later one begins, which the code
does send twice (section 9). What is behind the end of the file in the buffer of the last
chunk is left out.

Bounds: block sizes 3, 3 and 4 in place of 64, 16 and 8192, a default chunk of 5 bytes, and
lengths to 10: each loop
runs not at all, with a short block alone, with full blocks only, and with a short last
one after several. A uint32_t has 16 values, and a file up to 17 bytes, so that positions
wrap. base64 strings have up to 5 bytes, that is no group, each of the three kinds of
last group, and the short ones after a full one; the bytes 0, 27, 170 and 255 have different
bits in each part a digit takes. `MaxParts` is never reached unless positions wrap.
Fairness: the thread that called runs.

Where a loop does not end as the code stands, the model has it: a block that cannot be
decrypted (`Decrypts`), and chunks whose positions wrap; `CallsEnd` and `PassesAdvance` exclude
the two, by `Ends`. With a chunk size of 0 it is the default size that makes the loop end
(the second mutant of `CallsEnd`).

## 8. What is proved

### MQTT

`MqttClientsProofs.tla` proves for all values of the constants, from the named
assumptions of `Mosquitto` and `MqttClients` (None is none of the other values; the
bound sets are subsets of what the actions know):

- `Invariance`: `Inv` is inductive. It is the type invariant with what it needs: a
  client that does not exist has no thread, packets or callback (`FreshInv`), the map
  leads to clients built for their address (`RegistryInv`), what a call knows at each
  of its steps (`CallInv`), and which thread states a callback can be in
  (`CallbackInv`). `TypeOK` alone is not inductive, since a call indexes the
  variables by the client it has found.
- `TypeCorrect` and `ErasedQuietly` follow from it.
- `ConnectionInvariance`: connections start clean. While a CONNECT is on its way the
  connection carries nothing else, its answer comes first and finds the link open,
  and a connection that broke leaves no session behind.
- `AckedKnown` follows: no REFUSED can arrive on a confirmed connection, and
  CONNECTING is written only before the network thread exists.
- `NoStray`, through `TopicInv`: a topic absent from `m_topicMsg`, and one about to be
  erased, has an UNSUBSCRIBE behind its last SUBSCRIBE. Reading a request, queueing
  one and losing the connection each preserve that (`ReadForgotten`,
  `QueueForgotten`, `LoopForgotten`).

`MqttProgressProofs.tla` continues it with the safety under the liveness:

- `ProgressInvariance`: `ThreadInv` and `JoinInv` are inductive together with `Inv` and
  `ConnectionInv`. A running thread has a socket; while the connection is neither confirmed
  nor closed, a CONNECT, its answer or an EOF is under way; a thread that was asked to stop
  has a DISCONNECT to write or an EOF to read; a thread ends for no other reason; and a
  client is put into the map with a thread, and joined only once it was asked to stop.
- `JoinsEnd` and `NobodyStranded` follow. The first is where the order of `disconnect()` and
  `loop_stop()` matters, the second where `on_disconnect` must not leave the loop to end.

### Records

`ChunkRecordsProofs.tla` proves, for any downloads, names and lengths (from
`NamedAssumption`, `LengthAssumption`, `NoTaskAssumption`, that is: the named downloads
are downloads, and a file has a length):

- `RecordsInvariance`: `Inv` is inductive. Neither property is: a kill may leave a
  file between opening and writing, and a call holds a download that file and map
  disagree about for a moment. `FilesAreWritten` says that a file is empty or holds
  what was last written to it; `FilesAreKnown` that the process knows every file but
  the one in hand (`InHand`), and that a record about to be erased has no file.
- `RecordsTypeCorrect`, `NoRecordComesBack` and `RecordsResume` follow: at a restart
  the process ends at a file that is empty, so each record it loads is what was last
  written.
- `RecordsImplementStore` (Spec => Store!Spec) needs one fact more, `EmptyInHand`: while the
  process runs, an empty file is the one that the running save has opened. So there is at
  most one unfinished record, and `SaveWrite` finishes that one.

### The board of topics

`TopicBoardProofs.tla` continues `MqttClientsProofs`:

- `BoardInvariance`: `BoardInv` is inductive together with `Inv`. A closed socket carries
  nothing (`ClosedInv`); a client is registered for its address or is the one being built
  (`OwnedInv`), and has no topics until then (`BareInv`); a call knows whether its topic is
  bound (`StepInv`); and, the heart of it, a topic that can still bring a message, through
  the session, a SUBSCRIBE or a PUBLISH on its way, is bound to a string that the caller
  was promised or is asking for (`LiveInv`), and so is the message in hand (`HandInv`).
- `OnlyPromisedWritten` and `Implements` (Spec => Board!Spec) follow: every step of the
  clients is a step of the board or leaves it alone.

### HTTP

`HttpRequestsProofs.tla`, for any threads, kinds and numbers of tasks: `Inv` is the type
invariant and, per thread, `SeriesInv` (the series that has c tasks from the (f+1)-th on
holds the responses of its first ones, in order, and the others are to do; a call has as
many series as it needs while it is at work, and none otherwise), `RetInv` (what is returned is
nothing before the last callback and everything after it) and `NoteInv` (a task whose
callback is to come has been noted once). `RequestTypes`, `CompleteAnswers`,
`FinishedWhenWoken` and `NotesInOrder` follow, and on the same invariant rest

- `NobodyWaitsForNothing` (`WaitsForACallback`) and `RequestsAdvance` (`CallbacksAdvance`):
  a callback takes one task from the series it is of, or one phase, so that a call has as
  many callbacks to come as its tasks and series have steps left. With the fairness of the
  library's threads this is why every call ends;
- `RequestsImplementService` (Spec => Service!Spec): a response is stored once, at the place
  of its request, since what a series has stored are its first tasks (`SeriesInv`), and no
  two series share a task.

### Bodies

`MultipartBodiesProofs.tla`, for any parsers, files, contents and bounds: `Inv` says that
the body under construction is what the futures of its first files brought (`Generated`)
and that a future brings what its file was at some time since the call began (`Told`).
`BodiesTyped`, `BodiesComplete` and `NamesStay` follow. `UntouchedIsSent` needs `SentInv`: an
untouched task refers to a body made from the parser as it is and from the files as they
are, so that another body of the same parser, made while nothing changes, is the same.
`BodiesImplementService` (Spec => Service!Spec) needs `HeldInv`: the tasks of a parser refer
to one body at most, and to none unless the caller keeps the parser. Without it a write to a
file would be no step of BodyService, which loses the bodies that have the file, where the
model marks the tasks that refer to one of them.

### Blocks

`Base64Proofs.tla` proves `DecodesBack`: for every s in Seq(Byte),
base64_decode(base64_encode(s)) = s, digit by digit of a group of three, two or one
bytes (`StringComesBack` carries it to the calls). `UtilitiesProofs.tla` proves
`WholeFile` (what was hashed is the file up to `pos`) and `ChunksCover` (every byte up
to `pos` is in one of the chunks so far, and none of them ends behind the start of a later
one, so that the byte at that start is all that two of them can share; for every size and
width as long as no position overflows), `ContentComesBack` (the blocks made so far are chained and cover
the content up to `pos`; decrypting them, the vector is the block before and the result
is the content as far as it goes), `WholeText` (the text up to `pos`), `EncodesByTheStandard`
(each character is that of RFC 4648: the six bits of the string from its place on),
`KeyIsWhole` (the lines of a formatted key, put together, are the key), `UtilitiesTypeCorrect`,
and `LoopsAdvance` (no position in range wraps, so that every pass goes on). What the fold that
puts the lines together computes is shown by induction over its length (`FlattenIs`), with the
least counterexample of a set of numbers (`SetInduction`) in place of the library's induction
theorem, whose parameter is an operator.

### Only model-checked

Liveness: `EveryCallReturns`, `Reconnects`, `RetainedArrives`, `EveryCallEnds`, `BodyEnds` and
`CallsEnd`, by TLC on the instances above. Liveness under fairness is beyond the proof system
used; of four of them the safety that they rest on is proved (`JoinEnds`, `NeverStranded`,
`WaitsForACallback` with `CallbacksAdvance`, `PassesAdvance`). And the disagreements, which are
counterexamples. Every invariant, action property and refinement that a passing run checks is
proved for all values of the constants.

## 9. Other disagreements of code and comments

Met while modelling, and without a run, since each is a line or two:

- MQTT. A second subscription of a topic answers SUCCESS and ignores its result string
  (`mqttclient_instances.cpp:155`). A payload may be followed by other bytes in the
  result (`:50`). A client with an id asks for a clean session although the comment
  beside it wants the broker to keep what it knows (`:128`). `toConnectBroker` answers true
  for a connection that has closed since (`:118`; `mqttclient_instances.h:84` says "whether
  connected"). `disconnectMqttBroker` on a connection that is down fails and ends the
  reconnecting all the same (`:214`), and so does not leave what `mqttcomm_ways.h:51`
  calls the default, a new attempt every second. A client whose `loop_start` failed is
  registered (`:140`), and later calls answer true for it. After a reconnect nothing
  subscribes again (`:10`, `:66`): sessions are clean, so the broker has forgotten the topics
  that `m_topicMsg` still has, and a new subscription to one of them answers SUCCESS
  without a SUBSCRIBE.
- HTTP. A retry ends the process, in a series by running a task that the library has
  deleted (`httpreq_ways.cpp:755`), and among independent tasks by starting a series from
  a task that belongs to one (`:768`), although `httpcomm_structs.txt:76` describes the
  attempts that are to follow. With a status function set, `obtain_task_id` follows
  `user_data` just when it is null (`:613`). A `ReconnectCfg` that was a default argument is
  read when it is gone (`:93`). None of the four is in the trace of `HttpEveryCallAnswers`. `reqToGetChunkDataBySeries` answers true with nothing stored when the total of a
  Content-Range is not a number (`specialsupply_req.cpp:282`; `specialsupply_req.h:41` says
  "whether it was stored completely"). Ranges are inclusive, but the end is computed as
  start plus size (`specialsupply_req.cpp:136`): chunks overlap by a byte. Those of an upload
  do too, since the end of one is the start of the next (`:193`) and is read inclusively
  (`multipart_parser.cpp:56`); the buffer of the last one has the length of the whole file
  (`multipart_parser.cpp:55`), so that whatever was in the memory follows its bytes; and the
  positions are uint32_t, so that a file of 4 GiB and more loses chunks or never has them
  all (`specialsupply_req.cpp:181`).
- Utilities. `RsaPubDecrypt` never ends at a block that cannot be decrypted
  (`license_parse.h:128`). `get_sha256Hex_Range` hashes what its name says only for a
  range of one buffer (`hash_create.h:56`). `GetEncryptData` compares a number of bits
  with a number of characters, so that keys of up to 256 characters are taken and longer
  ones throw (`symmetric_encryption.h:29`), and its padding is overwritten, so that the
  decrypted content may be followed by other bytes (`:60`).

## 10. What is not modelled

- The HTTP server. `getApiNameByCustom` is declared as a member and defined as a free
  function, so the server cannot be linked, and `shared_from_this()` in its constructor
  throws for every server with bound functions.
- The WebSocket server. `registerServer` keeps a pointer to a server on its own stack;
  every state after its return is undefined.
- `Json` (wfrest's), `json.hpp`, `ghc`, the headers of Workflow, OpenSSL and mosquitto: they
  are vendored, and most of the lines of the repository. The library's own code is a few
  thousand lines, and the modules cover its stateful part.
- Small helpers: single expressions and calls of the operating system.
- A second API thread of MQTT: `m_mqttClientIns` has no lock, so two calls at once are
  undefined behaviour at the first insertion.
- Redelivery of QoS 1 and 2 by the library (`TopicInfo::qos` defaults to 2): what
  the properties speak of, the callbacks and the calls, is the same at QoS 0, except
  that a publication the call reports as failed may still be delivered later.
- The life of the caller's strings: `m_topicMsg` holds references, and
  `WritesOnlyPromised` is the half of the contract the library must keep.
- HTTP: headers, `startTask`, which only a demonstration uses, what follows a failed
  request, and the uint8_t indices of tasks, which wrap from the 257th task of a call on
  (`httpreq_ways.cpp:398`).
- Transfers: the writing of chunks and the answers to an upload, which no run of the build
  reaches, and `m_uploadResume_`, whose files nothing writes.
- `get_sha256Hex_Range`, for which no property would hold, and `get_sha256Hex`, which has
  no loop.
