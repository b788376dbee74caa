------------------------- MODULE ChunkRecordsProofs -------------------------
(* Theorems about ChunkRecords, for any downloads. *)
EXTENDS ChunkRecords, TLAPS

\* What a file holds is what was written to it last, once it holds something.
FilesAreWritten ==
  \A t \in DOMAIN resume_note : resume_note[t] # <<>> => resume_note[t] = <<written[t]>>

\* A file whose download the process does not know is being written; the one of
\* a download that is being forgotten is gone.
InHand == IF pc \in {"write", "insert"} THEN {call.task} ELSE {}
FilesAreKnown ==
  /\ s_ota_datamanager => DOMAIN resume_note \subseteq DOMAIN m_downResume_ \cup InHand
  /\ pc = "erase" => call.task \notin DOMAIN resume_note
  /\ pc \in {"write", "insert", "erase"} => s_ota_datamanager
  /\ pc # "idle" => call.task \in Tasks
  /\ pc = "write" => call.task \in DOMAIN resume_note

Inv == TypeOK /\ FilesAreWritten /\ FilesAreKnown

\* A partial function is a function on a part of its set.
LEMMA PartialIff ==
  ASSUME NEW A, NEW B, NEW f
  PROVE  f \in Partial(A, B) <=> DOMAIN f \subseteq A /\ f \in [DOMAIN f -> B]
  BY DEF Partial

\* Removing an element of a partial function, or adding one.
LEMMA WithoutValues ==
  ASSUME NEW f, NEW t
  PROVE  /\ DOMAIN Without(f, t) = DOMAIN f \ {t}
         /\ \A u \in DOMAIN f \ {t} : Without(f, t)[u] = f[u]
  BY DEF Without

LEMMA WithDomain ==
  ASSUME NEW f, NEW t, NEW x
  PROVE  DOMAIN With(f, t, x) = DOMAIN f \cup {t}
  BY DEF With

LEMMA WithValues ==
  ASSUME NEW f, NEW t, NEW x
  PROVE  /\ With(f, t, x)[t] = x
         /\ \A u \in DOMAIN f \ {t} : With(f, t, x)[u] = f[u]
  BY DEF With

LEMMA WithoutPartial ==
  ASSUME NEW A, NEW B, NEW f \in Partial(A, B), NEW t
  PROVE  Without(f, t) \in Partial(A, B)
  <1>1. DOMAIN f \subseteq A /\ f \in [DOMAIN f -> B]
    BY PartialIff
  <1>2. Without(f, t) \in [DOMAIN f \ {t} -> B]
    BY <1>1 DEF Without
  <1>. QED
    BY <1>1, <1>2, WithoutValues, PartialIff

LEMMA WithPartial ==
  ASSUME NEW A, NEW B, NEW f \in Partial(A, B), NEW t \in A, NEW x \in B
  PROVE  With(f, t, x) \in Partial(A, B)
  <1>1. DOMAIN f \subseteq A /\ f \in [DOMAIN f -> B]
    BY PartialIff
  <1>2. With(f, t, x) \in [DOMAIN f \cup {t} -> B]
    BY <1>1 DEF With
  <1>. QED
    BY <1>1, <1>2, WithDomain, PartialIff

LEMMA EmptyPartial ==
  ASSUME NEW A, NEW B
  PROVE  <<>> \in Partial(A, B) /\ DOMAIN <<>> = {}
  <1>1. DOMAIN <<>> = {} /\ <<>> \in [{} -> B]
    OBVIOUS
  <1>. QED
    BY <1>1, PartialIff

\* What the calls and the files start with.
LEMMA Starts ==
  /\ 0 \in Ends /\ NoCall \in Calls /\ <<>> \in Contents
  /\ \A op \in {"save", "download", "delete"}, t \in Tasks, e \in Ends : Call(op, t, e) \in Calls
  <1>1. 0 \in Ends
    BY LengthAssumption DEF Ends
  <1>. QED
    BY <1>1 DEF NoCall, Call, Calls, Contents

LEMMA InitInv == Init => Inv
  <1>. SUFFICES ASSUME Init PROVE Inv
    OBVIOUS
  <1>1. TypeOK
    BY EmptyPartial, Starts DEF Init, TypeOK, Steps
  <1>2. FilesAreWritten
    BY EmptyPartial DEF Init, FilesAreWritten
  <1>3. FilesAreKnown
    BY DEF Init, FilesAreKnown
  <1>. QED
    BY <1>1, <1>2, <1>3 DEF Inv

\* After a restart the process knows nothing, and the files are what they were.
LEMMA RestartInv == Inv /\ Restart => Inv'
  <1>. SUFFICES ASSUME Inv, Restart PROVE Inv'
    OBVIOUS
  <1>1. TypeOK'
    BY EmptyPartial, Starts DEF Inv, Restart, TypeOK, Steps
  <1>2. FilesAreWritten'
    BY DEF Inv, Restart, FilesAreWritten
  <1>3. FilesAreKnown'
    BY DEF Restart, FilesAreKnown
  <1>. QED
    BY <1>1, <1>2, <1>3 DEF Inv

LEMMA GetInstanceInv == Inv /\ getInstance => Inv'
  <1>. SUFFICES ASSUME Inv, getInstance, ~Restart PROVE Inv'
    BY RestartInv
  <1>. USE DEF Inv, getInstance
  <1>1. \A t \in DOMAIN resume_note : resume_note[t] = <<written[t]>> /\ loadStructFromFile(t) \in Ends
    <2>. SUFFICES ASSUME NEW t \in DOMAIN resume_note
                  PROVE  resume_note[t] = <<written[t]>> /\ loadStructFromFile(t) \in Ends
      OBVIOUS
    <2>1. resume_note[t] = <<written[t]>>
      BY DEF FilesAreWritten, Readable
    <2>2. t \in Tasks
      BY PartialIff, NamedAssumption DEF TypeOK
    <2>3. written[t] \in Ends
      BY <2>2 DEF TypeOK
    <2>. QED
      BY <2>1, <2>3 DEF loadStructFromFile
  <1>2. getAllResumeTasks \in Partial(Tasks, Ends) /\ DOMAIN getAllResumeTasks = DOMAIN resume_note
    <2>1. DOMAIN resume_note \subseteq Tasks
      BY PartialIff, NamedAssumption DEF TypeOK
    <2>. QED
      BY <1>1, <2>1, PartialIff DEF getAllResumeTasks
  <1>3. TypeOK'
    BY <1>2 DEF TypeOK
  <1>4. FilesAreWritten'
    BY DEF FilesAreWritten
  <1>5. FilesAreKnown'
    BY <1>2 DEF FilesAreKnown, InHand
  <1>. QED
    BY <1>3, <1>4, <1>5

LEMMA SaveInv ==
  ASSUME NEW t \in Tasks, NEW e \in Ends, NEW fileName \in BOOLEAN
  PROVE  Inv /\ saveDownTaskInfo(t, e, fileName) => Inv'
  <1>. SUFFICES ASSUME Inv, saveDownTaskInfo(t, e, fileName) PROVE Inv'
    OBVIOUS
  <1>. USE DEF Inv, saveDownTaskInfo
  <1>1. call' \in Calls /\ call'.task = t
    BY Starts DEF Call
  <1>2. CASE Opens(t, fileName)
    <2>1. /\ t \in Named /\ resume_note \in Partial(Named, Contents) /\ <<>> \in Contents
          /\ resume_note' = With(resume_note, t, <<>>) /\ pc' = "write"
      BY <1>2, Starts DEF Opens, TypeOK
    <2>2. /\ resume_note' \in Partial(Named, Contents)
          /\ DOMAIN resume_note' = DOMAIN resume_note \cup {t}
          /\ resume_note'[t] = <<>>
          /\ \A u \in DOMAIN resume_note \ {t} : resume_note'[u] = resume_note[u]
      <3>1. With(resume_note, t, <<>>) \in Partial(Named, Contents)
        BY <2>1, WithPartial
      <3>2. DOMAIN With(resume_note, t, <<>>) = DOMAIN resume_note \cup {t}
        BY ONLY WithDomain
      <3>3. /\ With(resume_note, t, <<>>)[t] = <<>>
            /\ \A u \in DOMAIN resume_note \ {t} : With(resume_note, t, <<>>)[u] = resume_note[u]
        BY ONLY WithValues
      <3>. QED
        BY <2>1, <3>1, <3>2, <3>3
    <2>3. TypeOK'
      BY <1>1, <2>1, <2>2 DEF TypeOK, Steps
    <2>4. FilesAreWritten'
      BY <2>2 DEF FilesAreWritten
    <2>5. FilesAreKnown'
      BY <1>1, <2>1, <2>2 DEF FilesAreKnown, InHand
    <2>. QED
      BY <2>3, <2>4, <2>5
  <1>3. CASE ~Opens(t, fileName)
    <2>1. TypeOK'
      BY <1>1, <1>3 DEF TypeOK, Steps
    <2>2. FilesAreWritten'
      BY <1>3 DEF FilesAreWritten
    <2>3. FilesAreKnown'
      BY <1>1, <1>3 DEF FilesAreKnown, InHand
    <2>. QED
      BY <2>1, <2>2, <2>3
  <1>. QED
    BY <1>2, <1>3

LEMMA SaveWriteInv == Inv /\ SaveWrite => Inv'
  <1>. SUFFICES ASSUME Inv, SaveWrite PROVE Inv'
    OBVIOUS
  <1>. USE DEF Inv, SaveWrite
  <1>1. call.task \in Tasks /\ call.task \in DOMAIN resume_note /\ call.lastEndPos \in Ends
    BY DEF TypeOK, Calls, FilesAreKnown
  <1>2. saveStructToFile(call.task) = <<call.lastEndPos>>
    BY DEF saveStructToFile, saved
  <1>3. DOMAIN resume_note \subseteq Named /\ resume_note \in [DOMAIN resume_note -> Contents]
    BY PartialIff DEF TypeOK
  <1>4. <<call.lastEndPos>> \in Contents
    BY <1>1 DEF Contents
  <1>5. resume_note' \in [DOMAIN resume_note -> Contents] /\ DOMAIN resume_note' = DOMAIN resume_note
    BY <1>1, <1>2, <1>3, <1>4
  <1>6. resume_note' \in Partial(Named, Contents)
    BY <1>3, <1>5, PartialIff
  <1>7. TypeOK'
    BY <1>1, <1>6 DEF TypeOK, Steps
  <1>8. FilesAreWritten'
    BY <1>1, <1>2, <1>3, <1>5 DEF TypeOK, FilesAreWritten
  <1>9. FilesAreKnown'
    BY <1>5 DEF FilesAreKnown, InHand
  <1>. QED
    BY <1>7, <1>8, <1>9

LEMMA SaveInsertInv == Inv /\ SaveInsert => Inv'
  <1>. SUFFICES ASSUME Inv, SaveInsert PROVE Inv'
    OBVIOUS
  <1>. USE DEF Inv, SaveInsert
  <1>1. call.task \in Tasks /\ call.lastEndPos \in Ends
    BY DEF TypeOK, Calls, FilesAreKnown
  <1>2. m_downResume_' \in Partial(Tasks, Ends) /\ DOMAIN m_downResume_' = DOMAIN m_downResume_ \cup {call.task}
    <2>1. m_downResume_ \in Partial(Tasks, Ends)
      BY DEF TypeOK
    <2>2. CASE call.task \in DOMAIN m_downResume_
      BY <2>1, <2>2
    <2>3. CASE call.task \notin DOMAIN m_downResume_
      <3>1. m_downResume_' = With(m_downResume_, call.task, call.lastEndPos)
        BY <2>3
      <3>2. With(m_downResume_, call.task, call.lastEndPos) \in Partial(Tasks, Ends)
        BY <1>1, <2>1, WithPartial
      <3>3. DOMAIN With(m_downResume_, call.task, call.lastEndPos) = DOMAIN m_downResume_ \cup {call.task}
        BY ONLY WithDomain
      <3>. QED
        BY <3>1, <3>2, <3>3
    <2>. QED
      BY <2>2, <2>3
  <1>3. TypeOK'
    BY <1>2, Starts DEF TypeOK, Steps
  <1>4. FilesAreWritten'
    BY DEF FilesAreWritten
  <1>5. FilesAreKnown'
    BY <1>2 DEF FilesAreKnown, InHand
  <1>. QED
    BY <1>3, <1>4, <1>5

LEMMA DownloadInv ==
  ASSUME NEW t \in Tasks
  PROVE  Inv /\ reqToGetChunkDataBySeries(t) => Inv'
  <1>. SUFFICES ASSUME Inv, reqToGetChunkDataBySeries(t) PROVE Inv'
    OBVIOUS
  <1>. USE DEF Inv, reqToGetChunkDataBySeries
  <1>1. TypeOK'
    BY Starts DEF TypeOK, Steps
  <1>2. FilesAreWritten'
    BY DEF FilesAreWritten
  <1>3. FilesAreKnown'
    BY DEF FilesAreKnown, InHand, Call
  <1>. QED
    BY <1>1, <1>2, <1>3

LEMMA CallbackInv == Inv /\ wget_chunk_callback => Inv'
  <1>. SUFFICES ASSUME Inv, wget_chunk_callback, ~Restart PROVE Inv'
    BY RestartInv
  <1>. USE DEF Inv, wget_chunk_callback
  <1>1. TypeOK'
    BY DEF TypeOK, Calls, Steps
  <1>2. FilesAreWritten'
    BY DEF FilesAreWritten
  <1>3. FilesAreKnown'
    BY DEF TypeOK, Calls, FilesAreKnown, InHand
  <1>. QED
    BY <1>1, <1>2, <1>3

LEMMA DeleteInv ==
  ASSUME NEW t \in Tasks
  PROVE  Inv /\ delDownTaskInfo(t) => Inv'
  <1>. SUFFICES ASSUME Inv, delDownTaskInfo(t) PROVE Inv'
    OBVIOUS
  <1>. USE DEF Inv, delDownTaskInfo
  <1>1. call'.task = t
    BY DEF Call
  <1>2. call' \in Calls
    BY Starts DEF TypeOK
  <1>3. /\ resume_note' \in Partial(Named, Contents)
        /\ DOMAIN resume_note' = DOMAIN resume_note \ {t}
        /\ \A u \in DOMAIN resume_note \ {t} : resume_note'[u] = resume_note[u]
    <2>1. resume_note \in Partial(Named, Contents)
      BY DEF TypeOK
    <2>2. CASE t \in DOMAIN m_downResume_
      <3>1. resume_note' = Without(resume_note, t)
        BY <2>2 DEF remove
      <3>2. Without(resume_note, t) \in Partial(Named, Contents)
        BY <2>1, WithoutPartial
      <3>3. /\ DOMAIN Without(resume_note, t) = DOMAIN resume_note \ {t}
            /\ \A u \in DOMAIN resume_note \ {t} : Without(resume_note, t)[u] = resume_note[u]
        BY WithoutValues
      <3>. QED
        BY <3>1, <3>2, <3>3
    <2>3. CASE t \notin DOMAIN m_downResume_
      BY <2>1, <2>3 DEF FilesAreKnown, InHand
    <2>. QED
      BY <2>2, <2>3
  <1>4. TypeOK'
    BY <1>2, <1>3 DEF TypeOK, Steps
  <1>5. FilesAreWritten'
    BY <1>3 DEF FilesAreWritten
  <1>6. FilesAreKnown'
    BY <1>1, <1>3 DEF FilesAreKnown, InHand
  <1>. QED
    BY <1>4, <1>5, <1>6

LEMMA DelEraseInv == Inv /\ DelErase => Inv'
  <1>. SUFFICES ASSUME Inv, DelErase PROVE Inv'
    OBVIOUS
  <1>. USE DEF Inv, DelErase
  <1>1. m_downResume_' \in Partial(Tasks, Ends) /\ DOMAIN m_downResume_' = DOMAIN m_downResume_ \ {call.task}
    <2>1. m_downResume_ \in Partial(Tasks, Ends)
      BY DEF TypeOK
    <2>2. m_downResume_' = Without(m_downResume_, call.task)
      OBVIOUS
    <2>3. Without(m_downResume_, call.task) \in Partial(Tasks, Ends)
      BY <2>1, WithoutPartial
    <2>4. DOMAIN Without(m_downResume_, call.task) = DOMAIN m_downResume_ \ {call.task}
      BY WithoutValues
    <2>. QED
      BY <2>2, <2>3, <2>4
  <1>2. TypeOK'
    BY <1>1, Starts DEF TypeOK, Steps, Answer
  <1>3. FilesAreWritten'
    BY DEF FilesAreWritten
  <1>4. FilesAreKnown'
    BY <1>1 DEF FilesAreKnown, InHand, Answer
  <1>. QED
    BY <1>2, <1>3, <1>4

LEMMA NextInv == Inv /\ [Next]_vars => Inv'
  <1>1. CASE UNCHANGED vars
    BY <1>1 DEF vars, Inv, TypeOK, FilesAreWritten, FilesAreKnown, InHand
  <1>2. CASE Next
    BY <1>2, RestartInv, GetInstanceInv, SaveInv, SaveWriteInv, SaveInsertInv, DownloadInv,
       CallbackInv, DeleteInv, DelEraseInv DEF Next, Kill
  <1>. QED
    BY <1>1, <1>2

\* The invariant: the record files, the map and the call agree, whenever the
\* process is killed.
THEOREM RecordsInvariance == Spec => []Inv
  BY InitInv, NextInv, PTL DEF Spec

\* Every variable keeps its type; a file holds at most one record.
THEOREM RecordsTypeCorrect == Spec => []TypeOK
  <1>1. Inv => TypeOK
    BY DEF Inv
  <1>. QED
    BY RecordsInvariance, <1>1, PTL

\* Between calls, a restart finds no download that the process does not know
\* (delDownTaskInfo removes the file before the record).
THEOREM NoRecordComesBack == Spec => []NoneComesBack
  <1>1. Inv => NoneComesBack
    BY DEF Inv, FilesAreKnown, InHand, NoneComesBack
  <1>. QED
    BY RecordsInvariance, <1>1, PTL

\* What a restart loads is the record that was last written (saveDownTaskInfo
\* rewrites the file, and getAllResumeTasks takes its one record).
THEOREM RecordsResume == Spec => ResumesFromLast
  <1>1. Inv /\ [Next]_vars =>
          [~s_ota_datamanager /\ s_ota_datamanager' =>
             \A t \in DOMAIN m_downResume_' : m_downResume_'[t] = written[t]]_vars
    <2>. SUFFICES ASSUME Inv, Next, ~s_ota_datamanager, s_ota_datamanager'
                  PROVE  \A t \in DOMAIN m_downResume_' : m_downResume_'[t] = written[t]
      BY DEF vars
    <2>1. getInstance /\ ~Restart
      BY DEF Next, Kill, Restart, saveDownTaskInfo, SaveWrite, SaveInsert, reqToGetChunkDataBySeries,
             delDownTaskInfo, wget_chunk_callback, DelErase, getInstance
    <2>2. \A t \in DOMAIN resume_note : resume_note[t] = <<written[t]>>
      BY <2>1 DEF Inv, FilesAreWritten, getInstance, Readable
    <2>. QED
      BY <2>1, <2>2 DEF getInstance, getAllResumeTasks, loadStructFromFile
  <1>. QED
    BY RecordsInvariance, <1>1, PTL DEF Spec, ResumesFromLast

-----------------------------------------------------------------------------
(* ChunkRecords implements ResumeStore. *)

\* While the process runs, a file is empty only from when its record is saved
\* until it is written.
EmptyInHand ==
  s_ota_datamanager => DOMAIN resume_note \ Finished = IF pc = "write" THEN {call.task} ELSE {}
Reading == [t \in Finished |-> loadStructFromFile(t)]
Knowing == (DOMAIN m_downResume_ \cup BeingSaved) \ BeingDeleted

LEMMA EmptyInHandStep == Inv /\ EmptyInHand /\ [Next]_vars => EmptyInHand'
  <1>. SUFFICES ASSUME Inv, EmptyInHand, [Next]_vars PROVE EmptyInHand'
    OBVIOUS
  <1>. USE DEF EmptyInHand, Finished
  <1>1. CASE UNCHANGED vars
    BY <1>1 DEF vars
  <1>2. CASE Restart
    BY <1>2 DEF Restart
  <1>3. CASE getInstance /\ ~Restart
    BY <1>3 DEF getInstance, Readable
  <1>4. ASSUME NEW t \in Tasks, NEW e \in Ends, NEW fileName \in BOOLEAN, saveDownTaskInfo(t, e, fileName)
        PROVE  EmptyInHand'
    <2>1. call'.task = t /\ (s_ota_datamanager' = s_ota_datamanager) /\ pc = "idle"
      BY <1>4 DEF saveDownTaskInfo, Call
    <2>2. CASE Opens(t, fileName)
      <3>1. resume_note' = With(resume_note, t, <<>>) /\ pc' = "write"
        BY <1>4, <2>2 DEF saveDownTaskInfo
      <3>2. DOMAIN With(resume_note, t, <<>>) = DOMAIN resume_note \cup {t}
        BY ONLY WithDomain
      <3>3. /\ With(resume_note, t, <<>>)[t] = <<>>
            /\ \A u \in DOMAIN resume_note \ {t} : With(resume_note, t, <<>>)[u] = resume_note[u]
        BY ONLY WithValues
      <3>4. \A u \in DOMAIN resume_note : s_ota_datamanager => resume_note[u] # <<>>
        BY <2>1
      <3>. QED
        BY <2>1, <3>1, <3>2, <3>3, <3>4
    <2>3. CASE ~Opens(t, fileName)
      BY <1>4, <2>1, <2>3 DEF saveDownTaskInfo
    <2>. QED
      BY <2>2, <2>3
  <1>5. CASE SaveWrite
    <2>1. saveStructToFile(call.task) # <<>>
      BY DEF saveStructToFile, saved
    <2>2. DOMAIN resume_note' = DOMAIN resume_note
          /\ \A u \in DOMAIN resume_note :
               resume_note'[u] = IF u = call.task THEN saveStructToFile(call.task) ELSE resume_note[u]
      BY <1>5 DEF SaveWrite
    <2>. QED
      BY <1>5, <2>1, <2>2 DEF SaveWrite
  <1>6. CASE SaveInsert \/ wget_chunk_callback \/ DelErase
    <2>1. CASE Restart
      BY <1>2, <2>1
    <2>2. CASE ~Restart
      BY <1>6, <2>2 DEF SaveInsert, wget_chunk_callback, DelErase, Answer
    <2>. QED
      BY <2>1, <2>2
  <1>7. ASSUME NEW t \in Tasks, reqToGetChunkDataBySeries(t) PROVE EmptyInHand'
    BY <1>7 DEF reqToGetChunkDataBySeries
  <1>8. ASSUME NEW t \in Tasks, delDownTaskInfo(t) PROVE EmptyInHand'
    <2>1. pc # "write" /\ pc' = "erase"
      BY <1>8 DEF delDownTaskInfo
    <2>2. resume_note' = resume_note \/ resume_note' = Without(resume_note, t)
      BY <1>8 DEF delDownTaskInfo, remove
    <2>3. /\ DOMAIN Without(resume_note, t) = DOMAIN resume_note \ {t}
          /\ \A u \in DOMAIN resume_note \ {t} : Without(resume_note, t)[u] = resume_note[u]
      BY WithoutValues
    <2>4. s_ota_datamanager' = s_ota_datamanager
      BY <1>8 DEF delDownTaskInfo
    <2>. QED
      BY <2>1, <2>2, <2>3, <2>4
  <1>. QED
    BY <1>1, <1>2, <1>3, <1>4, <1>5, <1>6, <1>7, <1>8 DEF Next, Kill

\* Files and map that stay as they are are the same records of the same downloads.
LEMMA SameRecords == resume_note' = resume_note => UNCHANGED <<Finished, Reading, DOMAIN resume_note>>
  BY DEF Finished, Reading, loadStructFromFile

LEMMA RestartStops == Restart => Store!Stop
  <1>. SUFFICES ASSUME Restart PROVE Store!Stop
    OBVIOUS
  <1>1. UNCHANGED <<Finished, Reading, DOMAIN resume_note>>
    BY SameRecords DEF Restart
  <1>2. Knowing' = {}
    BY EmptyPartial DEF Restart, Knowing, BeingSaved, BeingDeleted
  <1>. QED
    BY <1>1, <1>2 DEF Store!Stop, Restart, Reading, Knowing

LEMMA InstanceStarts == Inv /\ getInstance /\ ~Restart => Store!Start
  <1>. SUFFICES ASSUME Inv, getInstance, ~Restart PROVE Store!Start
    OBVIOUS
  <1>1. UNCHANGED <<Finished, Reading, DOMAIN resume_note>>
    BY SameRecords DEF getInstance
  <1>2. Finished = DOMAIN resume_note
    BY DEF getInstance, Readable, Finished
  <1>3. Knowing' = DOMAIN resume_note
    BY DEF getInstance, Knowing, BeingSaved, BeingDeleted, getAllResumeTasks
  <1>. QED
    BY <1>1, <1>2, <1>3 DEF Store!Start, getInstance, Reading, Knowing

LEMMA SaveBegins ==
  ASSUME NEW t \in Tasks, NEW e \in Ends, NEW fileName \in BOOLEAN, Inv, EmptyInHand,
         saveDownTaskInfo(t, e, fileName)
  PROVE  Store!Begin(t) \/ Store!Note(t)
  <1>1. call'.task = t /\ s_ota_datamanager /\ s_ota_datamanager' = s_ota_datamanager /\ pc = "idle"
    BY DEF saveDownTaskInfo, Call
  <1>2. DOMAIN resume_note \ Finished = {}
    BY <1>1 DEF EmptyInHand
  <1>3. Knowing' = Knowing \cup {t}
    BY <1>1 DEF saveDownTaskInfo, Knowing, BeingSaved, BeingDeleted
  <1>4. CASE Opens(t, fileName)
    <2>1. resume_note' = With(resume_note, t, <<>>)
      BY <1>4 DEF saveDownTaskInfo
    <2>2. DOMAIN With(resume_note, t, <<>>) = DOMAIN resume_note \cup {t}
      BY ONLY WithDomain
    <2>3. /\ With(resume_note, t, <<>>)[t] = <<>>
          /\ \A u \in DOMAIN resume_note \ {t} : With(resume_note, t, <<>>)[u] = resume_note[u]
      BY ONLY WithValues
    <2>4. Finished' = Finished \ {t} /\ DOMAIN resume_note' \ Finished' = {t}
      BY <1>2, <2>1, <2>2, <2>3 DEF Finished
    <2>5. Reading' = [u \in DOMAIN Reading \ {t} |-> Reading[u]]
      <3>1. \A u \in Finished \ {t} : resume_note'[u] = resume_note[u]
        BY <2>1, <2>3 DEF Finished
      <3>. QED
        BY <2>4, <3>1 DEF Reading, loadStructFromFile
    <2>. QED
      BY <1>1, <1>2, <1>3, <2>4, <2>5 DEF Store!Begin, Store!Dropped, Reading, Knowing
  <1>5. CASE ~Opens(t, fileName)
    <2>1. UNCHANGED <<Finished, Reading, DOMAIN resume_note>>
      BY <1>5, SameRecords DEF saveDownTaskInfo
    <2>. QED
      BY <1>1, <1>2, <1>3, <2>1 DEF Store!Note, Reading, Knowing
  <1>. QED
    BY <1>4, <1>5

LEMMA WriteFinishes == Inv /\ EmptyInHand /\ SaveWrite => \E t \in Tasks, e \in Ends : Store!Finish(t, e)
  <1>. SUFFICES ASSUME Inv, EmptyInHand, SaveWrite PROVE \E t \in Tasks, e \in Ends : Store!Finish(t, e)
    OBVIOUS
  <1>. DEFINE t == call.task
              e == call.lastEndPos
  <1>1. t \in Tasks /\ t \in DOMAIN resume_note /\ e \in Ends /\ s_ota_datamanager
    BY DEF Inv, TypeOK, Calls, FilesAreKnown, SaveWrite
  <1>2. /\ DOMAIN resume_note' = DOMAIN resume_note
        /\ resume_note'[t] = <<e>>
        /\ \A u \in DOMAIN resume_note \ {t} : resume_note'[u] = resume_note[u]
    BY <1>1 DEF SaveWrite, saveStructToFile, saved
  <1>. HIDE DEF e
  <1>3. DOMAIN resume_note \ Finished = {t}
    BY <1>1 DEF EmptyInHand, SaveWrite
  <1>4. Finished' = Finished \cup {t} /\ Finished' = DOMAIN resume_note'
    <2>1. <<e>> # <<>>
      OBVIOUS
    <2>2. \A u \in DOMAIN resume_note \ {t} : resume_note[u] # <<>>
      BY <1>3 DEF Finished
    <2>3. \A u \in DOMAIN resume_note : resume_note'[u] # <<>>
      BY <1>2, <2>1, <2>2
    <2>. QED
      BY <1>1, <1>2, <1>3, <2>3 DEF Finished
  <1>5. Reading' = [u \in DOMAIN Reading \cup {t} |-> IF u = t THEN e ELSE Reading[u]]
    <2>1. Head(<<e>>) = e
      OBVIOUS
    <2>2. \A u \in Finished \cup {t} : loadStructFromFile(u)' = IF u = t THEN e ELSE loadStructFromFile(u)
      BY <1>2, <2>1 DEF Finished, loadStructFromFile
    <2>. QED
      BY <1>4, <2>2 DEF Reading
  <1>6. UNCHANGED <<s_ota_datamanager, Knowing>>
    BY DEF SaveWrite, Knowing, BeingSaved, BeingDeleted
  <1>7. Store!Finish(t, e)
    BY <1>1, <1>3, <1>4, <1>5, <1>6 DEF Store!Finish, Reading, Knowing
  <1>. QED
    BY <1>1, <1>7

\* The rest of a save, a download, and the rest of a delete change neither what is
\* stored nor, as the store sees it, what is known.
LEMMA QuietSteps ==
  ASSUME Inv,
         SaveInsert \/ DelErase \/ (wget_chunk_callback /\ ~Restart)
           \/ (\E t \in Tasks : reqToGetChunkDataBySeries(t)) \/ UNCHANGED vars
  PROVE  UNCHANGED <<Reading, DOMAIN resume_note \ Finished, Knowing, s_ota_datamanager>>
  <1>1. resume_note' = resume_note /\ s_ota_datamanager' = s_ota_datamanager
    BY DEF SaveInsert, DelErase, wget_chunk_callback, reqToGetChunkDataBySeries, vars
  <1>2. UNCHANGED <<Finished, Reading, DOMAIN resume_note>>
    BY <1>1, SameRecords
  <1>3. Knowing' = Knowing
    <2>1. CASE SaveInsert
      <3>1. DOMAIN With(m_downResume_, call.task, call.lastEndPos) = DOMAIN m_downResume_ \cup {call.task}
        BY ONLY WithDomain
      <3>2. DOMAIN m_downResume_' = DOMAIN m_downResume_ \cup {call.task}
        BY <2>1, <3>1 DEF SaveInsert
      <3>. QED
        BY <2>1, <3>2 DEF SaveInsert, Knowing, BeingSaved, BeingDeleted
    <2>2. CASE DelErase
      <3>1. DOMAIN m_downResume_' = DOMAIN m_downResume_ \ {call.task}
        BY <2>2, WithoutValues DEF DelErase
      <3>. QED
        BY <2>2, <3>1 DEF DelErase, Answer, Knowing, BeingSaved, BeingDeleted
    <2>3. CASE (wget_chunk_callback /\ ~Restart) \/ (\E t \in Tasks : reqToGetChunkDataBySeries(t)) \/ UNCHANGED vars
      BY <2>3 DEF wget_chunk_callback, reqToGetChunkDataBySeries, vars, Knowing, BeingSaved, BeingDeleted
    <2>. QED
      BY <2>1, <2>2, <2>3
  <1>. QED
    BY <1>1, <1>2, <1>3

LEMMA DeleteDeletes ==
  ASSUME NEW t \in Tasks, Inv, EmptyInHand, delDownTaskInfo(t)
  PROVE  Store!Delete(t)
  <1>1. /\ s_ota_datamanager /\ s_ota_datamanager' = s_ota_datamanager
        /\ pc \in {"idle", "delete"} /\ pc' = "erase" /\ call'.task = t
    BY DEF delDownTaskInfo, Call
  <1>2. DOMAIN resume_note \ Finished = {}
    BY <1>1 DEF EmptyInHand
  <1>3. Knowing' = Knowing \ {t}
    BY <1>1 DEF delDownTaskInfo, Knowing, BeingSaved, BeingDeleted
  <1>4. /\ DOMAIN resume_note' = DOMAIN resume_note \ {t}
        /\ \A u \in DOMAIN resume_note \ {t} : resume_note'[u] = resume_note[u]
    <2>1. CASE t \in DOMAIN m_downResume_
      BY <2>1, WithoutValues DEF delDownTaskInfo, remove
    <2>2. CASE t \notin DOMAIN m_downResume_
      BY <1>1, <2>2 DEF delDownTaskInfo, Inv, FilesAreKnown, InHand
    <2>. QED
      BY <2>1, <2>2
  <1>5. Finished' = Finished \ {t} /\ DOMAIN resume_note' \ Finished' = {}
    BY <1>2, <1>4 DEF Finished
  <1>6. Reading' = [u \in DOMAIN Reading \ {t} |-> Reading[u]]
    BY <1>4, <1>5 DEF Reading, Finished, loadStructFromFile
  <1>. QED
    BY <1>1, <1>2, <1>3, <1>5, <1>6 DEF Store!Delete, Store!Dropped, Reading, Knowing

LEMMA StoreStep == Inv /\ EmptyInHand /\ [Next]_vars => [Store!Next]_(Store!storeVars)
  <1>. SUFFICES ASSUME Inv, EmptyInHand, [Next]_vars
                PROVE  Store!Next \/ UNCHANGED <<Reading, DOMAIN resume_note \ Finished, Knowing, s_ota_datamanager>>
    BY DEF Store!storeVars, Reading, Knowing
  <1>1. CASE Restart \/ (getInstance /\ ~Restart)
    BY <1>1, RestartStops, InstanceStarts DEF Store!Next
  <1>2. ASSUME NEW t \in Tasks, NEW e \in Ends, NEW fileName \in BOOLEAN, saveDownTaskInfo(t, e, fileName)
        PROVE  Store!Next
    BY <1>2, SaveBegins DEF Store!Next
  <1>3. CASE SaveWrite
    BY <1>3, WriteFinishes DEF Store!Next
  <1>4. ASSUME NEW t \in Tasks, delDownTaskInfo(t) PROVE Store!Next
    BY <1>4, DeleteDeletes DEF Store!Next
  <1>5. CASE SaveInsert \/ DelErase \/ (wget_chunk_callback /\ ~Restart)
               \/ (\E t \in Tasks : reqToGetChunkDataBySeries(t)) \/ UNCHANGED vars
    BY <1>5, QuietSteps
  <1>. QED
    BY <1>1, <1>2, <1>3, <1>4, <1>5 DEF Next, Kill

LEMMA StoreInit == Init => Store!Init
  <1>. SUFFICES ASSUME Init PROVE Store!Init
    OBVIOUS
  <1>1. Finished = {} /\ DOMAIN resume_note = {} /\ DOMAIN m_downResume_ = {}
    BY EmptyPartial DEF Init, Finished
  <1>2. Reading = [t \in {} |-> 0]
    BY <1>1 DEF Reading
  <1>3. Knowing = {}
    BY <1>1 DEF Init, Knowing, BeingSaved, BeingDeleted
  <1>. QED
    BY <1>1, <1>2, <1>3 DEF Init, Store!Init, Reading, Knowing

\* The files and the map are a store (chunk_manager.cpp): whatever the calls do and
\* whenever the process is killed, every step is one of ResumeStore, which stores
\* and deletes records as a whole, or leaves the store alone.
THEOREM RecordsImplementStore == Spec => ImplementsResumeStore
  <1>1. Init => EmptyInHand
    BY DEF Init, EmptyInHand
  <1>. QED
    BY <1>1, StoreInit, StoreStep, EmptyInHandStep, RecordsInvariance, PTL
       DEF Spec, ImplementsResumeStore, Store!Spec
=============================================================================
