---------------------------- MODULE ChunkRecords ----------------------------
(***************************************************************************)
(* The records of resumable downloads: ChunkManager, its directory of       *)
(* record files, and reqToGetChunkDataBySeries, which deletes the record of *)
(* a download that is over.  The process may be killed at any time; the     *)
(* files stay.  Calls come from one thread.                                 *)
(***************************************************************************)
EXTENDS Naturals, Sequences

CONSTANTS
  Tasks,   \* downloads: each has its own key (fileHash, or commAddr without one)
  Named,   \* those with a resumeName of their own
  Length,  \* bound: the length of a remote file
  NoTask

ASSUME NamedAssumption == Named \subseteq Tasks
ASSUME LengthAssumption == Length \in Nat \ {0}
ASSUME NoTaskAssumption == NoTask \notin Tasks

VARIABLES
  resume_note,        \* record files: task -> the records in its file
  s_ota_datamanager,  \* has the singleton been made?
  m_downResume_,      \* task -> its record, a lastEndPos
  pc, call,           \* where the call is, and its arguments
  answer,             \* the answer of the last download
  written             \* task -> the record last written to its file

vars == <<resume_note, s_ota_datamanager, m_downResume_, pc, call, answer, written>>

Ends == 0..Length
Steps == {"idle", "write", "insert", "response", "delete", "erase"}
Call(op, t, e) == [op |-> op, task |-> t, lastEndPos |-> e, success |-> FALSE]
NoCall == Call("none", NoTask, 0)
Calls == [op: {"none", "save", "download", "delete"}, task: Tasks \cup {NoTask},
          lastEndPos: Ends, success: BOOLEAN]
\* A file holds one record, or none between the opening and the writing.
Contents == {<<>>} \cup {<<e>> : e \in Ends}
Partial(A, B) == UNION {[D -> B] : D \in SUBSET A}
Without(f, t) == [u \in DOMAIN f \ {t} |-> f[u]]
With(f, t, x) == [u \in DOMAIN f \cup {t} |-> IF u = t THEN x ELSE f[u]]

TypeOK ==
  /\ resume_note \in Partial(Named, Contents)
  /\ s_ota_datamanager \in BOOLEAN
  /\ m_downResume_ \in Partial(Tasks, Ends)
  /\ pc \in Steps
  /\ call \in Calls
  /\ answer \in {"none", "true", "false"}
  /\ written \in [Tasks -> Ends]

Init ==
  /\ resume_note = <<>>
  /\ s_ota_datamanager = FALSE /\ m_downResume_ = <<>>
  /\ pc = "idle" /\ call = NoCall
  /\ answer = "none"
  /\ written = [t \in Tasks |-> 0]

-----------------------------------------------------------------------------
(* The process. *)

Restart ==
  /\ s_ota_datamanager' = FALSE /\ m_downResume_' = <<>>
  /\ pc' = "idle" /\ call' = NoCall
  /\ answer' = "none"
  /\ UNCHANGED <<resume_note, written>>
Kill == (s_ota_datamanager \/ pc # "idle") /\ Restart

\* The first getInstance() reads every file, and takes front() of its records: a
\* file that a kill left empty ends the process.
Readable == \A t \in DOMAIN resume_note : resume_note[t] # <<>>
loadStructFromFile(t) == Head(resume_note[t])
getAllResumeTasks == [t \in DOMAIN resume_note |-> loadStructFromFile(t)]
getInstance ==
  /\ ~s_ota_datamanager
  /\ pc \in {"idle", "delete"}
  /\ \/ ~Readable /\ Restart
     \/ /\ Readable
        /\ s_ota_datamanager' = TRUE
        /\ m_downResume_' = getAllResumeTasks
        /\ UNCHANGED <<resume_note, pc, call, answer, written>>

-----------------------------------------------------------------------------
(* saveDownTaskInfo: the file is opened and so emptied, then written.        *)

\* Without a fileName the file would have the address in its name, a path that
\* cannot be opened: nothing is written.
Opens(t, fileName) == fileName /\ t \in Named
saveDownTaskInfo(t, e, fileName) ==
  /\ s_ota_datamanager /\ pc = "idle"
  /\ call' = Call("save", t, e)
  /\ resume_note' = IF Opens(t, fileName) THEN With(resume_note, t, <<>>) ELSE resume_note
  /\ pc' = IF Opens(t, fileName) THEN "write" ELSE "insert"
  /\ UNCHANGED <<s_ota_datamanager, m_downResume_, answer, written>>

\* Mutant: the record of the map is written.
savedOfMap(t) == IF t \in DOMAIN m_downResume_ THEN m_downResume_[t] ELSE call.lastEndPos
saved(t) == call.lastEndPos
\* Mutant: the file is opened to append.
saveTwice(t) == <<saved(t), saved(t)>>
saveStructToFile(t) == <<saved(t)>>
SaveWrite ==
  /\ pc = "write"
  /\ resume_note' = [resume_note EXCEPT ![call.task] = saveStructToFile(call.task)]
  /\ written' = [written EXCEPT ![call.task] = call.lastEndPos]
  /\ pc' = "insert"
  /\ UNCHANGED <<s_ota_datamanager, m_downResume_, call, answer>>

\* insert() leaves a record that the map has.
SaveInsert ==
  /\ pc = "insert"
  /\ m_downResume_' = IF call.task \in DOMAIN m_downResume_ THEN m_downResume_
                      ELSE With(m_downResume_, call.task, call.lastEndPos)
  /\ pc' = "idle" /\ call' = NoCall
  /\ UNCHANGED <<resume_note, s_ota_datamanager, answer, written>>

-----------------------------------------------------------------------------
(* reqToGetChunkDataBySeries and delDownTaskInfo. *)

\* The file that cannot be opened is answered at once; the record stays.
reqToGetChunkDataBySeries(t) ==
  /\ pc = "idle"
  /\ \/ answer' = "false" /\ UNCHANGED <<pc, call>>
     \/ answer' = "none" /\ pc' = "response" /\ call' = Call("download", t, 0)
  /\ UNCHANGED <<resume_note, s_ota_datamanager, m_downResume_, written>>

\* The response to the first task: a failure, or no Content-Range; a total that
\* is not a number, which leaves the status SUCCESS; or a total, and then the
\* chunk is assigned to back() of a vector that has no element: the process ends,
\* with the file and the record as they were.
wget_chunk_callback ==
  /\ pc = "response"
  /\ \/ \E success \in BOOLEAN :
          /\ pc' = "delete" /\ call' = [call EXCEPT !.success = success]
          /\ UNCHANGED <<resume_note, s_ota_datamanager, m_downResume_, answer, written>>
     \/ Restart

Answer ==
  /\ answer' = CASE call.op = "delete" -> answer
                 [] call.success       -> "true"
                 [] OTHER              -> "false"
  /\ pc' = "idle" /\ call' = NoCall
\* Mutants: the record file stays; every file of the directory is removed.
removeNothing(t) == resume_note
removeAll(t) == <<>>
remove(t) == Without(resume_note, t)
\* Whatever a download came to, its record is deleted.
delDownTaskInfo(t) ==
  /\ s_ota_datamanager
  /\ \/ pc = "idle" /\ call' = Call("delete", t, 0)
     \/ pc = "delete" /\ call.task = t /\ UNCHANGED call
  /\ pc' = "erase"
  /\ resume_note' = IF t \in DOMAIN m_downResume_ THEN remove(t) ELSE resume_note
  /\ UNCHANGED <<s_ota_datamanager, m_downResume_, answer, written>>
DelErase ==
  /\ pc = "erase"
  /\ m_downResume_' = Without(m_downResume_, call.task)
  /\ Answer
  /\ UNCHANGED <<resume_note, s_ota_datamanager, written>>

-----------------------------------------------------------------------------
Next ==
  \/ Kill \/ getInstance
  \/ \E t \in Tasks, e \in Ends, fileName \in BOOLEAN : saveDownTaskInfo(t, e, fileName)
  \/ SaveWrite \/ SaveInsert
  \/ \E t \in Tasks : reqToGetChunkDataBySeries(t) \/ delDownTaskInfo(t)
  \/ wget_chunk_callback \/ DelErase

Spec == Init /\ [][Next]_vars

-----------------------------------------------------------------------------
(* Properties. *)

\* Between two calls, a restart would find no download that the process does not
\* know: none that was deleted, or that is over, comes back.
NoneComesBack ==
  s_ota_datamanager /\ pc = "idle" => DOMAIN resume_note \subseteq DOMAIN m_downResume_

\* After a restart a download goes on from the record that was last written,
\* however often records were written, deleted and written again, and whenever
\* the process was killed.
ResumesFromLast ==
  [][~s_ota_datamanager /\ s_ota_datamanager' =>
       \A t \in DOMAIN m_downResume_' : m_downResume_'[t] = written[t]]_vars

-----------------------------------------------------------------------------
(* What ChunkManager promises. *)

Finished == {t \in DOMAIN resume_note : resume_note[t] # <<>>}
BeingSaved == IF pc \in {"write", "insert"} THEN {call.task} ELSE {}
BeingDeleted == IF pc = "erase" THEN {call.task} ELSE {}
Store == INSTANCE ResumeStore WITH
  Positions <- Ends,
  records <- [t \in Finished |-> loadStructFromFile(t)],
  unfinished <- DOMAIN resume_note \ Finished,
  known <- (DOMAIN m_downResume_ \cup BeingSaved) \ BeingDeleted,
  up <- s_ota_datamanager

\* Whatever the calls do and whenever the process is killed, the files and the map
\* are the store that ResumeStore describes: a record is changed by a save or a
\* delete of its own download alone, at most one is ever unfinished, and only
\* after a kill, and between the calls the map knows every download with a record.
ImplementsResumeStore == Store!Spec
=============================================================================
