----------------------------- MODULE ResumeStore -----------------------------
(***************************************************************************)
(* What the records of downloads promise, without files and calls: a store *)
(* that outlives the process, whose records are saved and deleted as a     *)
(* whole, of downloads that the running process knows.  The one thing that *)
(* takes two steps is to save: a process that stops between them leaves a  *)
(* record unfinished, and none starts again as long as there is one.       *)
(***************************************************************************)
CONSTANTS Tasks, Positions

VARIABLES
  records,     \* download -> its record
  unfinished,  \* downloads whose record was begun and not finished
  known,       \* downloads that the process knows
  up           \* is the process running with its records?

storeVars == <<records, unfinished, known, up>>

Dropped(t) == [u \in DOMAIN records \ {t} |-> records[u]]

Init ==
  /\ records = [t \in {} |-> 0]
  /\ unfinished = {} /\ known = {} /\ up = FALSE

\* The process knows exactly the downloads that have a record.
Start ==
  /\ ~up /\ unfinished = {}
  /\ up' = TRUE /\ known' = DOMAIN records
  /\ UNCHANGED <<records, unfinished>>

\* Nothing that is stored changes when the process stops.
Stop ==
  /\ up' = FALSE /\ known' = {}
  /\ UNCHANGED <<records, unfinished>>

\* A record is saved: until that is finished the one before it is gone.
Begin(t) ==
  /\ up /\ unfinished = {}
  /\ records' = Dropped(t) /\ unfinished' = {t} /\ known' = known \cup {t}
  /\ UNCHANGED up

Finish(t, e) ==
  /\ up /\ unfinished = {t}
  /\ records' = [u \in DOMAIN records \cup {t} |-> IF u = t THEN e ELSE records[u]]
  /\ unfinished' = {}
  /\ UNCHANGED <<known, up>>

\* A download is known for as long as the process runs.
Note(t) ==
  /\ up /\ unfinished = {}
  /\ known' = known \cup {t}
  /\ UNCHANGED <<records, unfinished, up>>

\* The record and what is known go together.
Delete(t) ==
  /\ up /\ unfinished = {}
  /\ records' = Dropped(t) /\ known' = known \ {t}
  /\ UNCHANGED <<unfinished, up>>

Next ==
  \/ Start \/ Stop
  \/ \E t \in Tasks : Begin(t) \/ Note(t) \/ Delete(t) \/ \E e \in Positions : Finish(t, e)

Spec == Init /\ [][Next]_storeVars
=============================================================================
