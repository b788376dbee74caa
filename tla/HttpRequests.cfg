\* One caller, calls of every function with up to three tasks; the settings
\* change at any time, as by another thread.
SPECIFICATION FairSpec
CONSTANTS
  Threads = {u1}
  MaxTasks = 3
  TaskKinds <- MixedKinds
  Ops = {"one", "dependent", "independent", "parallel"}
INVARIANTS TypeOK AnswersComplete WokenWhenFinished NotedBeforeAnswer WaitsForACallback
PROPERTIES EveryCallEnds CallbacksAdvance ImplementsRequestService
CHECK_DEADLOCK FALSE
