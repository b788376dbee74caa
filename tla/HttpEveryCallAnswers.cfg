\* One caller, and the two functions whose comments promise the failed tasks; all
\* that can end the process here is wget_info_callback.
SPECIFICATION FairSpec
CONSTANTS
  Threads = {u1}
  MaxTasks = 2
  TaskKinds <- FeatureOffKinds
  Ops = {"independent", "parallel"}
PROPERTIES EveryCallAnswers
CHECK_DEADLOCK FALSE
