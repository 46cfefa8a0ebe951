CONSTANTS
  Task = {k, w1, w2, w3}
  Kernel = k
  NoStack = NoStack
SPECIFICATION MCSpec
INVARIANTS UTypeOK TrapStackFree ExitReturnsHome OneProgram Resumable RingIntact
PROPERTIES ImplementsTasks NoOvertaking EveryTaskRuns ProgramResumes
CHECK_DEADLOCK FALSE
