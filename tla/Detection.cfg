\* Three threads, a build with GPU support, under fairness.
SPECIFICATION FairSpec
CONSTANTS
  t1 = t1
  t2 = t2
  t3 = t3
  Threads <- ThreeThreads
  HealthPolls = 10
  ReadyPolls = 5
  GpuBuild = TRUE
INVARIANTS TypeOK AllocatorOutlivesUse InputOutlivesUse OutputIsExclusive NothingLeaks
  WaitsHaveAnEnd
PROPERTY Terminates
\* The process stops when it has exited.
CHECK_DEADLOCK FALSE
