\* A request deleted before it is given back.
SPECIFICATION Spec
CONSTANTS
  t1 = t1
  t2 = t2
  t3 = t3
  Threads <- OneThread
  HealthPolls = 10
  ReadyPolls = 5
  GpuBuild = FALSE
INVARIANT RequestGivenBack
\* The process stops when it has exited.
CHECK_DEADLOCK FALSE
