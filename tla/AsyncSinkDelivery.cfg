\* Two tasks share a sink of two slots; the sink may refuse, fail or panic at
\* any call, tasks may cancel, the owner shuts down or drops.  What Reject does
\* is among what DropNewest does.
CONSTANTS
  t1 = t1
  t2 = t2
  owner = owner
  Task = {t1, t2}
  Owner = owner
  Capacity = 2
  Policies = {"Block", "DropNewest"}
  MaxEmits = 3
SPECIFICATION FairSpec
INVARIANTS
  TypeOK
  NoGap
  LossIsReported
  OkCovers
PROPERTIES
  CallsReturn
  AbandonedEnds
CHECK_DEADLOCK FALSE
