CONSTANTS
  Own = Own
  Others = {a}
  QueueMax = 1
  MaxFull = 2
  MaxEvents = 2
  PipeMax = 1
SPECIFICATION FairSpec
INVARIANT TypeOK
PROPERTIES ListCatchesUp CreationEndsAlways
