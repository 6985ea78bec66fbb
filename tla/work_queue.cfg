\* A main thread and three handlers.
SPECIFICATION FairSpec
CONSTANTS
  Producers = {main}
  Consumers = {h1, h2, h3}
  Items = {i1, i2, i3}
  None = none
INVARIANTS TypeOK NoLostWakeup NeverPopsEmpty
PROPERTIES ImplementsFifo EveryItemTaken
