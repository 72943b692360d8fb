CONSTANTS
  p1 = p1
  p2 = p2
  c1 = c1
  NoThread = NoThread
  Producers <- TwoProducers
  Consumers <- OneConsumer
  PushEnds <- Back
  PopEnds <- Front
  MaxPush = 4
SPECIFICATION FairQueueSpec
INVARIANTS Fifo PopFindsItem
PROPERTIES PushReturns SleeperServed
