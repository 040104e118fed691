SPECIFICATION SSpec
CONSTANTS
  Workers = {w1, w2, w3}
  Items = {i1, i2, i3, i4, i5}
  PopMax = 2
  PushMax = 2
  Faults = TRUE
  SlabSize = 2
  NoItem = NoItem
SYMMETRY Interchangeable
INVARIANTS
  QTypeOK
  TasksBalanced
  HandedOutOnce
  QuiescentShutdown
  NoLostWakeup
  NoStall
  NothingLeftToDestroy
  ListIsQueue
  NodesAccounted
