SPECIFICATION Spec
CONSTANTS
  Keys = {"k1", "k2"}
  ProviderOf <- MCProviderOf
  MaxEvents = 4
INVARIANTS
  NothingForgotten
  LoadedThroughHonest
PROPERTY
  QueueDrains
CHECK_DEADLOCK FALSE
