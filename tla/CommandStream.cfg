CONSTANTS
  o1 = o1
  Observers = {o1}
  Final = {"COMPLETED"}
  MaxMessages = 2
  MaxFaults = 1
SPECIFICATION FairSpec
INVARIANTS OutputOrder AllOrError ClosedOnce ObserversMissNothing
PROPERTIES ChannelCloses RefusedCommandSettles ToldFailureSettles
CHECK_DEADLOCK FALSE
