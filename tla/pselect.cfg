SPECIFICATION Spec
CONSTANTS
  Signals <- SomeSignals
  Timeouts = {"immediately", "a little", "forever"}
  MaxSignals = 4
CHECK_DEADLOCK FALSE
INVARIANTS SignalCutsWaitShort HandlersAreNoticed
PROPERTY ImplementsAtomicWait
