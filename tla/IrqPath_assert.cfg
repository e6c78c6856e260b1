SPECIFICATION Spec
CONSTANTS
  MaxDepth = 2
  DelayTicks = 1
INVARIANT QueriedIsAnInterrupt
