SPECIFICATION FairSpec
CONSTANTS
  MaxDepth = 2
  DelayTicks = 1
PROPERTY QuitTerminates
