SPECIFICATION FairSpec
CONSTANTS
  MaxDepth = 2
  DelayTicks = 1
INVARIANTS
  TypeOK
  NoStaleIdeIntr
  IdeIntrOnce
  CliExcludesHandlers
  SleepsOnlyIfLost
PROPERTY
  ReadEndsUnlessLost
  DelayEnds
