SPECIFICATION Spec
CONSTANTS
  NPlayers = 2
  NSlots = 2
  MaxHP = 1
  DyingHP = 1
  EnemyHP = 1
  Full = 2
  MaxMeter = 4
  PlayerSpeed = 2
  EnemySpeed = 3
  CastTime = 1
  AttackAll = {1}
  DualEnemies = {}
  Boss = FALSE
  Ailments = {"Confused"}
  Prone = {0}
  Stock = 1
  HideTime = 2
INVARIANTS
  TypeOK
  OneCommand
  CoopAlone
  QueueDue
  EnemyHasTarget
  TargetStands
  ItemsConserved
PROPERTY MeterKept
