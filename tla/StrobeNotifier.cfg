SPECIFICATION FairSpec
CONSTANTS
  Drones = {d1, d2}
  Cooldown = 2
INVARIANTS
  TypeOK
  FlashExplained
PROPERTIES
  NoRepeatWithinCooldown
  ActiveThreatFlashesAgain
