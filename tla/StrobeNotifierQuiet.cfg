SPECIFICATION FairSpec
CONSTANTS
  Drones = {d1, d2}
  Cooldown = 2
PROPERTY QuietDroneCleared
