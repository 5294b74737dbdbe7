\* The player to move can do nothing once the stock is empty.
CONSTANTS
  User = {u1, u2}
  Face <- SmallPack
  HandSize = 2
  PlayersPerPack = 6
  maxPlayers = 2
SPECIFICATION Exordi8Spec
INVARIANT NobodyIsStuck
CHECK_DEADLOCK FALSE
