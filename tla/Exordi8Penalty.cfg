\* A sequent is broken when the stock has one card or none.
CONSTANTS
  User = {u1, u2}
  Face <- SmallPack
  HandSize = 2
  PlayersPerPack = 6
  maxPlayers = 2
SPECIFICATION Exordi8Spec
PROPERTY PenaltyIsFromStock
CHECK_DEADLOCK FALSE
