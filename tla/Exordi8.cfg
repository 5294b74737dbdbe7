\* Two or three players, and a pack that is soon used up.
CONSTANTS
  User = {u1, u2, u3}
  Face <- SmallPack
  HandSize = 2
  PlayersPerPack = 6
  maxPlayers = 3
SPECIFICATION Exordi8Spec
INVARIANT Exordi8TypeOK CardsConserved SequentIsRun
PROPERTY BreakingIsPunished ImplementsSheddingGame
CHECK_DEADLOCK FALSE
