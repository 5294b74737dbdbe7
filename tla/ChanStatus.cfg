\* Ranks of two clients, with the levels that tell the commands apart.
CONSTANTS
  Client = {c1, c2}
  Name <- Nicks
  Offline = Offline
  ToLower <- SameFold
  IRCtoLower <- SameFold
  MaxOnlineID = 2
  Level = {0, 60, 401}
  Staff = {"ann"}
  MaxChan = 2
  MaxIdas = 2
SPECIFICATION StatusSpec
INVARIANT ChanStatusTypeOK RanksAreOfThisRun
PROPERTY ImplementsRanks
SYMMETRY Clients
CONSTRAINT LevelsApart FewIdentify LeftBehindAreOps OneModeEach
