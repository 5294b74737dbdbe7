\* Two accounts and a channel that is registered up to twice.
CONSTANTS
  Client = {c1, c2}
  Name = {ann, bob}
  Offline = Offline
  ToLower <- SameFold
  IRCtoLower <- SameFold
  MaxOnlineID = 2
  Password = {p}
  Email = {}
  MaxRegID = 2
  MaxKills = 1
  ChanName <- Channels
  ChanToLower <- SameChanFold
  ChanIRCtoLower <- SameChanFold
  Level = {0, 100, 500}
  MaxChanID = 2
  MaxFreezes = 1
SPECIFICATION ChanSpec
INVARIANT ChanTypeOK RightsAreGrounded OwnerIsFounder
PROPERTY ImplementsRights
CONSTRAINT EverybodyIsAsked OneOfStaff
SYMMETRY Anybody
