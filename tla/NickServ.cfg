\* Two accounts, deletion and registration anew, two demands, three online IDs.
CONSTANTS
  Client = {c1, c2}
  Name = {ann, bob}
  Offline = Offline
  ToLower <- SameFold
  IRCtoLower <- SameFold
  MaxOnlineID = 3
  Password = {p}
  Email = {m}
  MaxRegID = 2
  MaxKills = 2
SPECIFICATION NickSpec
INVARIANT NickTypeOK OneAccountPerNick PendingNotIdentified
PROPERTY ImplementsAccounts DemandsAreKept
SYMMETRY Symmetry
