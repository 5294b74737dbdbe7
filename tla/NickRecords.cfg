\* Two users, two nicknames, two registrations, three notes.
CONSTANTS
  Client = {c1, c2}
  Name <- TwoNames
  Info <- OneInfo
  Staff <- FirstIsStaff
  MaxNickID = 2
  MaxNotes = 3
SPECIFICATION RecordsSpec
INVARIANT RecordsTypeOK SettingsAreOwn
PROPERTY NumbersAreKept
SYMMETRY Clients
