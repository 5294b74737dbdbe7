\* Nicknames whose two foldings agree, and a database that compares without case.
CONSTANTS
  Client = {c1, c2, c3}
  Name <- Spelling
  Offline = Offline
  ToLower <- PlainFold
  IRCtoLower <- PlainFold
  MaxOnlineID = 5
SPECIFICATION OnlineSpec
INVARIANT OnlineTypeOK RegistryIsNetwork TableIsRegistry UniqueOnlineID
PROPERTY OnlineIDIsStable
