\* Two channels and three registrations.
CONSTANTS
  Channel = {a, b}
  Owner = {ann}
  Topic = {t}
  Level = {0, 150, 151, 401}
  DefaultOn <- Switches
  CaseSensitive = TRUE
  MaxChanID = 3
SPECIFICATION RecordsSpec
INVARIANT RecordsTypeOK OptionsOfRegistrations
PROPERTY StartsFromDefaults FreezeKeepsRecords
CONSTRAINT FewChanges
CHECK_DEADLOCK FALSE
