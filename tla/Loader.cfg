\* Four files, each opened up to three times.
CONSTANTS
  File = {chan, game, lib, typo}
  Missing = {typo}
  Foreign = {lib}
  Translated = {chan}
  MaxOpens = 3
SPECIFICATION LoaderSpec
INVARIANT LoaderTypeOK CodeStaysOpen ListIsStarted StartedOnce
CHECK_DEADLOCK FALSE
