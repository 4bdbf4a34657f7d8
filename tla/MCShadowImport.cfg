CONSTANTS
  Owners = {u1, u2}
  MaxAttempts = 2
  MaxClaims = 3
  MaxTries = 2
  MaxLeagues = 2
  Accounts = 2
  MaxSignIns = 1
  MaxTrouble = 1
SPECIFICATION ShadowSpec
SYMMETRY Symmetry
INVARIANT
  SettledLeagueExists
PROPERTIES
  LiveIsFinal
  VerdictOfOwnAttempt
  JobSettlesItsClaim
CHECK_DEADLOCK FALSE
