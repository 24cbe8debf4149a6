CONSTANTS
  Domains = {d1, d2}
  Reporters = {r1}
  ReadsMayFail = TRUE
  Disciplines = {{"open"}, {"open", "activate", "subscribe"}}
SPECIFICATION FairSpec
INVARIANTS LockOwners NeverTerminates ExceptionsBeforeRecovery MessageIsCurrentOnceSet  AllDomainsActive
PROPERTIES OpenReturns ErrorSwitchesOff
