CONSTANTS
  Domains = {d1}
  Reporters = {r1}
  ReadsMayFail = FALSE
  Disciplines = {{"activate", "subscribe"}}
SPECIFICATION Spec
INVARIANT NeverTerminates
