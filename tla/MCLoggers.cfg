\* Two goroutines, one derived logger, one change of the strategies or the rules.
CONSTANTS
  t1 = t1
  t2 = t2
  Threads = {t1, t2}
  Keys = {"user_id", "note"}
  Ids = {"user_id"}
  Personal = {"user_id"}
  Secrets = {"note"}
  Users <- MCUsers
  Rules <- MCRules
  RootFields <- MCRootFields
  Texts = {"national", "number"}
  Levels = {0, 1, 2}
  Ranges <- MCRanges
  MaxLoggers = 2
  MaxChanges = 1
  AuditCap = 1
SPECIFICATION Spec
SYMMETRY Symmetry
INVARIANTS
  LineIsolated
  
  SecuredLineFiltered
  PersonalDataAudited
