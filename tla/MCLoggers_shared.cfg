\* A guest's secured line takes a field away from the shared logger.
CONSTANTS
  t1 = t1
  t2 = t2
  Threads = {t1}
  Keys = {"user_id", "note"}
  Ids = {"user_id"}
  Personal = {"user_id"}
  Secrets = {"note"}
  Users <- MCUsers
  Rules <- MCRules
  RootFields <- MCRootFields
  Texts = {"plain"}
  Levels = {1}
  Ranges = {}
  MaxLoggers = 1
  MaxChanges = 0
  AuditCap = 1
SPECIFICATION Spec
INVARIANT FieldsNotCleared
