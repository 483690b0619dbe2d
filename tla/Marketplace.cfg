SPECIFICATION Spec
CONSTANTS
  Requests = {r1, r2}
  Tenants = {t1}
  Codes = {"crm", "erp"}
  Strings = {"v1", "v2"}
  MaxRows = 7
  Budget <- RequestBudget
INVARIANTS
  TypeOK
  KeysUnique
  NoRowWithoutTask
  PublishedHasVersion
PROPERTIES
  DefaultPlanKept
  ActivationKept
  RequestsEnd
CHECK_DEADLOCK FALSE
