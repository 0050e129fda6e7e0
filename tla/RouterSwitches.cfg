\* A provider is turned off, then another setting is changed.
SPECIFICATION RouterSpec
CONSTANTS
  Catalog <- DefaultCatalog
  Profile = "general"
  Key = {k1}
  Admin = {a1}
  Patch <- MCPreferred
  Switch = {"open_ai", "gemini"}
  MaxCalls = 2
  MaxRowErrors = 0
PROPERTY UpdateKeepsSwitches
CHECK_DEADLOCK FALSE
