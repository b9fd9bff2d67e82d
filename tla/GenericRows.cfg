CONSTANTS
  Mounts = {"all_crud", "readonly", "entity_routes"}
  Varied <- MCVaried
  None = None
  Unborn = Unborn
  Purged = Purged
SPECIFICATION Spec
INVARIANTS
  GuardSparesChecks
  WritesAsAsked
  LegacyRowsEditable
PROPERTIES
  TokenStandsUntilUpsert
