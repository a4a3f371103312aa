SPECIFICATION LookupSpec
CONSTANTS
  Chars = {"/", "a"}
  Uris <- ShortUris
  Configurations <- SmallConfigurations
INVARIANTS
  LongestFound
  EndlessCauses
CHECK_DEADLOCK FALSE
