SPECIFICATION MigrateSpec
CONSTANTS
  Last = 4
  Processes = {x1, x2, x3}
  MaxCrashes = 2
INVARIANTS
  SchemaIsPrefix
  WedgedOnlyByCrash
PROPERTY
  MigrationSettles
