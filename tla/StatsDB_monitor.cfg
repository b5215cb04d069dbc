SPECIFICATION DBSpec
CONSTANTS
  c1 = c1
  c2 = c2
  NoThread = none
  Producers <- MCProducers
  Tasks <- MCTasks
  Script <- MCScript
  TablesOf <- MCTablesOf
  Monitor = TRUE
  MaxFails = 1
INVARIANT UpdatesCounted
CHECK_DEADLOCK FALSE
