SPECIFICATION DBFairSpec
CONSTANTS
  c1 = c1
  c2 = c2
  NoThread = none
  Producers <- MCProducers
  Tasks <- MCTasks
  Script <- MCScript
  TablesOf <- MCTablesOf
  Monitor = FALSE
  MaxFails = 1
INVARIANTS DBTypeOK InOrderOnce DrainedBeforeExit UpdatesCounted SavedUnlessBornEarly
PROPERTY SignalDrains
CHECK_DEADLOCK FALSE
