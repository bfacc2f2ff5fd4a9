SPECIFICATION FairSpec
CONSTANTS
  N = 4
  Partitions <- MCPartitions
  Codes <- MCCodes
  MboxCapacity = 1
INVARIANTS
  TypeOK
  TokenBalance
  NoDeadlock
  PutNeverBlocks
  DrainedAtReturn
PROPERTIES
  RespectsDependencies
  CallsReturn
