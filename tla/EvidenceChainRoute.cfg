CONSTANTS
  Id = "chain"
  Data = {"created", "paid"}
  MaxLength = 2
  MaxDamage = 0
SPECIFICATION ChainSpec
INVARIANTS
  ValidChainRecordsPass
CHECK_DEADLOCK FALSE
