SPECIFICATION Spec
CONSTANTS
  Payloads <- MCPayloads
  Offsets <- MCOffsets
  AccountData <- MCAccountData
INVARIANT VerifyMeasuresBytes
INVARIANT VerdictStands
INVARIANT SelectsSameAccounts
