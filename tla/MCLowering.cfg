SPECIFICATION Spec
CONSTANTS
  None = None
  Contracts <- MCContracts
  ContractData <- MCContractData
  FourBytes <- MCFourBytes
  ContractCalls <- MCContractCalls
  Matches <- MCMatches
  MatchTypes <- MCMatchTypes
  Modules <- MCModules
  Specialized <- MCSpecialized
  EmittedTypes <- MCEmittedTypes
  Storages <- MCStorages
INVARIANTS
  CallsReachTheirMethods
  MatchesMeanTheirRows
  EvaluationKeepsMeaning
  ExecutablesAgree
CHECK_DEADLOCK FALSE
