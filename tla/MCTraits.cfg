SPECIFICATION Spec
CONSTANTS
  Declared <- MCDeclared
  Asked <- MCAsked
  Types <- MCTypes
INVARIANTS
  DictionariesAreTheBest
  AnswersAreExact
PROPERTY CyclesEnd
CHECK_DEADLOCK FALSE
