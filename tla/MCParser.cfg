SPECIFICATION Spec
CONSTANTS
  MaxSyntaxNesting = 4
  MaxExpressionNesting = 3
INVARIANTS
  TreesAreWellFormed
  ReportsAreExact
