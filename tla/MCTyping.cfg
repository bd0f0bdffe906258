SPECIFICATION Spec
CONSTANTS
  None = None
  EquationTerms <- MCEquationTerms
  EquationSchemes <- MCEquationSchemes
  EquationTypes <- MCEquationTypes
  ObligedBodies <- MCObligedBodies
  ObligedInstances <- MCObligedInstances
  ObligedClosures <- MCObligedClosures
  InferredBodies <- MCInferredBodies
  InferredSchemes <- MCInferredSchemes
  InferredInstances <- MCInferredInstances
  ComptimePrograms <- MCComptimePrograms
  InstancePrograms <- MCInstancePrograms
  InstanceClasses <- MCInstanceClasses
  InstanceTypes <- MCInstanceTypes
  DataPrograms <- MCDataPrograms
INVARIANTS
  TableIsSolved
  ObligationsAreAnswered
  InferenceIsExact
  ComptimeIsExact
  InstancesAreSound
  DataTypesAreExact
CHECK_DEADLOCK FALSE
