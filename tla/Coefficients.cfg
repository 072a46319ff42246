SPECIFICATION Spec
CONSTANTS
  Order = 16
  Poly = 19
  CauchyPoints = 7
  CauchyStep = 3
  MaxFirst = 14
  Generations = 3
  Far = 65530
  Long = 251
  Lane = 2
  IdSpace = 1048576
  Rejected = Rejected
INVARIANTS CauchyPairSolvable VandermondePairSolvable ProductIsPolynomial InverseNormalizes VectorSurvives FormatsAgree KernelsMatchField SackSurvives
CHECK_DEADLOCK FALSE
