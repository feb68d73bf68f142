SPECIFICATION Spec
CONSTANT MaxEnabled = 1
INVARIANTS
  UpMeansAvailable
