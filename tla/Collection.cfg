SPECIFICATION Spec
CONSTANT MaxEnabled = 2
INVARIANTS
  TypeOK
  UpTellsOfData
  SeriesAreComplete
