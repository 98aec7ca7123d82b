CONSTANTS
  Degree = 2
  Key <- MCKey
  Val <- MCVal
  MaxPage = 6
SPECIFICATION DBSpec
INVARIANTS ReadersSee
PROPERTIES OldestSurvive
