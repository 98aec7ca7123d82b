CONSTANTS
  Degree = 2
  Key <- MCKeys5
  Val = {v}
  MaxPage = 6
SPECIFICATION Spec
PROPERTIES Durable
