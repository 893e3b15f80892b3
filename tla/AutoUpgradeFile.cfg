SPECIFICATION Spec
CONSTANTS
  c1 = c1
  o1 = o1
  Checks = {c1}
  Owners = {o1}
  IOErrors = TRUE
  Missing = Missing
  Empty = Empty
  Torn = Torn
SYMMETRY Symmetry
INVARIANT TypeOK
INVARIANT OwnerChoiceStands
PROPERTY StartsAsChosen
