SPECIFICATION Spec
CONSTANTS
  Labels = {outer}
  NoLabel = NoLabel
  Values = {one, two}
  NullValue = NullValue
  MaxDepth = 4
  MaxElsifs = 2
INVARIANT TypeOK
INVARIANT ResultIsTheJump
PROPERTY JumpLandsOnTarget
PROPERTY BlocksRunWhenTheyMust
