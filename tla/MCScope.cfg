SPECIFICATION Spec
CONSTANTS
  x = x
  g = g
  Names = {x, g}
  NoName = none
  Null = null
  Data = {null}
  Functions <- MCFunctions
  MaxScopes = 2
  MaxDepth = 2
  GlobalFinals = FALSE
INVARIANT TypeOK
PROPERTY FinalIsForever
PROPERTY NamesKeepTheirMeaning
PROPERTY GlobalsAreProtected
