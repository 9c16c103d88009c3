SPECIFICATION Spec
CONSTANTS
  null = null
  none = none
  object = object
  raised = raised
  MaxFrames = 5
  MaxTemps = 1
  NullValue = null
  NoValue = none
  Values = {null, raised}
  Thrown = {null, raised}
  Created = {raised}
  Raised = raised
  Printable = {raised}
  TriesWhilePending = TRUE
  BadArguments = FALSE
INVARIANT TypeOK
INVARIANT RecoveryIsInnermost
INVARIANT OwnEnvironment
INVARIANT StackIsExact
INVARIANT RootsReleased
