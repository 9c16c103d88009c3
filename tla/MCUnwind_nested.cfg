SPECIFICATION Spec
CONSTANTS
  null = null
  none = none
  object = object
  raised = raised
  MaxFrames = 5
  MaxTemps = 1
  NullValue = null
  NoValue = none
  Values = {null, object, raised}
  Thrown = {object}
  Created = {raised}
  Raised = raised
  Printable = {object, raised}
  TriesWhilePending = TRUE
  BadArguments = FALSE
PROPERTY PendingIsRethrown
