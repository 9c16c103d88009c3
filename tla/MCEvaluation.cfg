SPECIFICATION EvaluationSpec
CONSTANTS
  Width = 3
  Objects = {1, 2}
  MaxLength = 2
  MaxNodes = 2
  MaxSubject = 3
  MaxTokens = 2
  MatchLimit = 6
  MaxColumn = 2
  Streams = {0, 1, 2}
  Standard = {0}
  Patterns = {5, 6}
  Slots = {0, 1, 2, 3}
  MaxItems = 2
  StringAllocSize = 2
  SourceEncoding = "SHIFT_JIS"
  FunctionNames = {"f"}
  LineNumbers = {1, 2}
  MaxCalls = 2
INVARIANT EvaluationTypeOK
INVARIANT FoldingIsEvaluation
INVARIANT ResultIsReference
INVARIANT BuffersReleased
INVARIANT TokensAreWritten
INVARIANT PointersAreValid
PROPERTY CompoundIsBinary
PROPERTY TraceIsCallStack
