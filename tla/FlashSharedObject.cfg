\* A reliable line and device; a second caller may use the object without
\* awaiting the owner's operation, and an older FlashProtocol of the same
\* window may be destroyed.
SPECIFICATION Spec
CONSTANTS
  MaxCmds = 2
  BlockAddr <- MCBlockAddr
  BlockLen <- MCBlockLen
  MaxChunkSize <- MCTwoChunkSize
  DataBytes <- MCDataBytesNoZero
  Lossy = FALSE
  LateReplies = FALSE
  SplitChunks = FALSE
  WriteRejects = FALSE
  CanDestroy = FALSE
  Overlapping = TRUE
  SharedWindow = TRUE
PROPERTY MethodsReturn
