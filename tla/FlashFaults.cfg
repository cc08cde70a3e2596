SPECIFICATION Spec
CONSTANTS
  MaxCmds = 3
  BlockAddr <- MCBlockAddr
  BlockLen <- MCBlockLen
  MaxChunkSize <- MCMaxChunkSize
  DataBytes <- MCDataBytesNoZero
  Lossy = TRUE
  LateReplies = TRUE
  SplitChunks = FALSE
  WriteRejects = TRUE
  CanDestroy = FALSE
  Overlapping = FALSE
  SharedWindow = FALSE
INVARIANT WritesTile
PROPERTY MethodsReturn
