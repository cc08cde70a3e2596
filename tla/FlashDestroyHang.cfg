SPECIFICATION Spec
CONSTANTS
  MaxCmds = 3
  BlockAddr <- MCBlockAddr
  BlockLen <- MCBlockLen
  MaxChunkSize <- MCMaxChunkSize
  DataBytes <- MCDataBytes
  Lossy = FALSE
  LateReplies = FALSE
  SplitChunks = FALSE
  WriteRejects = FALSE
  CanDestroy = TRUE
  Overlapping = FALSE
  SharedWindow = FALSE
PROPERTY MethodsReturn
