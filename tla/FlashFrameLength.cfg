SPECIFICATION Spec
CONSTANTS
  MaxCmds = 3
  BlockAddr <- MCBlockAddr
  BlockLen <- MCLongBlockLen
  MaxChunkSize <- MCDefaultChunkSize
  DataBytes <- MCDataBytes
  Lossy = FALSE
  LateReplies = FALSE
  SplitChunks = FALSE
  WriteRejects = FALSE
  CanDestroy = FALSE
  Overlapping = FALSE
  SharedWindow = FALSE
INVARIANT FrameLengthValid
