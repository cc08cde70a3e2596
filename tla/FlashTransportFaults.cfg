SPECIFICATION Spec
CONSTANTS
  MaxCmds = 4
  BlockAddr <- MCBlockAddr
  BlockLen <- MCBlockLen
  MaxChunkSize <- MCMaxChunkSize
  DataBytes <- MCDataBytes
  Lossy = FALSE
  LateReplies = TRUE
  SplitChunks = TRUE
  WriteRejects = TRUE
  CanDestroy = FALSE
  Overlapping = TRUE
  SharedWindow = TRUE
INVARIANT OutcomeFaithful
