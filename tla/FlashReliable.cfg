SPECIFICATION Spec
CONSTANTS
  MaxCmds = 4
  BlockAddr <- MCBlockAddr
  BlockLen <- MCBlockLen
  MaxChunkSize <- MCMaxChunkSize
  DataBytes <- MCDataBytes
  Lossy = TRUE
  LateReplies = FALSE
  SplitChunks = FALSE
  WriteRejects = FALSE
  CanDestroy = TRUE
  Overlapping = FALSE
  SharedWindow = FALSE
INVARIANT TypeOK
INVARIANT OutcomeFaithful
PROPERTY SessionSpec
