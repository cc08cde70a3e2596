SPECIFICATION MCSpec
CONSTANTS
    Files <- MCWellFormedFiles
    BaseAddr <- MCBaseAddr
    Buffers <- MCBuffers
    HeadBytes <- MCHeadBytes
    Separators <- MCSeparators
    StatusCodes <- MCStatusCodes
INVARIANT MCTypeOK
INVARIANT HexRoundTrip
INVARIANT HexSegmentsMaximal
INVARIANT SegmentSizeMatches
INVARIANT Crc16MatchesDivision
INVARIANT ModbusFramesValid
INVARIANT EscapeTransparent
INVARIANT HexStringRoundTrip
