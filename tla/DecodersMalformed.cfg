\* HEX files with partly overlapping data records or a high extended linear
\* address, ELF files with a PT_LOAD entry past the end of the buffer, and
\* OPC UA status codes outside parseOpcuaStatusCode's table.
SPECIFICATION MCSpec
CONSTANTS
    Files <- MCMalformedFiles
    BaseAddr <- MCBaseAddr
    Buffers <- MCBuffers
    HeadBytes <- MCHeadBytes
    Separators <- MCSeparators
    StatusCodes <- MCStatusCodes
INVARIANT DecodersValid
