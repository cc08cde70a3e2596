-------------------------- MODULE MCFirmwareParser --------------------------
(***************************************************************************)
(* Inputs for FirmwareParser. A file is a record with the fields every     *)
(* format reads: ext (the filename's extension), len (the buffer length),  *)
(* magic and class64 (the ELF identification checks), headers (the ELF     *)
(* program headers) and records (the HEX lines starting with ':').         *)
(* The shared byte helpers (Codecs) are checked beside the parser: focus,  *)
(* chosen at the start, says whether a behaviour parses a file or hands    *)
(* the helpers buffers; the other component keeps its initial state.       *)
(***************************************************************************)
EXTENDS FirmwareParser, Codecs

VARIABLE focus

MCInit ==
    /\ focus \in {"parser", "codecs"}
    /\ Init
    /\ focus = "codecs" => file = CHOOSE f \in Files : TRUE
    /\ CInit

MCNext ==
    \/ focus = "parser" /\ Next /\ UNCHANGED <<buf, focus>>
    \/ focus = "codecs" /\ CNext /\ UNCHANGED <<vars, focus>>

MCSpec == MCInit /\ [][MCNext]_<<vars, buf, focus>>

MCTypeOK == TypeOK /\ CTypeOK

MCBaseAddr == 1073741824   \* 0x40000000

File(ext, len, magic, class64, headers, records) ==
    [ext |-> ext, len |-> len, magic |-> magic, class64 |-> class64,
     headers |-> headers, records |-> records]

SeqsUpTo(S, n) == UNION {[1..k -> S] : k \in 0..n}

(* BIN and unsupported inputs *)
BinFiles == {File("bin", n, FALSE, FALSE, <<>>, <<>>) : n \in {0, 3}}
OtherFiles == {File("txt", 3, FALSE, FALSE, <<>>, <<>>)}

(* ELF: a 16-byte buffer; program headers by type, offset, vaddr, size; *)
(* the offsets are those of the segment contents in the buffer.           *)
PH(t, off, vaddr, sz) == [cut |-> FALSE, p_type |-> t, p_offset |-> off,
                          p_vaddr |-> vaddr, p_filesz |-> sz]
\* An entry that lies past the end of the buffer.
Cut == [PH(0, 0, 0, 0) EXCEPT !.cut = TRUE]
ElfBufLen == 16
InsideHeaders == {PH(1, 4, 256, 4), PH(1, 8, 512, 8), PH(1, 0, 768, 0),
                  PH(0, 0, 0, 16), Cut}
PastEndHeaders == {PH(1, 12, 1024, 8)}
ElfFiles(hs) ==
    {File("elf", ElfBufLen, TRUE, TRUE, h, <<>>) : h \in SeqsUpTo(hs, 2)}
    \cup {File("elf", ElfBufLen, m, c, <<PH(1, 4, 256, 4)>>, <<>>) :
            <<m, c>> \in {<<FALSE, TRUE>>, <<TRUE, FALSE>>}}

(* HEX records: data at 0, 2 and 6 in the current base (D0b rewrites the *)
(* bytes of D0), an extended segment and an extended linear address,     *)
(* end of file and an unknown type.                                      *)
R(t, addr, bytes, v) == [type |-> t, address |-> addr, bytes |-> bytes,
                         value |-> v]
D0  == R(0, 0, <<1, 2>>, 0)
D0b == R(0, 0, <<7, 8>>, 0)
D2  == R(0, 2, <<3, 4>>, 0)
D6  == R(0, 6, <<5, 6>>, 0)
ESA == R(2, 0, <<>>, 1)
ELA == R(4, 0, <<>>, 1)
EOF == R(1, 0, <<>>, 0)
UNK == R(5, 0, <<>>, 0)
(* Overlapping data: D1 starts inside D0, D0s rewrites only its first byte. *)
D1  == R(0, 1, <<9, 9>>, 0)
D0s == R(0, 0, <<7>>, 0)
(* An extended linear address with the top bit set: 0x8000 << 16. *)
ELAHigh == R(4, 0, <<>>, 32768)

\* Two data writes of a file either cover the same range or are disjoint:
\* the files for which a Map keyed by start address loses nothing.
NoPartialOverlap(recs) ==
    LET ws == DataWrites(recs) IN
    \A k, j \in DOMAIN ws :
        LET a == Span(ws[k].start, Len(ws[k].bytes))
            b == Span(ws[j].start, Len(ws[j].bytes))
        IN  a = b \/ a \cap b = {}

HexFiles(rs, n) == {File("hex", 0, FALSE, FALSE, <<>>, recs) :
                        recs \in SeqsUpTo(rs, n)}

MCWellFormedFiles ==
    BinFiles \cup OtherFiles \cup ElfFiles(InsideHeaders)
    \cup {f \in HexFiles({D0, D0b, D2, D6, ESA, ELA, EOF, UNK}, 3) :
            NoPartialOverlap(f.records)}

MCOverlapFiles == HexFiles({D0, D2, D1, D0s}, 3)

MCLinearHighFiles == HexFiles({D0, D2, ELAHigh}, 3)

MCMalformedHexFiles == MCOverlapFiles \cup MCLinearHighFiles

MCElfPastEndFiles == ElfFiles(InsideHeaders \cup PastEndHeaders)

\* The malformed HEX files and the ELF files with a segment past the end.
MCMalformedFiles == MCMalformedHexFiles \cup MCElfPastEndFiles

(* Buffers for the byte helpers: up to three bytes from the two escaped   *)
(* bytes 0x7D and 0x7E, the bytes they escape to (0x5D, 0x5E), 0x20, 0x00 *)
(* and 0xFF; frames built with addresses and function codes 1 and 255.    *)
MCBuffers == SeqsUpTo({0, 32, 93, 94, 125, 126, 255}, 3)
MCHeadBytes == {1, 255}

\* Separators: the default ' ', none, and a newline.
MCSeparators == {<<32>>, <<>>, <<10>>}

(* OPC UA status codes: every code of the table, and codes outside it of  *)
(* each category (0x00000001, 0x40000001, 0x80000001, 0x80110000) and the *)
(* reserved top bits 11.                                                  *)
MCStatusCodes == DOMAIN OpcuaStatusTable \cup
    {[hi |-> h, lo |-> 1] : h \in 0..3} \cup {[hi |-> 2, lo |-> 17 * 65536]}

(* The decoders meet the spec and their comments on the inputs that stress *)
(* them: the firmware segments satisfy the Segment invariant, and the OPC  *)
(* UA classifier gives every code its category.                           *)
DecodersValid == SegmentsValid /\ StatusCodeSeverity

=============================================================================
