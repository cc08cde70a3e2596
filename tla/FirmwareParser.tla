--------------------------- MODULE FirmwareParser ---------------------------
(***************************************************************************)
(* FirmwareParser (flasher/src/utils/firmware-parser.js): one call of      *)
(* FirmwareParser.parse(buffer, filename) on an input drawn from Files.     *)
(* parseELF's program-header loop, parseHEX's record loop and its          *)
(* sort-and-coalesce loop are taken one iteration per step, so that every  *)
(* intermediate value of the accumulators (extendedAddr, the Map, the      *)
(* current segment) is a state.                                            *)
(*                                                                         *)
(* Data abstraction. A buffer byte is named by its offset in the file, so  *)
(* a slice of the buffer is the sequence of the offsets it copies. A HEX   *)
(* line is the record parseInt makes of it: type, 16-bit address, the data *)
(* bytes (for type 0) and the value of the data field (for types 2 and 4). *)
(* Text decoding and hex-digit parsing are left out.                       *)
(***************************************************************************)
EXTENDS Integers, Sequences, SequencesExt, FiniteSets

CONSTANTS
    Files,      \* the (buffer, filename) inputs, as records (see MCFirmwareParser)
    BaseAddr    \* parseBIN's baseAddr, 0x40000000

VARIABLES
    file,           \* the input of this call
    pc,             \* "start", "elf", "hex", "coalesce", "done" or "error"
    i,              \* loop index: program header or HEX line, from 1
    extendedAddr,   \* parseHEX's accumulator
    data,           \* parseHEX's Map: address -> bytes
    sortedAddrs,    \* the keys still to coalesce, ascending
    currentSegment, \* <<>> for null, or <<segment>>
    segments,       \* the result's segments
    totalSize       \* the result's size

vars == <<file, pc, i, extendedAddr, data, sortedAddrs, currentSegment,
          segments, totalSize>>

Segment == [address: Int, size: Int, data: Seq(Int)]

-----------------------------------------------------------------------------
(* JS semantics used by the parser.                                        *)

\* Buffer.prototype.slice(start, end) for non-negative arguments: both ends
\* are clamped to the buffer length; the result holds the offsets it copies.
Clamp(n, len) == IF n > len THEN len ELSE n

SliceShort(len, start, end) ==
    LET s == Clamp(start, len)
        e == Clamp(end - 1, len)
    IN  [k \in 1..(IF e > s THEN e - s ELSE 0) |-> s + k - 1]

Slice(len, start, end) ==
    LET s == Clamp(start, len)
        e == Clamp(end, len)
    IN  [k \in 1..(IF e > s THEN e - s ELSE 0) |-> s + k - 1]

\* x << 16 on a 16-bit value: the result is a signed 32-bit integer, so a
\* value of 0x8000 or more gives a negative number.
ShiftLeft16(x) == IF x >= 32768 THEN (x - 65536) * 65536 ELSE x * 65536

-----------------------------------------------------------------------------
Init ==
    /\ file \in Files
    /\ pc = "start"
    /\ i = 1
    /\ extendedAddr = 0
    /\ data = <<>>
    /\ sortedAddrs = <<>>
    /\ currentSegment = <<>>
    /\ segments = <<>>
    /\ totalSize = 0

\* parse: dispatch on the extension; any other one throws.
Unsupported ==
    /\ pc = "start"
    /\ file.ext \notin {"bin", "elf", "hex"}
    /\ pc' = "error"
    /\ UNCHANGED <<file, i, extendedAddr, data, sortedAddrs, currentSegment,
                   segments, totalSize>>

\* parseBIN: one segment at the fixed base holding the whole buffer.
ParseBIN ==
    /\ pc = "start"
    /\ file.ext = "bin"
    /\ segments' = <<[address |-> BaseAddr, size |-> file.len,
                      data |-> Slice(file.len, 0, file.len)]>>
    /\ totalSize' = file.len
    /\ pc' = "done"
    /\ UNCHANGED <<file, i, extendedAddr, data, sortedAddrs, currentSegment>>

\* parseELF up to the loop: the magic and class checks throw; otherwise
\* the program headers are walked from the first.
ElfHeader ==
    /\ pc = "start"
    /\ file.ext = "elf"
    /\ pc' = IF file.magic /\ file.class64 THEN "elf" ELSE "error"
    /\ UNCHANGED <<file, i, extendedAddr, data, sortedAddrs, currentSegment,
                   segments, totalSize>>

\* One iteration of the program-header loop. An entry lying past the end of
\* the buffer makes a DataView read throw a RangeError. A PT_LOAD entry with
\* p_filesz > 0 becomes a segment of size p_filesz holding the buffer slice.
ElfProgramHeader ==
    /\ pc = "elf"
    /\ i <= Len(file.headers)
    /\ LET h == file.headers[i] IN
       IF h.cut
       THEN /\ pc' = "error"
            /\ UNCHANGED <<i, segments, totalSize>>
       ELSE /\ IF h.p_type = 1 /\ h.p_filesz > 0
               THEN /\ segments' = Append(segments,
                          [address |-> h.p_vaddr, size |-> h.p_filesz,
                           data |-> Slice(file.len, h.p_offset,
                                          h.p_offset + h.p_filesz)])
                    /\ totalSize' = totalSize + h.p_filesz
               ELSE UNCHANGED <<segments, totalSize>>
            /\ i' = i + 1
            /\ UNCHANGED pc
    /\ UNCHANGED <<file, extendedAddr, data, sortedAddrs, currentSegment>>

ElfDone ==
    /\ pc = "elf"
    /\ i > Len(file.headers)
    /\ pc' = "done"
    /\ UNCHANGED <<file, i, extendedAddr, data, sortedAddrs, currentSegment,
                   segments, totalSize>>

-----------------------------------------------------------------------------
(* parseHEX                                                                 *)

HexStart ==
    /\ pc = "start"
    /\ file.ext = "hex"
    /\ pc' = "hex"
    /\ UNCHANGED <<file, i, extendedAddr, data, sortedAddrs, currentSegment,
                   segments, totalSize>>

Record == file.records[i]

\* Data record: data.set(extendedAddr + address, bytes); a key already in
\* the Map gets the new bytes.
HexData ==
    /\ pc = "hex"
    /\ i <= Len(file.records)
    /\ Record.type = 0
    /\ data' = ((extendedAddr + Record.address) :> Record.bytes) @@ data
    /\ i' = i + 1
    /\ UNCHANGED <<file, pc, extendedAddr, sortedAddrs, currentSegment,
                   segments, totalSize>>

HexSegmentAddressUnscaled ==
    /\ pc = "hex"
    /\ i <= Len(file.records)
    /\ Record.type = 2
    /\ extendedAddr' = Record.value
    /\ i' = i + 1
    /\ UNCHANGED <<file, pc, data, sortedAddrs, currentSegment, segments,
                   totalSize>>

\* Extended segment address: extendedAddr = segment * 16.
HexSegmentAddress ==
    /\ pc = "hex"
    /\ i <= Len(file.records)
    /\ Record.type = 2
    /\ extendedAddr' = Record.value * 16
    /\ i' = i + 1
    /\ UNCHANGED <<file, pc, data, sortedAddrs, currentSegment, segments,
                   totalSize>>

\* Extended linear address: extendedAddr = extended << 16.
HexLinearAddress ==
    /\ pc = "hex"
    /\ i <= Len(file.records)
    /\ Record.type = 4
    /\ extendedAddr' = ShiftLeft16(Record.value)
    /\ i' = i + 1
    /\ UNCHANGED <<file, pc, data, sortedAddrs, currentSegment, segments,
                   totalSize>>

\* End of file and unknown types only break out of the switch: the loop
\* goes on with the next line.
HexSkip ==
    /\ pc = "hex"
    /\ i <= Len(file.records)
    /\ Record.type \notin {0, 2, 4}
    /\ i' = i + 1
    /\ UNCHANGED <<file, pc, extendedAddr, data, sortedAddrs, currentSegment,
                   segments, totalSize>>

\* Array.from(data.keys()).sort((a, b) => a - b)
HexSort ==
    /\ pc = "hex"
    /\ i > Len(file.records)
    /\ sortedAddrs' = SetToSortSeq(DOMAIN data, <)
    /\ pc' = "coalesce"
    /\ UNCHANGED <<file, i, extendedAddr, data, currentSegment, segments,
                   totalSize>>

ContinuesOffByOne(cur, addr) == addr = cur.address + Len(cur.data) - 1

\* The coalescing test: addr continues the current segment.
Continues(cur, addr) == addr = cur.address + Len(cur.data)

\* One iteration of the coalescing loop: start a new segment (pushing the
\* current one) or append the bytes to the current one.
HexCoalesce ==
    /\ pc = "coalesce"
    /\ sortedAddrs # <<>>
    /\ LET addr  == Head(sortedAddrs)
           bytes == data[addr]
       IN  IF currentSegment = <<>> \/ ~Continues(currentSegment[1], addr)
           THEN /\ segments' = segments \o currentSegment
                /\ currentSegment' = <<[address |-> addr, size |-> Len(bytes),
                                        data |-> bytes]>>
           ELSE /\ currentSegment' =
                     LET cur == currentSegment[1] IN
                     <<[cur EXCEPT !.data = cur.data \o bytes,
                                   !.size = Len(cur.data \o bytes)]>>
                /\ UNCHANGED segments
    /\ sortedAddrs' = Tail(sortedAddrs)
    /\ UNCHANGED <<file, pc, i, extendedAddr, data, totalSize>>

HexFinishUnguarded ==
    /\ pc = "coalesce"
    /\ sortedAddrs = <<>>
    /\ segments' = Append(segments, IF currentSegment = <<>> THEN <<>>
                                    ELSE Head(currentSegment))
    /\ totalSize' = FoldLeft(LAMBDA sum, seg : sum + seg.size, 0,
                             segments \o currentSegment)
    /\ pc' = "done"
    /\ UNCHANGED <<file, i, extendedAddr, data, sortedAddrs, currentSegment>>

\* Push the last segment, if there is one, and sum the sizes.
HexFinish ==
    /\ pc = "coalesce"
    /\ sortedAddrs = <<>>
    /\ segments' = segments \o currentSegment
    /\ totalSize' = FoldLeft(LAMBDA sum, seg : sum + seg.size, 0,
                             segments \o currentSegment)
    /\ pc' = "done"
    /\ UNCHANGED <<file, i, extendedAddr, data, sortedAddrs, currentSegment>>

\* parse has returned or thrown.
Returned ==
    /\ pc \in {"done", "error"}
    /\ UNCHANGED vars

Next ==
    \/ Unsupported \/ ParseBIN
    \/ ElfHeader \/ ElfProgramHeader \/ ElfDone
    \/ HexStart \/ HexData \/ HexSegmentAddress \/ HexLinearAddress \/ HexSkip
    \/ HexSort \/ HexCoalesce \/ HexFinish
    \/ Returned

Spec == Init /\ [][Next]_vars

-----------------------------------------------------------------------------
(* Reference definitions: what a HEX file means, independently of the Map. *)

\* The data writes of a HEX file in file order, each with its absolute start
\* address: type 2 sets the base to value * 16, type 4 to value * 2^16 as
\* an unsigned number (the Intel HEX format's meaning).
RECURSIVE DataWritesFrom(_, _)
DataWritesFrom(recs, base) ==
    IF recs = <<>> THEN <<>>
    ELSE LET r == Head(recs) IN
         CASE r.type = 0 -> <<[start |-> base + r.address, bytes |-> r.bytes]>>
                               \o DataWritesFrom(Tail(recs), base)
           [] r.type = 2 -> DataWritesFrom(Tail(recs), r.value * 16)
           [] r.type = 4 -> DataWritesFrom(Tail(recs), r.value * 65536)
           [] OTHER      -> DataWritesFrom(Tail(recs), base)

DataWrites(recs) == DataWritesFrom(recs, 0)

Span(start, n) == start .. (start + n - 1)

\* Memory after the writes, each byte from the last write covering it.
RECURSIVE ImageOf(_)
ImageOf(ws) ==
    IF ws = <<>> THEN <<>>
    ELSE LET w == Last(ws) IN
         [a \in Span(w.start, Len(w.bytes)) |-> w.bytes[a - w.start + 1]]
             @@ ImageOf(Front(ws))

\* Memory after flashing the segments in order.
SegmentImage(segs) ==
    ImageOf([k \in DOMAIN segs |-> [start |-> segs[k].address,
                                    bytes |-> segs[k].data]])

-----------------------------------------------------------------------------
(* Properties                                                               *)

TypeOK ==
    /\ pc \in {"start", "elf", "hex", "coalesce", "done", "error"}
    /\ data \in [DOMAIN data -> Seq(Int)]
    /\ sortedAddrs \in Seq(DOMAIN data)
    /\ currentSegment \in Seq(Segment) /\ Len(currentSegment) <= 1
    /\ segments \in Seq(Segment)
    /\ totalSize \in Nat

\* Round trip (spec 4.1 and its HEX test): when parseHEX returns, flashing
\* its segments in order leaves memory holding exactly the file's data, each
\* byte as the last record covering it gives it. This exercises the
\* extended-address accumulator, the Map keyed by start address, the sort
\* and the coalescing loop together.
HexRoundTrip ==
    (pc = "done" /\ file.ext = "hex") =>
        SegmentImage(segments) = ImageOf(DataWrites(file.records))

\* Minimal runs (spec 4.1): the segments parseHEX returns are in ascending
\* order and separated by gaps, so none overlaps or touches the next one and
\* none could be merged with it by the coalescing loop.
HexSegmentsMaximal ==
    (pc = "done" /\ file.ext = "hex") =>
        \A k \in 1..(Len(segments) - 1) :
            segments[k].address + segments[k].size < segments[k + 1].address

\* Segment invariant (spec, Segment): every segment parse returns, of any
\* format, has size equal to the length of its data: what writeBlock sends
\* is what the UI and eraseFlash were told.
SegmentSizeMatches ==
    pc = "done" => \A k \in DOMAIN segments :
                      segments[k].size = Len(segments[k].data)

\* Segment invariant (spec, Segment): the segments parseHEX returns, for any
\* records, are u32 address ranges that never overlap. No input reaches 2^32
\* from above (the largest address records can form is 0x7FFF0000 + 0xFFFF),
\* so an address out of range is a negative one.
HexSegmentsValid ==
    (pc = "done" /\ file.ext = "hex") =>
        /\ \A k \in DOMAIN segments : segments[k].address >= 0
        /\ \A k, j \in DOMAIN segments :
              k # j => Span(segments[k].address, segments[k].size)
                         \cap Span(segments[j].address, segments[j].size) = {}

\* The whole Segment invariant of the spec for what parse returns, of any
\* format: u32 address ranges that never overlap, each with size equal to
\* the length of its data.
SegmentsValid == HexSegmentsValid /\ SegmentSizeMatches

=============================================================================
