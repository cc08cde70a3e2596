------------------------------- MODULE Codecs -------------------------------
(***************************************************************************)
(* The byte-level helpers of the shared utilities (shared/src/utils/       *)
(* serial.js, protocol.js and format.js): the CRC16 (CCITT) and Modbus CRC *)
(* loops, the Modbus RTU and TCP frame builders, the escapeData and        *)
(* unescapeData pair, the hex-string conversions and the OPC UA status     *)
(* code classifier. Each is an operator over a sequence of bytes (0..255)  *)
(* or characters (their codes); the loops are recursive functions. The     *)
(* variable buf is the buffer a caller hands the helpers; the properties   *)
(* relate what they return for it.                                         *)
(***************************************************************************)
EXTENDS Integers, Sequences, SequencesExt, Bitwise, TLC

CONSTANTS
  Buffers,    \* the byte sequences the helpers are called with
  HeadBytes,  \* the address, unit and function codes the frames are built with
  Separators, \* the separators toHexString is called with, as character codes
  StatusCodes \* OPC UA status codes, as [hi, lo]: bits 31..30 and bits 29..0

VARIABLE buf

CInit == buf = <<>>

\* A caller hands the helpers the buffer d.
HelpersCalled(d) == buf' = d

CNext == \E d \in Buffers : HelpersCalled(d)

CTypeOK == buf \in Seq(0..255)

-----------------------------------------------------------------------------
(* calculateCRC16: init 0xFFFF; each byte XORed in at the top, then eight *)
(* shifts with the polynomial 0x1021 when bit 15 is set, masked to 16 bits.*)
(* The inner loop is a function of the register and the shifts left, the  *)
(* outer one a recursion over the bytes.                                   *)
Crc16Shifts[crc \in Nat, j \in Nat] ==
  IF j = 0 THEN crc
  ELSE Crc16Shifts[IF (crc \div 32768) % 2 = 1 THEN ((2 * crc) ^^ 4129) % 65536
                   ELSE (2 * crc) % 65536, j - 1]

Crc16From[init \in Nat, bytes \in Seq(Nat)] ==
  IF bytes = <<>> THEN init
  ELSE Crc16Shifts[Crc16From[init, Front(bytes)] ^^ (Last(bytes) * 256), 8]

\* A calculateCRC16 that starts the register at 0 (CRC-16/XMODEM).
CalculateCRC16InitZero(bytes) == Crc16From[0, bytes]

CalculateCRC16(bytes) == Crc16From[65535, bytes]

(* calculateModbusCRC: init 0xFFFF; each byte XORed in at the bottom, then *)
(* eight right shifts with the reflected polynomial 0xA001 when bit 0 is   *)
(* set.                                                                    *)
ModbusShifts[crc \in Nat, j \in Nat] ==
  IF j = 0 THEN crc
  ELSE ModbusShifts[IF crc % 2 = 1 THEN (crc \div 2) ^^ 40961 ELSE crc \div 2, j - 1]

ModbusCrcOf[bytes \in Seq(Nat)] ==
  IF bytes = <<>> THEN 65535
  ELSE ModbusShifts[ModbusCrcOf[Front(bytes)] ^^ Last(bytes), 8]

CalculateModbusCRC(bytes) == ModbusCrcOf[bytes]

\* A buildModbusRTUFrame that stores the CRC's high byte first.
BuildModbusRTUFrameHighFirst(address, functionCode, bytes) ==
  LET body == <<address, functionCode>> \o bytes
      crc == CalculateModbusCRC(body)
  IN  body \o <<(crc \div 256) % 256, crc % 256>>

\* buildModbusRTUFrame: address, function code, bytes, and the CRC of those
\* bytes, low byte first.
BuildModbusRTUFrame(address, functionCode, bytes) ==
  LET body == <<address, functionCode>> \o bytes
      crc == CalculateModbusCRC(body)
  IN  body \o <<crc % 256, (crc \div 256) % 256>>

\* buildModbusTCPFrame: the MBAP header (transaction id, protocol 0, the
\* length of unit id, function code and bytes, unit id), then the PDU.
BuildModbusTCPFrame(transactionId, unitId, functionCode, bytes) ==
  LET length == 2 + Len(bytes) IN
  <<(transactionId \div 256) % 256, transactionId % 256, 0, 0,
    (length \div 256) % 256, length % 256, unitId, functionCode>> \o bytes

-----------------------------------------------------------------------------
(* escapeData with its default map { 0x7E: [0x7D, 0x5E], 0x7D: [0x7D, 0x5D] } *)
(* and unescapeData, which turns 0x7D x into x XOR 0x20 unless the 0x7D is  *)
(* the last byte.                                                          *)
\* An escape map with the entry for the flag byte 0x7E only.
EscapeMapFlagOnly == 126 :> <<125, 94>>

EscapeMap == (126 :> <<125, 94>>) @@ (125 :> <<125, 93>>)

EscapeData(bytes) ==
  FlattenSeq([k \in DOMAIN bytes |->
                IF bytes[k] \in DOMAIN EscapeMap THEN EscapeMap[bytes[k]]
                ELSE <<bytes[k]>>])

RECURSIVE UnescapeFrom(_, _)
UnescapeFrom(bytes, pos) ==
  IF pos > Len(bytes) THEN <<>>
  ELSE IF bytes[pos] = 125 /\ pos + 1 <= Len(bytes)
       THEN <<bytes[pos + 1] ^^ 32>> \o UnescapeFrom(bytes, pos + 2)
       ELSE <<bytes[pos]>> \o UnescapeFrom(bytes, pos + 1)

UnescapeData(bytes) == UnescapeFrom(bytes, 1)

-----------------------------------------------------------------------------
(* format.js: formatHex, toHexString and parseHexString. A string is the  *)
(* sequence of its character codes.                                       *)
HexDigit(d) == IF d < 10 THEN 48 + d ELSE 55 + d      \* '0'..'9', 'A'..'F'

\* value.toString(16).toUpperCase(): the digits of value, no leading zeros.
RECURSIVE HexDigitsOf(_)
HexDigitsOf(v) ==
  IF v < 16 THEN <<HexDigit(v)>> ELSE HexDigitsOf(v \div 16) \o <<HexDigit(v % 16)>>

\* A formatHex without its padStart.
FormatHexUnpadded(value, digits) == HexDigitsOf(value)

\* formatHex(value, digits): padStart(digits, '0').
FormatHex(value, digits) ==
  LET s == HexDigitsOf(value) IN
  [k \in 1..(digits - Len(s)) |-> 48] \o s

\* toHexString(bytes, separator): formatHex(b, 2) of each byte, joined.
ToHexString(bytes, sep) ==
  IF bytes = <<>> THEN <<>>
  ELSE FlattenSeq([k \in DOMAIN bytes |->
                    IF k = 1 THEN FormatHex(bytes[k], 2) ELSE sep \o FormatHex(bytes[k], 2)])

Whitespace == {9, 10, 11, 12, 13, 32}   \* what /\s/ matches among ASCII codes
IsHexChar(c) == c \in (48..57) \cup (65..70) \cup (97..102)
HexValue(c) == IF c <= 57 THEN c - 48 ELSE IF c <= 70 THEN c - 55 ELSE c - 87

\* parseInt(two characters, 16): the longest prefix of hex digits; NaN,
\* which a Uint8Array stores as 0, when there is none.
ParseIntHex2(a, b) ==
  IF ~IsHexChar(a) THEN 0
  ELSE IF IsHexChar(b) THEN 16 * HexValue(a) + HexValue(b) ELSE HexValue(a)

\* parseHexString: whitespace removed; new Uint8Array(hex.length / 2)
\* truncates an odd length, so a last lone digit is dropped.
ParseHexString(s) ==
  LET hex == SelectSeq(s, LAMBDA c : c \notin Whitespace) IN
  [i \in 1..(Len(hex) \div 2) |-> ParseIntHex2(hex[2 * i - 1], hex[2 * i])]

-----------------------------------------------------------------------------
(* protocol.js: parseOpcuaStatusCode. A code is [hi, lo] with hi its top  *)
(* two bits. JavaScript's & converts both operands to signed 32-bit       *)
(* integers and returns one; a mask of the top bits gives a multiple of   *)
(* 2^30, so both sides of each comparison are compared in units of 2^30:  *)
(* code & 0x80000000 is -2 when bit 31 is set and 0 otherwise; code &     *)
(* 0xC0000000 is hi as a signed two-bit number; 0x40000000 is 1 and the    *)
(* literal 0x80000000, a Number and not an int32, is 2.                    *)
OpcuaStatusTable ==
  [c \in {[hi |-> 0, lo |-> 0], [hi |-> 1, lo |-> 0]} \cup
         {[hi |-> 2, lo |-> k * 65536] : k \in 0..16} |->
     CASE c.hi = 0 -> "Good" [] c.hi = 1 -> "Uncertain" [] OTHER -> "Bad"]

Int32TopBits(hi) == IF hi >= 2 THEN hi - 4 ELSE hi

ParseOpcuaStatusCode(c) ==
  IF c \in DOMAIN OpcuaStatusTable THEN OpcuaStatusTable[c]
  ELSE IF (IF c.hi >= 2 THEN -2 ELSE 0) = 0 THEN "Good"
  ELSE IF Int32TopBits(c.hi) = 1 THEN "Uncertain"
  ELSE IF Int32TopBits(c.hi) = 2 THEN "Bad"
  ELSE "Unknown"

\* OPC UA's severity: the top two bits 00 Good, 01 Uncertain, 10 Bad.
Severity(c) == CASE c.hi = 0 -> "Good" [] c.hi = 1 -> "Uncertain" [] c.hi = 2 -> "Bad"

-----------------------------------------------------------------------------
(* Reference definition: the CRC as the remainder of a polynomial division *)
(* over GF(2). The message's bits, most significant first, followed by 16  *)
(* zeros, with the initial register 0xFFFF added to its first 16 bits      *)
(* (init * x^n), divided by x^16 + x^12 + x^5 + 1; the CRC is the last 16  *)
(* bits of what is left.                                                   *)
BitsOf(bytes) ==
  FlattenSeq([k \in DOMAIN bytes |-> [j \in 1..8 |-> (bytes[k] \div 2^(8 - j)) % 2]])

Generator == <<1, 0, 0, 0, 1, 0, 0, 0, 0, 0, 0, 1, 0, 0, 0, 0, 1>>

\* The dividend after the steps for its first at bits: a step subtracts
\* (XORs) the generator where the leading bit is 1.
LongDivision(dividend, n) ==
  LET r[at \in 0..n] ==
        IF at = 0 THEN dividend
        ELSE LET prev == r[at - 1] IN
             IF prev[at] = 1
             THEN [k \in DOMAIN prev |->
                     IF k >= at /\ k <= at + 16
                     THEN (prev[k] + Generator[k - at + 1]) % 2 ELSE prev[k]]
             ELSE prev
  IN  r[n]

Crc16Reference(bytes) ==
  LET n == 8 * Len(bytes)
      augmented == BitsOf(bytes) \o [k \in 1..16 |-> 0]
      dividend == [k \in 1..(n + 16) |->
                     IF k <= 16 THEN (augmented[k] + 1) % 2 ELSE augmented[k]]
      rest == LongDivision(dividend, n)
  IN  LET v[k \in 0..16] == IF k = 0 THEN 0 ELSE 2 * v[k - 1] + rest[n + k]
      IN  v[16]

-----------------------------------------------------------------------------
(* calculateCRC16 computes the CRC-16/CCITT its comment names: for every   *)
(* buffer, the shift-and-XOR loop with its 16-bit mask gives the remainder *)
(* of the polynomial division that defines it.                             *)
Crc16MatchesDivision == CalculateCRC16(buf) = Crc16Reference(buf)

(* Every frame buildModbusRTUFrame builds passes the check a Modbus        *)
(* receiver makes (the CRC over the whole frame, CRC bytes included, is 0, *)
(* which holds only with the CRC stored low byte first), and the length     *)
(* field buildModbusTCPFrame writes counts exactly the bytes after it.      *)
ModbusFramesValid ==
  /\ \A frame \in {BuildModbusRTUFrame(unit, code, buf) : unit, code \in HeadBytes} :
        CalculateModbusCRC(frame) = 0
  /\ \A frame \in {BuildModbusTCPFrame(unit, unit, code, buf) : unit, code \in HeadBytes} :
        frame[5] * 256 + frame[6] = Len(frame) - 6

(* escapeData and unescapeData are inverse on every buffer, and an escaped *)
(* buffer holds no 0x7E, the byte that delimits a frame: the escape map    *)
(* and the XOR with 0x20 must agree byte for byte.                         *)
EscapeTransparent ==
  /\ UnescapeData(EscapeData(buf)) = buf
  /\ \A k \in DOMAIN EscapeData(buf) : EscapeData(buf)[k] # 126

(* toHexString's output, with its default separator ' ' or any other     *)
(* whitespace, reads back through parseHexString as the same bytes: every *)
(* byte must give exactly two digits, so formatHex must pad.              *)
HexStringRoundTrip ==
  \A sep \in Separators : ParseHexString(ToHexString(buf, sep)) = buf

(* parseOpcuaStatusCode classifies a code missing from its table by the   *)
(* status category of its top two bits, as its comment says: Good,        *)
(* Uncertain or Bad.                                                       *)
StatusCodeSeverity ==
  \A c \in StatusCodes : c.hi < 3 => ParseOpcuaStatusCode(c) = Severity(c)

=============================================================================
