------------------------------ MODULE QRSegments ------------------------------
(***************************************************************************)
(* The text in the data codewords of a QR code (decodeData and BitStream   *)
(* of static/js/jsQR.js).  The stream is the sequence of its remaining     *)
(* bits; a text is a sequence of character codes.                          *)
(***************************************************************************)
EXTENDS Integers, SequencesExt

Number(bits) ==
    LET value[i \in 0..Len(bits)] == IF i = 0 THEN 0 ELSE 2 * value[i - 1] + bits[i]
    IN  value[Len(bits)]

(* The most significant bit of a byte comes first.                         *)
BitStream(bytes) ==
    [i \in 1..8 * Len(bytes) |->
        (bytes[(i - 1) \div 8 + 1] \div 2^(7 - ((i - 1) % 8))) % 2]

CanRead(stream, numBits) == Len(stream) >= numBits
Bits(stream, numBits)    == Number(SubSeq(stream, 1, numBits))
Rest(stream, numBits)    == SubSeq(stream, numBits + 1, Len(stream))

(* What the decoding of a segment gives, and an exception.                 *)
Read(text, stream) == [ok |-> TRUE, text |-> text, stream |-> stream]
Thrown             == [ok |-> FALSE, text |-> <<>>, stream |-> <<>>]

Then(text, segment) ==
    IF segment.ok THEN Read(text \o segment.text, segment.stream) ELSE Thrown

-----------------------------------------------------------------------------
(* Groups of digits and characters, each in the fewest bits that hold it.  *)

DigitBits(n)    == <<4, 7, 10>>[n]
Digits(n, num)  == [i \in 1..n |-> 48 + ((num \div 10^(n - i)) % 10)]

AlphanumericCharacterCodes ==
    [i \in 1..10 |-> 47 + i] \o [i \in 1..26 |-> 64 + i]
    \o <<32, 36, 37, 42, 43, 45, 46, 47, 58>>

PairBits(n)    == <<6, 11>>[n]
Pair(n, v)     == [i \in 1..n |-> AlphanumericCharacterCodes[((v \div 45^(n - i)) % 45) + 1]]

RECURSIVE Numeric(_, _)
Numeric(stream, length) ==
    LET n   == IF length >= 3 THEN 3 ELSE length
    IN  IF n = 0 THEN Read(<<>>, stream)
        ELSE IF ~ CanRead(stream, DigitBits(n)) THEN Thrown
        ELSE LET num == Bits(stream, DigitBits(n))
             IN  IF num >= 10^n THEN Thrown
                 ELSE Then(Digits(n, num), Numeric(Rest(stream, DigitBits(n)), length - n))

RECURSIVE Alphanumeric(_, _)
Alphanumeric(stream, length) ==
    LET n   == IF length >= 2 THEN 2 ELSE length
    IN  IF n = 0 THEN Read(<<>>, stream)
        ELSE IF ~ CanRead(stream, PairBits(n)) THEN Thrown
        ELSE LET v == Bits(stream, PairBits(n))
             IN  IF v >= 45^n THEN Thrown
                 ELSE Then(Pair(n, v), Alphanumeric(Rest(stream, PairBits(n)), length - n))

-----------------------------------------------------------------------------
(* Bytes: decodeURIComponent reads UTF-8 and throws on anything else; then *)
(* the segment has no text.                                                *)

Utf8Length(b) ==
    CASE b < 128          -> 1
      [] b \in 194..223   -> 2
      [] b \in 224..239   -> 3
      [] b \in 240..244   -> 4
      [] OTHER            -> 0

SecondBytes(b) ==
    CASE b = 224 -> 160..191
      [] b = 237 -> 128..159
      [] b = 240 -> 144..191
      [] b = 244 -> 128..143
      [] OTHER   -> 128..191

CodePoint(bytes) ==
    IF Len(bytes) = 1 THEN bytes[1]
    ELSE LET value[i \in DOMAIN bytes] ==
                 IF i = 1 THEN bytes[1] % 2^(7 - Len(bytes))
                 ELSE 64 * value[i - 1] + (bytes[i] % 64)
         IN  value[Len(bytes)]

RECURSIVE Utf8(_)
Utf8(bytes) ==
    LET n == Utf8Length(bytes[1])
    IN  IF bytes = <<>> THEN Read(<<>>, <<>>)
        ELSE IF \/ n = 0 \/ n > Len(bytes)
                \/ n > 1 /\ bytes[2] \notin SecondBytes(bytes[1])
                \/ \E i \in 3..n : bytes[i] \notin 128..191
        THEN Thrown
        ELSE Then(<<CodePoint(SubSeq(bytes, 1, n))>>, Utf8(SubSeq(bytes, n + 1, Len(bytes))))

Groups(stream, length, numBits) ==
    [i \in 1..length |-> Bits(Rest(stream, numBits * (i - 1)), numBits)]

ByteText(stream, length) ==
    IF ~ CanRead(stream, 8 * length) THEN Thrown
    ELSE Read(Utf8(Groups(stream, length, 8)).text, Rest(stream, 8 * length))

(* Kanji: the table turns the Shift JIS codes of signs, letters and lines  *)
(* into their characters.  Of its kanji, which have no rule, the model says *)
(* which codes have one, each standing for a character that no other code  *)
(* has; what is not in the table is the character 0.                       *)

Run(first, n, character) == [c \in first..(first + n - 1) |-> character + (c - first)]
Listed(first, characters) ==
    [c \in first..(first + Len(characters) - 1) |-> characters[c - first + 1]]

Signs ==
    Listed(\H8140, <<
        \H3000, \H3001, \H3002, \HFF0C, \HFF0E, \H30FB, \HFF1A, \HFF1B, \HFF1F,
        \HFF01, \H309B, \H309C, \HB4, \HFF40, \HA8, \HFF3E, \HFFE3, \HFF3F,
        \H30FD, \H30FE, \H309D, \H309E, \H3003, \H4EDD, \H3005, \H3006, \H3007,
        \H30FC, \H2015, \H2010, \HFF0F, \H5C, \H301C, \H2016, \HFF5C, \H2026,
        \H2025, \H2018, \H2019, \H201C, \H201D, \HFF08, \HFF09, \H3014, \H3015,
        \HFF3B, \HFF3D, \HFF5B, \HFF5D, \H3008, \H3009, \H300A, \H300B, \H300C,
        \H300D, \H300E, \H300F, \H3010, \H3011, \HFF0B, \H2212, \HB1, \HD7>>) @@
    Listed(\H8180, <<
        \HF7, \HFF1D, \H2260, \HFF1C, \HFF1E, \H2266, \H2267, \H221E, \H2234,
        \H2642, \H2640, \HB0, \H2032, \H2033, \H2103, \HFFE5, \HFF04, \HA2,
        \HA3, \HFF05, \HFF03, \HFF06, \HFF0A, \HFF20, \HA7, \H2606, \H2605,
        \H25CB, \H25CF, \H25CE, \H25C7, \H25C6, \H25A1, \H25A0, \H25B3, \H25B2,
        \H25BD, \H25BC, \H203B, \H3012, \H2192, \H2190, \H2191, \H2193, \H3013>>) @@
    Listed(\H81B8, <<
        \H2208, \H220B, \H2286, \H2287, \H2282, \H2283, \H222A, \H2229>>) @@
    Listed(\H81C8, <<
        \H2227, \H2228, \HAC, \H21D2, \H21D4, \H2200, \H2203>>) @@
    Listed(\H81DA, <<
        \H2220, \H22A5, \H2312, \H2202, \H2207, \H2261, \H2252, \H226A, \H226B,
        \H221A, \H223D, \H221D, \H2235, \H222B, \H222C>>) @@
    Listed(\H81F0, <<
        \H212B, \H2030, \H266F, \H266D, \H266A, \H2020, \H2021, \HB6>>) @@
    Listed(\H81FC, <<
        \H25EF>>)

JapaneseAndLatinLetters ==
    Run(\H824F, 10, \HFF10) @@ Run(\H8260, 26, \HFF21) @@ Run(\H8281, 26, \HFF41)
    @@ Run(\H829F, 83, \H3041) @@ Run(\H8340, 63, \H30A1) @@ Run(\H8380, 23, \H30E0)

OtherLettersAndLines ==
    Run(\H839F, 17, \H391) @@ Run(\H83B0, 7, \H3A3)
    @@ Run(\H83BF, 17, \H3B1) @@ Run(\H83D0, 7, \H3C3)
    @@ Run(\H8440, 6, \H410) @@ Run(\H8446, 1, \H401) @@ Run(\H8447, 26, \H416)
    @@ Run(\H8470, 6, \H430) @@ Run(\H8476, 1, \H451) @@ Run(\H8477, 8, \H436)
    @@ Run(\H8480, 18, \H43E) @@
    Listed(\H849F, <<
        \H2500, \H2502, \H250C, \H2510, \H2518, \H2514, \H251C, \H252C, \H2524,
        \H2534, \H253C, \H2501, \H2503, \H250F, \H2513, \H251B, \H2517, \H2523,
        \H2533, \H252B, \H253B, \H254B, \H2520, \H252F, \H2528, \H2537, \H253F,
        \H251D, \H2530, \H2525, \H2538, \H2542>>)

SignsAndLetters == Signs @@ JapaneseAndLatinLetters @@ OtherLettersAndLines

IsKanji(c) ==
    /\ c \in \H889F..\H9872 \/ c \in \H989F..\H9FFC \/ c \in \HE040..\HEAA4
    /\ c % 256 \in 64..126 \/ c % 256 \in 128..252

KanjiOf(c) == 1114112 + c

ShiftJISTable(c) ==
    IF c \in DOMAIN SignsAndLetters THEN SignsAndLetters[c]
    ELSE IF IsKanji(c) THEN KanjiOf(c) ELSE 0

KanjiCode(k) ==
    LET c == 256 * (k \div 192) + (k % 192)
    IN  c + IF c < 7936 THEN 33088 ELSE 49472

Kanji(stream, length) ==
    IF ~ CanRead(stream, 13 * length) THEN Thrown
    ELSE LET codes == Groups(stream, length, 13)
         IN  Read([i \in 1..length |-> ShiftJISTable(KanjiCode(codes[i]))],
                  Rest(stream, 13 * length))

-----------------------------------------------------------------------------
(* An ECI designator changes nothing of the text: its first bits tell its  *)
(* length.                                                                 *)
Eci(stream) ==
    LET Skip(n) == IF CanRead(stream, n) THEN Read(<<>>, Rest(stream, n)) ELSE Thrown
        Ones(n) == CanRead(stream, n) /\ \A i \in 1..n : stream[i] = 1
    IN  IF Ones(3) THEN Skip(3)
        ELSE IF Ones(2) THEN Skip(24)
        ELSE IF Ones(1) THEN Skip(16)
        ELSE Skip(8)

(* The character count of a mode has one of three lengths, by version.     *)
SizeOf(version) == IF version <= 9 THEN 1 ELSE IF version <= 26 THEN 2 ELSE 3

CountBits(mode, version) ==
    CASE mode = 1 -> <<10, 12, 14>>[SizeOf(version)]
      [] mode = 2 -> <<9, 11, 13>>[SizeOf(version)]
      [] mode = 4 -> <<8, 16, 16>>[SizeOf(version)]
      [] mode = 8 -> <<8, 10, 12>>[SizeOf(version)]

Segment(mode, stream, version) ==
    IF mode = 7 THEN Eci(stream)
    ELSE IF mode \notin {1, 2, 4, 8} THEN Read(<<>>, stream)
    ELSE LET n == CountBits(mode, version)
         IN  IF ~ CanRead(stream, n) THEN Thrown
             ELSE LET length == Bits(stream, n)
                      rest == Rest(stream, n)
                  IN  CASE mode = 1 -> Numeric(rest, length)
                        [] mode = 2 -> Alphanumeric(rest, length)
                        [] mode = 4 -> ByteText(rest, length)
                        [] mode = 8 -> Kanji(rest, length)

(* Segment after segment, up to a terminator or trailing zeros.            *)
RECURSIVE Segments(_, _)
Segments(stream, version) ==
    IF ~ CanRead(stream, 4)
    THEN IF \A i \in DOMAIN stream : stream[i] = 0 THEN Read(<<>>, <<>>) ELSE Thrown
    ELSE LET mode == Bits(stream, 4)
             segment == Segment(mode, Rest(stream, 4), version)
         IN  IF mode = 0 THEN Read(<<>>, <<>>)
             ELSE IF ~ segment.ok THEN Thrown
             ELSE Then(segment.text, Segments(segment.stream, version))

DecodeData(data, version) == Segments(BitStream(data), version)
=============================================================================
