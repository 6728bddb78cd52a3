------------------------------- MODULE QRMatrix -------------------------------
(***************************************************************************)
(* From the modules of a QR code to its text (the decoder of               *)
(* static/js/jsQR.js).  A matrix is its dimension and the set of its dark  *)
(* modules <<x, y>>, counted from 0.                                       *)
(***************************************************************************)
EXTENDS QRVersions, QRSegments, ReedSolomon

QRField == Field(285, 256, 0)

NotDecoded == Thrown

Bit(matrix, p) == IF p \in matrix.dark THEN 1 ELSE 0

Read01(matrix, positions) ==
    Number([i \in DOMAIN positions |-> Bit(matrix, positions[i])])

-----------------------------------------------------------------------------
(* The words that tell version and format: two copies of each.             *)

NumBitsDiffering(x, y) ==
    LET z == x ^^ y IN Cardinality({i \in 0..17 : (z \div 2^i) % 2 = 1})

Differences(copies, word) == {NumBitsDiffering(copy, word) : copy \in copies}

(* The first of the words that differ least from a copy, by 3 bits at most.*)
Closest(copies, words) ==
    LET difference == [i \in DOMAIN words |-> Min(Differences(copies, words[i]))]
        least == Min({difference[i] : i \in DOMAIN words})
    IN  IF least > 3 THEN 0
        ELSE Min({i \in DOMAIN words : difference[i] = least})

(* The number of the version; 0 and others that no code has are no version.*)
ReadVersion(matrix) ==
    LET d == matrix.dimension
        topRight   == [i \in 1..18 |-> <<d - 9 - ((i - 1) % 3), 5 - (i - 1) \div 3>>]
        bottomLeft == [i \in 1..18 |-> <<topRight[i][2], topRight[i][1]>>]
        provisionalVersion == (d - 17) \div 4
    IN  IF provisionalVersion <= 6 THEN provisionalVersion
        ELSE Closest({Read01(matrix, topRight), Read01(matrix, bottomLeft)},
                     [v \in DOMAIN VERSIONS |-> VERSIONS[v].infoBits])

(* The number of the format; 0 is none.                                    *)
ReadFormatInformation(matrix) ==
    LET d == matrix.dimension
        NotTiming(p) == p[1] # 6 /\ p[2] # 6
        topLeft == SelectSeq([i \in 1..9 |-> <<i - 1, 8>>] \o [i \in 1..8 |-> <<8, 8 - i>>],
                             NotTiming)
        others  == [i \in 1..7 |-> <<8, d - i>>] \o [i \in 1..8 |-> <<d - 9 + i, 8>>]
    IN  Closest({Read01(matrix, topLeft), Read01(matrix, others)}, FormatBits)

-----------------------------------------------------------------------------
(* The codewords, in the order in which the modules hold them.             *)

DataMask(mask, x, y) ==
    CASE mask = 0 -> (y + x) % 2 = 0
      [] mask = 1 -> y % 2 = 0
      [] mask = 2 -> x % 3 = 0
      [] mask = 3 -> (y + x) % 3 = 0
      [] mask = 4 -> ((y \div 2) + (x \div 3)) % 2 = 0
      [] mask = 5 -> ((x * y) % 2) + ((x * y) % 3) = 0
      [] mask = 6 -> (((y * x) % 2) + ((y * x) % 3)) % 2 = 0
      [] mask = 7 -> (((y + x) % 2) + ((y * x) % 3)) % 2 = 0

Region(left, top, width, height) == (left..left + width - 1) \X (top..top + height - 1)

AlignmentPatterns(version, d) ==
    LET C == {VERSIONS[version].alignmentPatternCenters[i] :
                 i \in DOMAIN VERSIONS[version].alignmentPatternCenters}
    IN  {Region(c[1] - 2, c[2] - 2, 5, 5) :
            c \in (C \X C) \ {<<6, 6>>, <<6, d - 7>>, <<d - 7, 6>>}}

FunctionPatternMask(version) ==
    LET d == 17 + 4 * version
    IN  UNION ({Region(0, 0, 9, 9), Region(d - 8, 0, 8, 9), Region(0, d - 8, 9, 8),
                Region(6, 9, 1, d - 17), Region(9, 6, d - 17, 1)}
               \cup AlignmentPatterns(version, d)
               \cup (IF version > 6 THEN {Region(d - 11, 0, 3, 6), Region(0, d - 11, 6, 3)}
                     ELSE {}))

(* Pairs of columns from the right, one up, the next down.                 *)
ColumnWithTiming(d, pair) == d - 1 - 2 * pair  \* a mutant: column 6 is read
Column(d, pair) == IF d - 1 - 2 * pair > 6 THEN d - 1 - 2 * pair ELSE d - 2 - 2 * pair

Path(d) ==
    [i \in 1..2 * d * ((d - 1) \div 2) |->
        LET pair == (i - 1) \div (2 * d)
            row  == ((i - 1) % (2 * d)) \div 2
        IN  <<Column(d, pair) - ((i - 1) % 2), IF pair % 2 = 0 THEN d - 1 - row ELSE row>>]

ReadCodewords(matrix, version, dataMask) ==
    LET mask == FunctionPatternMask(version)
        data == SelectSeq(Path(matrix.dimension), LAMBDA p : p \notin mask)
        Unmasked(p) == IF DataMask(dataMask, p[1], p[2]) THEN 1 - Bit(matrix, p)
                       ELSE Bit(matrix, p)
    IN  Evaluated([c \in 1..Len(data) \div 8 |->
            Number([i \in 1..8 |-> Unmasked(data[8 * (c - 1) + i])])])

-----------------------------------------------------------------------------
(* The blocks take turns in the codewords: first the data of each, up to   *)
(* the size of the first, then the rest of the larger ones, then the error *)
(* correction codewords.  <<>> is null.                                    *)

SumOf(sizes) == Folded(+, 0, sizes)

TotalCodewords(level) ==
    SumOf(level.dataCodewords) + Len(level.dataCodewords) * level.ecCodewordsPerBlock

GetDataBlocks(codewords, level) ==
    LET sizes == level.dataCodewords
        n     == Len(sizes)
        short == sizes[1]
        firstLarge == Min({b \in 1..n + 1 : b = n + 1 \/ sizes[b] > short})
        Index(b, j) ==
            IF j <= short THEN (j - 1) * n + b
            ELSE IF j <= sizes[b] THEN short * n + b - firstLarge + 1
            ELSE SumOf(sizes) + (j - sizes[b] - 1) * n + b
    IN  IF Len(codewords) < TotalCodewords(level) THEN <<>>
        ELSE [b \in 1..n |-> Evaluated(
                 [j \in 1..sizes[b] + level.ecCodewordsPerBlock |-> codewords[Index(b, j)]])]

-----------------------------------------------------------------------------
(* The text of a matrix.                                                   *)

Blocks(matrix, version, format, level) ==
    GetDataBlocks(ReadCodewords(matrix, version, FormatInfo(format).dataMask), level)

Corrected(blocks, level) ==
    Evaluated([b \in DOMAIN blocks |-> DecodeBlock(QRField, blocks[b], level.ecCodewordsPerBlock)])

DataOf(corrected, level) ==
    FlattenSeq([b \in DOMAIN corrected |-> SubSeq(corrected[b], 1, level.dataCodewords[b])])

TextOf(corrected, level, version) ==
    IF corrected = <<>> \/ \E b \in DOMAIN corrected : corrected[b] = Null THEN NotDecoded
    ELSE DecodeData(DataOf(corrected, level), version)

DecodeAs(matrix, version, format) ==
    LET level == VERSIONS[version].errorCorrectionLevels[FormatInfo(format).errorCorrectionLevel + 1]
    IN  IF version \notin DOMAIN VERSIONS \/ format = 0 THEN NotDecoded
        ELSE TextOf(Corrected(Blocks(matrix, version, format, level), level), level, version)

DecodeMatrix(matrix) == DecodeAs(matrix, ReadVersion(matrix), ReadFormatInformation(matrix))

OrElse(result, other) == IF result.ok THEN result ELSE other

Mirrored(matrix) == [matrix EXCEPT !.dark = {<<p[2], p[1]>> : p \in @}]

Decode(matrix) == OrElse(DecodeMatrix(matrix), DecodeMatrix(Mirrored(matrix)))

(* The first matrix that can be read of those that were extracted: from    *)
(* the binarized image, then from the inverted one.                        *)
RECURSIVE Scan(_)
Scan(matrices) ==
    IF matrices = <<>> THEN NotDecoded
    ELSE OrElse(Decode(Head(matrices)), Scan(Tail(matrices)))

JsQR(binarized, inverted) == OrElse(Scan(binarized), Scan(inverted))
=============================================================================
