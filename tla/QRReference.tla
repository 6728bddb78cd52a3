------------------------------ MODULE QRReference ------------------------------
(***************************************************************************)
(* How a QR code is written, after the standard (ISO/IEC 18004) and not    *)
(* after the code: the reference that the decoder is checked against.      *)
(* Tables of block sizes and places of alignment patterns are the          *)
(* decoder's; that they fit the space of a code is checked too.            *)
(***************************************************************************)
EXTENDS QRMatrix, QRBinarizer, QRLocator

BitsOf(value, n) == [i \in 1..n |-> (value \div 2^(n - i)) % 2]

-----------------------------------------------------------------------------
(* Reed-Solomon codes: the multiples of the generator.                     *)

Generator(field, n) ==
    Folded(LAMBDA product, i : MultiplyPolys(field, product, <<1, Exp(field, i - 1)>>),
           One, [i \in 1..n |-> i])

(* The systematic code, by the shift register of the standard.             *)
ErrorCodewords(field, data, n) ==
    LET g == Generator(field, n)
        Shift(register, d) ==
            LET feedback == AddOrSubtractGF(d, register[1])
            IN  Evaluated([i \in 1..n |->
                    AddOrSubtractGF(IF i = n THEN 0 ELSE register[i + 1],
                                    Multiply(field, feedback, g[i + 1]))])
    IN  Folded(Shift, [i \in 1..n |-> 0], data)

-----------------------------------------------------------------------------
(* Data codewords of a sequence of segments <<mode, values>>: digits, the   *)
(* numbers of alphanumeric characters, characters, pairs of a Shift JIS     *)
(* code and its character, or one ECI number.                                                             *)

CharacterCountBits(mode, version) ==
    LET range == IF version < 10 THEN 1 ELSE IF version < 27 THEN 2 ELSE 3
    IN  CASE mode = 1 -> <<10, 12, 14>>[range]
          [] mode = 2 -> <<9, 11, 13>>[range]
          [] mode = 4 -> <<8, 16, 16>>[range]
          [] mode = 8 -> <<8, 10, 12>>[range]

(* Values in groups of n, each group as one number of the given base.      *)
RECURSIVE GroupBits(_, _, _)
GroupBits(values, base, bits) ==
    LET n == IF Len(values) < Len(bits) THEN Len(values) ELSE Len(bits)
        number == Folded(LAMBDA x, v : base * x + v, 0, SubSeq(values, 1, n))
    IN  IF values = <<>> THEN <<>>
        ELSE BitsOf(number, bits[n]) \o GroupBits(SubSeq(values, n + 1, Len(values)), base, bits)

EciBits(assignment) ==
    IF assignment < 128 THEN BitsOf(assignment, 8)
    ELSE IF assignment < 16384 THEN <<1, 0>> \o BitsOf(assignment, 14)
    ELSE <<1, 1, 0>> \o BitsOf(assignment, 21)

Utf8Bytes(c) ==
    IF c < 128 THEN <<c>>
    ELSE IF c < 2048 THEN <<192 + (c \div 64), 128 + (c % 64)>>
    ELSE IF c < 65536 THEN <<224 + (c \div 4096), 128 + ((c \div 64) % 64), 128 + (c % 64)>>
    ELSE <<240 + (c \div 262144), 128 + ((c \div 4096) % 64), 128 + ((c \div 64) % 64),
           128 + (c % 64)>>

KanjiNumber(c) ==
    LET offset == c - (IF c <= 40956 THEN 33088 ELSE 49472)
    IN  192 * (offset \div 256) + (offset % 256)

(* The numbers that a segment holds.                                       *)
Held(mode, values) ==
    CASE mode \in {1, 2} -> values
      [] mode = 4 -> FlattenSeq([i \in DOMAIN values |-> Utf8Bytes(values[i])])
      [] mode = 8 -> [i \in DOMAIN values |-> KanjiNumber(values[i][1])]

SegmentBits(mode, values, version) ==
    LET held == Held(mode, values)
    IN  BitsOf(mode, 4) \o
        IF mode = 7 THEN EciBits(values[1])
        ELSE BitsOf(Len(held), CharacterCountBits(mode, version)) \o
             CASE mode = 1 -> GroupBits(held, 10, <<4, 7, 10>>)
               [] mode = 2 -> GroupBits(held, 45, <<6, 11>>)
               [] mode = 4 -> GroupBits(held, 256, <<8>>)
               [] mode = 8 -> GroupBits(held, 8192, <<13>>)

SegmentsBits(segments, version) ==
    FlattenSeq([s \in DOMAIN segments |->
                   SegmentBits(segments[s][1], segments[s][2], version)])

(* Segments, terminator, and padding up to the capacity in bytes.          *)
Terminated(bits, capacity) == bits \o [i \in 1..Min({4, 8 * capacity - Len(bits)}) |-> 0]

Aligned(bits) == bits \o [i \in 1..((8 - (Len(bits) % 8)) % 8) |-> 0]

Filled(bits, capacity) ==
    LET used == Len(bits) \div 8
    IN  Evaluated([b \in 1..capacity |->
            IF b <= used THEN Number(SubSeq(bits, 8 * b - 7, 8 * b))
            ELSE IF (b - used) % 2 = 1 THEN 236 ELSE 17])

DataBytes(segments, version, capacity) ==
    Filled(Aligned(Terminated(SegmentsBits(segments, version), capacity)), capacity)

(* The text the segments stand for.                                        *)
SegmentText(mode, values) ==
    CASE mode = 1 -> [i \in DOMAIN values |-> values[i] + 48]
      [] mode = 2 -> [i \in DOMAIN values |-> AlphanumericCharacterCodes[values[i] + 1]]
      [] mode = 4 -> values
      [] mode = 7 -> <<>>
      [] mode = 8 -> [i \in DOMAIN values |-> values[i][2]]

SegmentsText(segments) ==
    FlattenSeq([s \in DOMAIN segments |-> SegmentText(segments[s][1], segments[s][2])])

-----------------------------------------------------------------------------
(* Format and version words: BCH codes of distance 7 and 8.                *)

RECURSIVE Remainder(_, _, _)
Remainder(word, generator, degree) ==
    LET high == {i \in 0..20 : word >= 2^i}
    IN  IF word < 2^degree THEN word
        ELSE Remainder(word ^^ (generator * 2^(Max(high) - degree)), generator, degree)

FormatWord(level, mask) ==
    LET data == 8 * <<1, 0, 3, 2>>[level + 1] + mask
    IN  (1024 * data + Remainder(1024 * data, 1335, 10)) ^^ 21522

VersionWord(version) == 4096 * version + Remainder(4096 * version, 7973, 12)

FormatPlaces(d) == <<
    <<<<0, 8>>, <<1, 8>>, <<2, 8>>, <<3, 8>>, <<4, 8>>, <<5, 8>>, <<7, 8>>, <<8, 8>>,
      <<8, 7>>, <<8, 5>>, <<8, 4>>, <<8, 3>>, <<8, 2>>, <<8, 1>>, <<8, 0>>>>,
    <<<<8, d - 1>>, <<8, d - 2>>, <<8, d - 3>>, <<8, d - 4>>, <<8, d - 5>>, <<8, d - 6>>,
      <<8, d - 7>>, <<d - 8, 8>>, <<d - 7, 8>>, <<d - 6, 8>>, <<d - 5, 8>>, <<d - 4, 8>>,
      <<d - 3, 8>>, <<d - 2, 8>>, <<d - 1, 8>>>>>>

VersionPlaces(d) == <<
    [i \in 1..18 |-> <<d - 11 + ((18 - i) % 3), (18 - i) \div 3>>],
    [i \in 1..18 |-> <<(18 - i) \div 3, d - 11 + ((18 - i) % 3)>>]>>

-----------------------------------------------------------------------------
(* A written code.                                                         *)

DataModules(version) ==
    ((0..16 + 4 * version) \X (0..16 + 4 * version)) \ FunctionPatternMask(version)

SizeOfBlocks(info) ==
    SumOf(info.dataCodewords) + Len(info.dataCodewords) * info.ecCodewordsPerBlock

(* The tables of the decoder: the blocks of each version fill its modules, *)
(* and the words are those of the standard.                                *)
ASSUME TablesFit ==
    /\ \A version \in 1..40 : \A level \in 1..4 :
           SizeOfBlocks(VERSIONS[version].errorCorrectionLevels[level])
           = Cardinality(DataModules(version)) \div 8
    /\ \A version \in 7..40 : VERSIONS[version].infoBits = VersionWord(version)
    /\ \A i \in 1..32 :
           FormatBits[i] = FormatWord(FormatInfo(i).errorCorrectionLevel, FormatInfo(i).dataMask)

(* Two columns at a time, from the right, up and down in turns; the column *)
(* of the vertical timing pattern is none of them.                         *)
Place(p, d) ==
    LET right == IF p[1] > 6 THEN d - 1 - p[1] ELSE d - 2 - p[1]
        up    == (right \div 2) % 2 = 0
    IN  2 * d * (right \div 2) + 2 * (IF up THEN d - 1 - p[2] ELSE p[2]) + (right % 2)

Order(version) ==
    LET d       == 17 + 4 * version
        modules == [i \in 1..d * d |-> <<(i - 1) % d, (i - 1) \div d>>]
    IN  SortSeq(SelectSeq(modules, LAMBDA p : p \in DataModules(version)),
                LAMBDA p, q : Place(p, d) < Place(q, d))

InTurns(blocks) ==
    LET longest == Max({Len(blocks[b]) : b \in DOMAIN blocks})
        Turn(j) == LET long == SelectSeq([b \in DOMAIN blocks |-> b],
                                         LAMBDA b : Len(blocks[b]) >= j)
                   IN  [i \in DOMAIN long |-> blocks[long[i]][j]]
    IN  FlattenSeq([j \in 1..longest |-> Turn(j)])

Correctable(version, level) ==
    VERSIONS[version].errorCorrectionLevels[level + 1].ecCodewordsPerBlock \div 2

DataBlocks(bytes, sizes) ==
    [b \in DOMAIN sizes |->
        SubSeq(bytes, SumOf(SubSeq(sizes, 1, b - 1)) + 1, SumOf(SubSeq(sizes, 1, b)))]

Checked(data, n) ==
    Evaluated([b \in DOMAIN data |-> data[b] \o ErrorCodewords(QRField, data[b], n)])

(* So many codewords of every block are wrong, from place first on.        *)
Damaged(blocks, first, wrong) ==
    [b \in DOMAIN blocks |-> Evaluated(
        [i \in DOMAIN blocks[b] |->
            IF i \in first..first + wrong - 1 THEN blocks[b][i] ^^ (1 + ((37 * i) % 255))
            ELSE blocks[b][i]])]

InTurnsFrom(blocks, sizes) ==
    InTurns([b \in DOMAIN sizes |-> SubSeq(blocks[b], 1, sizes[b])])
    \o InTurns([b \in DOMAIN sizes |-> SubSeq(blocks[b], sizes[b] + 1, Len(blocks[b]))])

CodewordsOf(segments, version, info, first, wrong) ==
    LET sizes == info.dataCodewords
        data  == DataBlocks(DataBytes(segments, version, SumOf(sizes)), sizes)
    IN  InTurnsFrom(Damaged(Checked(data, info.ecCodewordsPerBlock), first, wrong), sizes)

Codewords(segments, version, level, first, wrong) ==
    CodewordsOf(segments, version, VERSIONS[version].errorCorrectionLevels[level + 1], first, wrong)

Flipped(value, places) == Folded(LAMBDA w, i : w ^^ (2^i), value, SetToSeq(places))

Word(places, value) ==
    {places[i] : i \in {k \in DOMAIN places : BitsOf(value, Len(places))[k] = 1}}

(* What the decoder reads; the patterns that help to find it are drawn on  *)
(* images.  Bits flipped of each copy of the format and the version are    *)
(* wrong.                                                                  *)
Written(codewords, order, version, level, mask, flipped) ==
    LET d    == 17 + 4 * version
        bits == BitStream(codewords)
        Dark(i) == (i <= Len(bits) /\ bits[i] = 1) # DataMask(mask, order[i][1], order[i][2])
        Copies(places, value) ==
            UNION {Word(places[c], Flipped(value, flipped[c])) : c \in 1..2}
    IN  [dimension |-> d,
         dark |-> {order[i] : i \in {k \in DOMAIN order : Dark(k)}}
                  \cup Copies(FormatPlaces(d), FormatWord(level, mask))
                  \cup IF version < 7 THEN {}
                       ELSE Copies(VersionPlaces(d), VersionWord(version))]

-----------------------------------------------------------------------------
(* An image of a code.                                                     *)

Span(p, q) == Max({Absolute(p[1] - q[1]), Absolute(p[2] - q[2])})

Patterns(version) ==
    LET d == 17 + 4 * version
        places  == (0..d - 1) \X (0..d - 1)
        finders == {<<3, 3>>, <<3, d - 4>>, <<d - 4, 3>>}
        centers == {VERSIONS[version].alignmentPatternCenters[i] :
                       i \in DOMAIN VERSIONS[version].alignmentPatternCenters}
        alignments == (centers \X centers) \ {<<6, 6>>, <<6, d - 7>>, <<d - 7, 6>>}
    IN  {<<p[1], p[2]>> : p \in {q \in places :
            \/ \E c \in finders : Span(q, c) \in {0, 1, 3}
            \/ \E c \in alignments : Span(q, c) \in {0, 2}
            \/ 6 \in {q[1], q[2]} /\ (q[1] + q[2]) % 2 = 0 /\ \A c \in finders : Span(q, c) > 4}}
        \cup {<<8, d - 8>>}

(* Turned a quarter to the right.                                          *)
Turned(matrix) ==
    [matrix EXCEPT !.dark = {<<matrix.dimension - 1 - p[2], p[1]>> : p \in @}]

(* A side of a module is scale pixels, and a quiet zone of four modules    *)
(* goes around.  The light fades from left to right.                       *)
Photograph(matrix, scale, extra, fading, negative) ==
    LET side  == (matrix.dimension + 8) * scale + extra
        Module(i) == <<(((i - 1) % side) \div scale) - 4, (((i - 1) \div side) \div scale) - 4>>
        Dark(i)   == (Module(i) \in matrix.dark) # negative
    IN  [width |-> side, height |-> side,
         grey |-> [i \in 1..side * side |->
                      (IF Dark(i) THEN 60 ELSE 220) - ((fading * ((i - 1) % side)) \div side)]
                  \o <<>>]
=============================================================================
