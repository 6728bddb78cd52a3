------------------------------- MODULE QRLocator -------------------------------
(***************************************************************************)
(* Where a QR code is in a matrix of black and white, and its modules (the *)
(* locator and the extractor of static/js/jsQR.js).  Points <<x, y>> are   *)
(* in quarters of a pixel, lengths and scores in hundredths, rounded,      *)
(* where the code computes with doubles; <<>> stands for null.             *)
(***************************************************************************)
EXTENDS Evaluation

Total(values) == Joined(+, values)

Absolute(n) == IF n < 0 THEN -n ELSE n

Root(n) ==
    Folded(LAMBDA r, b : IF r + b <= 46340 /\ (r + b) * (r + b) <= n THEN r + b ELSE r,
             0, [i \in 1..16 |-> 2^(16 - i)])

Distance(p, q) ==
    LET dx == q[1] - p[1]
        dy == q[2] - p[2]
    IN  Root(625 * (dx * dx + dy * dy))

RoundDiv(a, b) == (2 * a + b) \div (2 * b)

(* Of values with a score the one with the least, the first of several.    *)
Best(scored) ==
    Joined(LAMBDA a, b : IF b.score < a.score THEN b ELSE a, scored)

Pixel(matrix, x, y) == <<x, y>> \in matrix.dark

-----------------------------------------------------------------------------
(* Runs of black and white from a point towards another, which Bresenham's *)
(* algorithm follows: black, white, black, up to length runs.              *)

RECURSIVE SwitchPoints(_, _, _, _, _)
SwitchPoints(matrix, line, at, length, found) ==
    LET real     == IF line.steep THEN <<at.y, at.x>> ELSE <<at.x, at.y>>
        current  == Len(found) % 2 = 1
        switches == Pixel(matrix, real[1], real[2]) # current
        now      == IF switches THEN Append(found, real) ELSE found
        error    == at.error + line.dy
        up       == error > 0
    IN  IF at.x = line.toX + line.xStep THEN found
        ELSE IF Len(now) = length + 1 \/ (up /\ at.y = line.toY) THEN now
        ELSE SwitchPoints(matrix, line,
                 [x |-> at.x + line.xStep,
                  y |-> IF up THEN at.y + line.yStep ELSE at.y,
                  error |-> IF up THEN error - line.dx ELSE error], length, now)

(* The distances from each switch point to the next one.                   *)
Runs(points, length) ==
    [i \in 1..length |->
        IF i < Len(points)
        THEN Distance(<<4 * points[i][1], 4 * points[i][2]>>,
                      <<4 * points[i + 1][1], 4 * points[i + 1][2]>>)
        ELSE 0]

CountBlackWhiteRunTowardsPoint(origin, end, matrix, length) ==
    LET steep == Absolute(end[2] - origin[2]) > Absolute(end[1] - origin[1])
        main  == IF steep THEN 2 ELSE 1
        from  == <<origin[main] \div 4, origin[3 - main] \div 4>>
        to    == <<end[main] \div 4, end[3 - main] \div 4>>
        line  == [steep |-> steep, toX |-> to[1], toY |-> to[2],
                  dx |-> Absolute(to[1] - from[1]), dy |-> Absolute(to[2] - from[2]),
                  xStep |-> IF from[1] < to[1] THEN 1 ELSE -1,
                  yStep |-> IF from[2] < to[2] THEN 1 ELSE -1]
        start == [x |-> from[1], y |-> from[2], error |-> (-line.dx) \div 2]
    IN  Runs(SwitchPoints(matrix, line, start, length,
                          <<<<origin[1] \div 4, origin[2] \div 4>>>>), length)

(* The runs on both sides; the pixel of the point counts once.             *)
BothSides(towards, away) ==
    Tail(away) \o <<towards[1] + away[1] - 100>> \o Tail(towards)

CountBlackWhiteRun(origin, end, matrix, length) ==
    LET opposite == <<2 * origin[1] - end[1], 2 * origin[2] - end[2]>>
        Towards(point) ==
            CountBlackWhiteRunTowardsPoint(origin, point, matrix, (length + 1) \div 2)
    IN  BothSides(Towards(end), Towards(opposite))

(* How far a run is from its ratios; the bound keeps squares in 32 bits.   *)
MaxError == 20000

ScoreBlackWhiteRun(run, ratios) ==
    LET averageSize == Total(run) \div Total(ratios)
        Square(i) == LET d == run[i] - ratios[i] * averageSize
                     IN  IF Absolute(d) > MaxError THEN MaxError ELSE (d * d) \div 100
        error == Total([i \in DOMAIN run |-> Square(i)])
    IN  [averageSize |-> averageSize, error |-> IF error > MaxError THEN MaxError ELSE error]

Score(runs) ==
    LET ratioError == Root(Total([i \in 1..4 |-> runs[i].error * runs[i].error]))
        average    == Total([i \in 1..4 |-> runs[i].averageSize]) \div 4
        Off(i)     == runs[i].averageSize - average
    IN  ratioError + Total([i \in 1..4 |-> Off(i) * Off(i)]) \div average

(* Across, down, and along both diagonals.                                 *)
ScorePattern(point, ratios, matrix) ==
    LET x == point[1]
        y == point[2]
        Least(a, b) == IF a < b THEN a ELSE b
        ends == <<<<-1, y>>, <<x, -1>>,
                  <<x - Least(x, y) - 1, y - Least(x, y) - 1>>,
                  <<Least(matrix.width, x + y) + 1, Least(matrix.height, y + x) + 1>>>>
        Run(end) == CountBlackWhiteRun(<<4 * x, 4 * y>>, <<4 * end[1], 4 * end[2]>>,
                                       matrix, Len(ratios))
    IN  Score(Evaluated([i \in 1..4 |-> ScoreBlackWhiteRun(Run(ends[i]), ratios)]))

-----------------------------------------------------------------------------
(* Rows are searched for runs like those through the middle of a finder or *)
(* an alignment pattern; such lines below each other make a quad.          *)

(* Where a row changes its colour, first to black.                         *)
Changes(matrix, y) ==
    SelectSeq([x \in 1..matrix.width + 1 |-> x - 1],
              LAMBDA x : Pixel(matrix, x, y) # Pixel(matrix, x - 1, y))

Like(value, ratio, sum, ratios) ==
    Absolute(ratios * value - ratio * sum) < ratio * sum

ValidFinder(scans) ==
    \A i \in 1..5 : Like(scans[i], IF i = 3 THEN 3 ELSE 1, Total(scans), 7)

ValidAlignment(scans) ==
    \A i \in 3..5 : Like(scans[i], 1, scans[3] + scans[4] + scans[5], 3)

Matches(quad, line, middle) ==
    LET b == quad.bottom
        width == b.endX - b.startX
    IN  \/ line.startX >= b.startX /\ line.startX <= b.endX
        \/ line.endX >= b.startX /\ line.startX <= b.endX
        \/ /\ line.startX <= b.startX /\ line.endX >= b.endX
           /\ 2 * middle < 3 * width /\ 2 * middle > width

Extended(quads, line, middle) ==
    LET matching == {i \in DOMAIN quads : Matches(quads[i], line, middle)}
        first    == CHOOSE i \in matching : \A j \in matching : i <= j
    IN  IF matching = {} THEN Append(quads, [top |-> line, bottom |-> line])
        ELSE [quads EXCEPT ![first].bottom = line]

(* The quads that are active after a row.                                  *)
AfterRow(matrix, y, active) ==
    LET changes == Changes(matrix, y)
        At(k)   == IF k < 1 THEN -1 ELSE changes[k]
        Change(quads, k) ==
            LET scans == [i \in 1..5 |-> At(k - 5 + i) - At(k - 6 + i)]
                Line(from, to) == [startX |-> At(from), endX |-> At(to), y |-> y]
            IN  IF k % 2 = 0 /\ ValidFinder(scans)
                THEN [quads EXCEPT !.finder = Extended(@, Line(k - 3, k - 2), scans[3])]
                ELSE IF k % 2 = 1 /\ ValidAlignment(scans)
                THEN [quads EXCEPT !.alignment = Extended(@, Line(k - 2, k - 1), scans[3])]
                ELSE quads
    IN  Folded(Change, active, [k \in DOMAIN changes |-> k])

Height(quad) == quad.bottom.y - quad.top.y

(* The quads above row q.y, and those that go on there.                    *)
RECURSIVE QuadsFrom(_, _)
QuadsFrom(matrix, q) ==
    LET active     == AfterRow(matrix, q.y, q.active)
        Over(quad) == quad.bottom.y # q.y
        Goes(quad) == quad.bottom.y = q.y
    IN  IF q.y > matrix.height THEN q
        ELSE QuadsFrom(matrix,
                 [y         |-> q.y + 1,
                  finder    |-> q.finder \o SelectSeq(active.finder,
                                    LAMBDA quad : Over(quad) /\ Height(quad) >= 2),
                  alignment |-> q.alignment \o SelectSeq(active.alignment, Over),
                  active    |-> [finder    |-> SelectSeq(active.finder, Goes),
                                 alignment |-> SelectSeq(active.alignment, Goes)]])

Quads(matrix) ==
    QuadsFrom(matrix, [y |-> 0, finder |-> <<>>, alignment |-> <<>>,
                       active |-> [finder |-> <<>>, alignment |-> <<>>]])

Centre(quad) ==
    <<quad.top.startX + quad.top.endX + quad.bottom.startX + quad.bottom.endX,
      2 * (quad.top.y + quad.bottom.y + 1)>>

(* Three times the size of a quad.                                         *)
Size3(quad) ==
    quad.top.endX - quad.top.startX + quad.bottom.endX - quad.bottom.startX + Height(quad) + 1

-----------------------------------------------------------------------------
(* The three finder patterns.                                              *)

MAX_FINDERPATTERNS_TO_SEARCH == 4

Round(p) == <<(p[1] + 2) \div 4, (p[2] + 2) \div 4>>

(* Patterns with a score, those with the least first.                      *)
Sorted(patterns) ==
    SortSeq(patterns, LAMBDA p, q : p.score < q.score \/ (p.score = q.score /\ p.place < q.place))

FinderPatterns(matrix, quads) ==
    LET Scored(centre, size, place) ==
            [point |-> centre, size |-> size, place |-> place,
             score |-> ScorePattern(Round(centre), <<1, 1, 3, 1, 1>>, matrix)]
        dark == SelectSeq(quads, LAMBDA q : Round(Centre(q)) \in matrix.dark)
    IN  Sorted(Evaluated([i \in DOMAIN dark |-> Scored(Centre(dark[i]), Size3(dark[i]), i)]))

(* A pattern with the two others that suit its size best.                  *)
Group(patterns, i) ==
    LET own == patterns[i]
        Other(p) == [p EXCEPT !.score =
                        @ + (100 * (p.size - own.size) * (p.size - own.size)) \div (3 * own.size)]
        others == Evaluated([j \in DOMAIN patterns |-> Other(patterns[j])])
        second == Best(RemoveAt(others, i))
        third  == Best(SelectSeq(RemoveAt(others, i), LAMBDA p : p.place # second.place))
    IN  [points |-> <<own.point, second.point, third.point>>,
         score  |-> own.score + second.score + third.score]

Oriented(a, b, c) ==
    LET flipped == (c[1] - b[1]) * (a[2] - b[2]) - (c[2] - b[2]) * (a[1] - b[1]) < 0
    IN  [topLeft |-> b, topRight |-> IF flipped THEN a ELSE c,
         bottomLeft |-> IF flipped THEN c ELSE a]

ReorderFinderPatterns(p) ==
    LET oneTwo   == Distance(p[1], p[2])
        twoThree == Distance(p[2], p[3])
        oneThree == Distance(p[1], p[3])
    IN  IF twoThree >= oneTwo /\ twoThree >= oneThree THEN Oriented(p[2], p[1], p[3])
        ELSE IF oneThree >= twoThree /\ oneThree >= oneTwo THEN Oriented(p[1], p[2], p[3])
        ELSE Oriented(p[1], p[3], p[2])

-----------------------------------------------------------------------------
(* The size of the code, and its alignment pattern.                        *)

ModuleSize(f, matrix) ==
    LET Run(p, q) == Total(CountBlackWhiteRun(p, q, matrix, 5))
    IN  (Run(f.topLeft, f.bottomLeft) + Run(f.topLeft, f.topRight)
         + Run(f.bottomLeft, f.topLeft) + Run(f.topRight, f.topLeft)) \div 28

ToOdd(n) == IF n % 4 = 0 THEN n + 1 ELSE IF n % 4 = 2 THEN n - 1 ELSE n

ComputeDimension(f, moduleSize) ==
    ToOdd((RoundDiv(Distance(f.topLeft, f.topRight), moduleSize)
           + RoundDiv(Distance(f.topLeft, f.bottomLeft), moduleSize)) \div 2 + 7)

ExpectedAlignmentPattern(f, between, moduleSize) ==
    LET At(k) == f.topLeft[k] + RoundDiv((between - 6 * moduleSize)
                     * (f.topRight[k] + f.bottomLeft[k] - 2 * f.topLeft[k]), between)
    IN  <<At(1), At(2)>>

(* Without an alignment pattern, or in a code too small for one, the place *)
(* where it would be.                                                      *)
AlignmentPatternNear(matrix, quads, expected) ==
    LET Floor(p)       == <<p[1] \div 4, p[2] \div 4>>
        Scored(centre) == [point |-> centre,
                           score |-> ScorePattern(Floor(centre), <<1, 1, 1>>, matrix)
                                     + Distance(centre, expected)]
        dark == SelectSeq(quads, LAMBDA q : Floor(Centre(q)) \in matrix.dark)
    IN  IF dark = <<>> THEN expected
        ELSE Best(Evaluated([i \in DOMAIN dark |-> Scored(Centre(dark[i]))])).point

FindAlignmentPatternBy(matrix, quads, f, between, moduleSize) ==
    LET expected == ExpectedAlignmentPattern(f, between, moduleSize)
    IN  IF moduleSize < 100 THEN <<>>
        ELSE <<[f EXCEPT !.dimension = ComputeDimension(f, moduleSize),
                         !.alignmentPattern =
                             IF between >= 30 * moduleSize
                             THEN AlignmentPatternNear(matrix, quads, expected) ELSE expected]>>

FindAlignmentPattern(matrix, quads, f) ==
    FindAlignmentPatternBy(matrix, quads, f,
        Distance(f.topLeft, f.bottomLeft) + Distance(f.topLeft, f.topRight),
        ModuleSize(f, matrix))

(* The middle of the black around a point, across and then down.           *)
RECURSIVE EndOfBlack(_, _, _)
EndOfBlack(matrix, p, step) ==
    IF p \in matrix.dark THEN EndOfBlack(matrix, <<p[1] + step[1], p[2] + step[2]>>, step) ELSE p

RecenterLocation(matrix, p) ==
    LET y == Round(p)[2]
        End(x, step) == EndOfBlack(matrix, <<x, y>>, step)
        across == End(Round(p)[1], <<-1, 0>>)[1] + End(Round(p)[1], <<1, 0>>)[1]
        Down(column) == End(column, <<0, -1>>)[2] + End(column, <<0, 1>>)[2]
    IN  <<2 * across, 2 * Down((across + 1) \div 2)>>

(* The best of the groups around the first patterns.                       *)
BestGroup(patterns) ==
    LET tried == IF Len(patterns) > MAX_FINDERPATTERNS_TO_SEARCH
                 THEN MAX_FINDERPATTERNS_TO_SEARCH + 1 ELSE Len(patterns)
    IN  Best([i \in 1..tried |-> Group(patterns, i)]).points

(* By the corners as they were found, and in the middle of their black.    *)
LocateBy(matrix, quads, corners) ==
    LET Location(topLeft, topRight, bottomLeft) ==
            FindAlignmentPattern(matrix, quads,
                [topLeft |-> topLeft, topRight |-> topRight, bottomLeft |-> bottomLeft,
                 dimension |-> 0, alignmentPattern |-> <<>>])
        Middle(p) == RecenterLocation(matrix, p)
    IN  Location(corners.topLeft, corners.topRight, corners.bottomLeft)
        \o Location(Middle(corners.topLeft), Middle(corners.topRight), Middle(corners.bottomLeft))

LocateAmong(matrix, quads, patterns) ==
    IF Len(patterns) < 3 THEN <<>>
    ELSE LocateBy(matrix, quads.alignment, ReorderFinderPatterns(BestGroup(patterns)))

LocateIn(matrix, quads) == LocateAmong(matrix, quads, FinderPatterns(matrix, quads.finder))

Locate(matrix) == LocateIn(matrix, Quads(matrix))

-----------------------------------------------------------------------------
(* The extractor: the perspective of the square with corners p, <<row 1,   *)
(* row 2, row 3>> up to a factor, which leaves places as they are.         *)

RECURSIVE Gcd(_, _)
Gcd(a, b) == IF b = 0 THEN a ELSE Gcd(b, a % b)

(* Numbers divided by their greatest common divisor.                       *)
Quotient(n, d) == IF n < 0 THEN -((-n) \div d) ELSE n \div d

CommonDivisor(numbers) ==
    LET g == Joined(Gcd, [i \in DOMAIN numbers |-> Absolute(numbers[i])])
    IN  IF g = 0 THEN 1 ELSE g

Reduced(m) ==
    LET d == CommonDivisor(m[1] \o m[2] \o m[3])
    IN  Evaluated([r \in 1..3 |-> Evaluated([c \in 1..3 |-> Quotient(m[r][c], d)])])

(* The perspective with <<a33, a13, a23>> = w.                             *)
Perspective(p1, p2, p4, w) ==
    Reduced(<<<<w[1] * (p2[1] - p1[1]) + w[2] * p2[1], w[1] * (p2[2] - p1[2]) + w[2] * p2[2], w[2]>>,
              <<w[1] * (p4[1] - p1[1]) + w[3] * p4[1], w[1] * (p4[2] - p1[2]) + w[3] * p4[2], w[3]>>,
              <<w[1] * p1[1], w[1] * p1[2], w[1]>>>>)

Coprime(w) == LET d == CommonDivisor(w) IN [i \in DOMAIN w |-> Quotient(w[i], d)]

SquareToQuadrilateral(p1, p2, p3, p4) ==
    LET dx3 == p1[1] - p2[1] + p3[1] - p4[1]
        dy3 == p1[2] - p2[2] + p3[2] - p4[2]
        dx1 == p2[1] - p3[1]
        dx2 == p4[1] - p3[1]
        dy1 == p2[2] - p3[2]
        dy2 == p4[2] - p3[2]
    IN  IF dx3 = 0 /\ dy3 = 0
        THEN <<<<p2[1] - p1[1], p2[2] - p1[2], 0>>, <<p3[1] - p2[1], p3[2] - p2[2], 0>>,
               <<p1[1], p1[2], 1>>>>
        ELSE Perspective(p1, p2, p4,
                 Evaluated(Coprime(<<dx1 * dy2 - dx2 * dy1, dx3 * dy2 - dx2 * dy3, dx1 * dy3 - dx3 * dy1>>)))

(* The adjoint serves as the inverse.                                      *)
Adjoint(s) ==
    LET Minor(a, b, c, d) == s[a][b] * s[c][d] - s[a][d] * s[c][b]
    IN  Reduced(<<<<Minor(2, 2, 3, 3), -Minor(1, 2, 3, 3), Minor(1, 2, 2, 3)>>,
                  <<-Minor(2, 1, 3, 3), Minor(1, 1, 3, 3), -Minor(1, 1, 2, 3)>>,
                  <<Minor(2, 1, 3, 2), -Minor(1, 1, 3, 2), Minor(1, 1, 2, 2)>>>>)

QuadrilateralToSquare(p1, p2, p3, p4) == Adjoint(SquareToQuadrilateral(p1, p2, p3, p4))

Times(a, b) ==
    Reduced([r \in 1..3 |-> [c \in 1..3 |->
                a[1][c] * b[r][1] + a[2][c] * b[r][2] + a[3][c] * b[r][3]]])

(* The middle of each module, in half modules, and the pixel it lies in.   *)
ExtractBy(matrix, d, t) ==
    LET Column(c, p) == t[1][c] * (2 * p[1] + 1) + t[2][c] * (2 * p[2] + 1) + t[3][c]
        Floor(n, w)  == IF w > 0 THEN n \div (4 * w) ELSE (-n) \div (-4 * w)
        Dark(p, w)   == w # 0 /\ <<Floor(Column(1, p), w), Floor(Column(2, p), w)>> \in matrix.dark
        modules      == (0..d - 1) \X (0..d - 1)
    IN  [dimension |-> d,
         dark |-> {<<p[1], p[2]>> : p \in {q \in modules : Dark(q, Column(3, q))}}]

Extract(matrix, location) ==
    LET d == location.dimension
        qToS == QuadrilateralToSquare(<<7, 7>>, <<2 * d - 7, 7>>, <<2 * d - 13, 2 * d - 13>>,
                                      <<7, 2 * d - 7>>)
        sToQ == SquareToQuadrilateral(location.topLeft, location.topRight,
                                      location.alignmentPattern, location.bottomLeft)
    IN  ExtractBy(matrix, d, Times(sToQ, qToS))
=============================================================================
